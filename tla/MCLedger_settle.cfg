CONSTANTS
    Accounts = {0, 1, 2}
    DEIP = "DEIP"
    Token = "TOKEN"
    GrantAsset = "GRANT"
    USD = "USD"
    Assets <- MCAssets
    IssuableAssets = {"TOKEN", "GRANT", "USD"}
    MaxSupply = 10000
    HundredPercent = 10000
    Amounts = {1, 19999}
    Group = 1
    HoldersShare = 10000
    SaleTerms <- MCRoundingTerms
    WithdrawIntervals = 2
    WithdrawInterval = 2
    MaxRoutes = 1
    MinCommonTokens = 1
    Percents = {0, 3300, 10000}
    EmissionDivisor = 1000000
    ContributionPercent = 7000
    WitnessWeight = 2
    PayNormalization = 2
    Witnesses = {1}
    VestingTerms <- MCVestingTerms
    University = 2
    Treasury = 2
    AwardTerms <- MCAwardTerms
    MaxVestings = 1
    MaxAwards = 2
    MaxRequests = 2
    BlockGaps = {1, 2}
    MaxTime = 4
    Scenarios <- MCRoundingScenarios
    Genesis <- MCRoundingGenesis
    RegistrarCommon = 4
    Founder = 0
    Disciplines = {"biology", "genetics"}
    Lineage <- MCLineage
    FirstExpertise <- MCFirstExpertise
    MinShare = 5000
    ReviewersPercent = 3000
    AuthorsPercent = 7000
    CuratorBonus = 10
    Regeneration = 8
    SpreadDenominator = 10
    VoteWeights = {10000}
    IntLimit = 62
    Int64Limit = 100000
    DiffLimit = 1000
    MaxResearches = 2
    MaxContents = 2
SPECIFICATION Spec
CHECK_DEADLOCK FALSE
INVARIANTS
    SaleCanBeSettled
