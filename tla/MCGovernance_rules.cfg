CONSTANTS
    Names <- MCNames
    Recoverable = {"group"}
    OwnerAuths <- MCOwnerAuths
    Open <- MCOpen
    NoPartner = "nobody"
    TopWitness = "alice"
    RecoveryPeriod = 2
    RequestPeriod = 1
    OwnerUpdateLimit = 1
    HistoryStart = 1
    MaxSigCheckDepth = 2
    Group = "group"
    Ids = {1, 2, 3, 4, 5, 6, 7}
    Terms <- MCTerms
    Approvals <- MCApprovals
    GroupFunds = 2
    MaxNesting = 4
    MaxLifetime = 3
    EntityLifetime = 3
    FirstActive <- MCFirstActive
    FirstOwner <- MCFirstOwner
    FirstMembers = {"alice", "bob"}
    FirstPartner = "nobody"
    MaxTime = 4
    Scenarios <- MCScenarios
SPECIFICATION Spec
CHECK_DEADLOCK FALSE
INVARIANTS
    ProposalsRunOnce
    RunsAreApproved
    HistoryIsRecent
    PartnerOutlastsTheft
