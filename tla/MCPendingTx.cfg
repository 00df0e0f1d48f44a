CONSTANTS
    Txs = {1, 2, 3}
    Needs <- MCNeeds
    Excludes <- MCExcludes
    Expires <- MCExpires
    Size <- MCSize
    MaximumBlockSize = 6
    HeaderSize = 1
    TxReserve = 4
    MaxUntilExpiration = 3
    Uncounted = 3
    MaxBlockSize = 7
    MaxTime = 5
    MaxBlockTxs = 2
    MaxPops = 2
SPECIFICATION Spec
INVARIANTS
    AppliedOnce
    PendingIsReplay
    NothingLost
