CONSTANTS
    Blocks <- FaultyTree
    Payloads <- MCPayloads
    Root <- FirstBlock
    Witnesses = {1, 2, 3}
    WitnessOf <- MCWitnessOf
    Fault <- MCFault
    IrreversibleThreshold = 75
    VotingStart = 0
    MaxWitnesses = 3
    MaxUndoHistory = 10
    Redelivery = FALSE
    MaxStops = 1
SPECIFICATION Spec
INVARIANTS
    StateIsReplay
    LogIsOnChain
    FailedPushIsUnwound
    NeverShorter
    ValidChildIsAccepted
PROPERTIES
    PushReturns
