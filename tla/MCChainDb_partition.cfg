CONSTANTS
    Blocks <- PartitionTree
    Payloads <- MCPayloads
    Root <- FirstBlock
    Witnesses = {1, 2, 3, 4}
    WitnessOf <- MCWitnessOf
    Fault <- MCFault
    IrreversibleThreshold = 75
    VotingStart = 0
    MaxWitnesses = 3
    MaxUndoHistory = 10
    Redelivery = TRUE
    MaxStops = 1
SPECIFICATION Spec
PROPERTIES
    IrreversibleNotReplaced
    PushReturns
