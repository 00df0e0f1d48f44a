CONSTANTS
    Blocks <- HonestTree
    Payloads <- MCPayloads
    Root <- FirstBlock
    Witnesses = {1, 2, 3}
    WitnessOf <- MCWitnessOf
    Fault <- MCFault
    IrreversibleThreshold = 75
    VotingStart = 4
    MaxWitnesses = 2
    MaxUndoHistory = 10
    Redelivery = TRUE
    MaxStops = 2
SPECIFICATION Spec
INVARIANTS
    OnLongestChain
PROPERTIES
    IrreversibleStays
