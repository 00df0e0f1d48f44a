\* Unique keys that no modifier changes, as in the tables of the node.
CONSTANTS
    Keys = {k1, k2}
    Data = {d1, d2}
    Absent = Absent
    MaxId = 2
    MaxDepth = 3
    MaxRevision = 3
    KeysMutable = FALSE
SPECIFICATION HSpec
INVARIANTS
    TypeOK
    UndoRestores
    SessionsOwnTheirStates
    RevisionsConsecutive
    NeverFails
PROPERTY Refinement
