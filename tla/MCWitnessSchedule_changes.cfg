\* No deadlock check: production really ends when no scheduled witness has a key,
\* or when the assertion on the number of active witnesses fails.
CONSTANTS
    Witnesses = {1, 2, 3, 4}
    Candidates = {1, 2, 3}
    InitialVotes <- SomeVotes
    MaxVotes = 2
    MaxDebt = 3
    MaxWitnesses = 2
    MaxVoted = 1
    Lap = 7
    Threshold = 2
    MaxMissed = 1
    MaxChanges = 2
SPECIFICATION Spec
CHECK_DEADLOCK FALSE
INVARIANTS
    NobodyInThePast
    WithinTheLap
PROPERTIES
    EveryoneTakesTurns
