CONSTANTS
    Readers <- MCReaders
    Writer = "w"
    NumLocks = 3
    MaxShared = 3
    MaxCrashes = 2
    MaxSlow = 2
SPECIFICATION Spec
INVARIANTS
    WriteExclusion
PROPERTIES
    WriterProceeds
