SPECIFICATION FairSpec
CONSTANTS
    Window = 4
    MaxBody = 5
    MaxBatch = 4
INVARIANTS
    ResponseIntact
PROPERTIES
    GetEnds
CHECK_DEADLOCK FALSE
