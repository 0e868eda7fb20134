SPECIFICATION FairSpec
CONSTANTS
    Requests = {r1}
    Pushes = {p1}
    None = None
    MaxConcurrent = 2
INVARIANTS
    FailureReported
PROPERTIES
    NothingAfterFailure
    FailureEnds
CHECK_DEADLOCK FALSE
