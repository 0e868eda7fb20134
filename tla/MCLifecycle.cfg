SPECIFICATION FairSpec
CONSTANTS
    MaxDepth = 2
    MaxFrames = 4
    MaxStreams = 2
INVARIANTS
    DoneIsReported
    TerminationReason
PROPERTIES
    NoStaleSession
    NothingAfterClosed
    TerminationEnds
CHECK_DEADLOCK FALSE
