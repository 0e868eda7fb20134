SPECIFICATION FairSpec
CONSTANTS
    Streams = {s1, s2}
    Methods = {"GET", "HEAD", "CONNECT"}
    MaxBatch = 3
INVARIANTS
    OrderlyEnd
    RequestsLive
PROPERTIES
    SupportedAnswered
CHECK_DEADLOCK FALSE
