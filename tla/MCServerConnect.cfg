SPECIFICATION FairSpec
CONSTANTS
    Streams = {s1, s2}
    Methods = {"GET", "HEAD", "CONNECT"}
    MaxBatch = 3
PROPERTIES
    RequestAnswered
CHECK_DEADLOCK FALSE
