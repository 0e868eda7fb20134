SPECIFICATION FairSpec
CONSTANTS
    Streams = {s1, s2}
    NoFrame = NoFrame
    WindowSize = 3
    MaxFrames = 3
INVARIANTS
    TypeOK
    CreditConserved
    ChunkFits
    NothingLost
PROPERTIES
    CreditReturns
CHECK_DEADLOCK FALSE
