SPECIFICATION FairSpec
CONSTANTS
    Streams = {s1}
    Server = FALSE
    NoFrame = NoFrame
    Limits <- SomeLimits
    FrameHeader = 1
    ControlSize = 2
    MaxFrame = 2
    WindowSize = 2
    MaxBytes = 3
INVARIANTS
    NoLostWakeup
    EndsOnceAfterBody
    LimitRespected
PROPERTIES
    ImplementsDelivery
    EndedBodyIsSent
CHECK_DEADLOCK FALSE
