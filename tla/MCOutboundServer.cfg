SPECIFICATION Spec
CONSTANTS
    Streams = {s1,s2}
    Server = TRUE
    NoFrame = NoFrame
    Limits <- OneLimit
    FrameHeader = 1
    ControlSize = 1
    MaxFrame = 1
    WindowSize = 1
    MaxBytes = 1
SYMMETRY Symmetry
INVARIANTS
    StateFollowsStream
    DeferredResetComes
PROPERTIES
    DeferredResetLosesNothing
CHECK_DEADLOCK FALSE
