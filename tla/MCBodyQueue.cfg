SPECIFICATION Spec
CONSTANTS
    Streams = {s1, s2}
    None = None
    CompactAt = 2
    MaxFrame = 2
    MaxBytes = 5
SYMMETRY Symmetry
INVARIANTS
    TypeOK
    CountersExact
    QueueHoldsUnsent
    SentReleased
    FrameAsPromised
PROPERTIES
    ImplementsDelivery
CHECK_DEADLOCK FALSE
