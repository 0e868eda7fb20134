SPECIFICATION Spec
CONSTANTS
    Streams = {s1, s2}
    NoBlock = NoBlock
    Sizes = {1, 2}
    Overhead = 1
    MaxSize = 5
    MaxCount = 2
    MaxBlocks = 3
SYMMETRY Symmetry
INVARIANTS
    MessageOrder
PROPERTIES
    BlockIntact
    LimitsExact
CHECK_DEADLOCK FALSE
