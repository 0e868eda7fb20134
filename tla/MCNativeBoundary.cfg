SPECIFICATION MCSpec
CONSTANTS
    PairCount = 2
    MaxFields = 2
    MaxTexts = 4
    PythonInts <- MCPythonInts
    SettingMax = 1
    IntMax = 2
    UIntMax = 3
    LongMax = 7
    ULongMax = 15
    SizeMax = 15
    SsizeMax = 7
    MaxSize = 31
    MinCapacity = 4
    HeaderSize = 2
INVARIANTS
    BorrowSafe
    SubmitsGiven
    IntegersExact
    OutputSafe
    GrowthLinear
CHECK_DEADLOCK FALSE
