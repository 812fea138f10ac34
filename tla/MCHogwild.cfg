SPECIFICATION Spec
CONSTANTS
    Threads <- MCThreads
    Words = {"a", "b", "c"}
    Pair <- MCPair
    Region <- MCRegion
    Epochs = 2
CHECK_DEADLOCK FALSE
INVARIANTS
    DivisorNeverEmpty
    UnsharedExact
    EpochLeavesMark
PROPERTY
    EarlierEpochsKept
