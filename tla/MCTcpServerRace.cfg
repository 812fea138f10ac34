SPECIFICATION Spec
CONSTANTS
    NumThreads = 1
    Clients <- MCClients
    ReplyLen = 2
    Exp = 1
    Capacity <- MCCapacity
    Segments <- OneSegment
CHECK_DEADLOCK FALSE
INVARIANT
    PollerMapUsedByOne
