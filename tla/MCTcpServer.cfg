SPECIFICATION Spec
CONSTANTS
    NumThreads = 1
    Clients <- MCClients
    ReplyLen = 2
    Exp = 1
    Capacity <- MCCapacity
    Segments <- TwoSegments
CHECK_DEADLOCK FALSE
INVARIANTS
    ChannelRegistration
    DestroyedOnce
    ShutAfterWhole
    OutputInBounds
    LoopsConstructed
PROPERTIES
    ClosedIsDestroyed
    RequestAnswered
    Serves
