SPECIFICATION Spec
CONSTANTS
    Clients <- MCClients
    NoClient = none
    MaxFd = 2
    Request <- MCRequest
    Faults <- MCFaults
    Words = {"get", "a", "b", "x"}
    Vocab = {"a", "b"}
    Room = 2
    MaxFails = 1
CHECK_DEADLOCK FALSE
INVARIANTS
    PendingEventsLive
    OneHandlerPerConnection
    
PROPERTIES
    ImplementsService
    EveryoneServed
