SPECIFICATION Spec
CONSTANTS
    InterfaceLength = 30
    MaxRequests = 3
    InFlight = 2
    Listers = {l1}
    Attachers = {a1, a2}
    RecvMbox = 2
    NetconnEvents = 9
    UrbsAlone = 2
    UrbsMany = 3
    WIFI_LIST_SIZE = 3
    MaxEvents = 4
    Slots = {s1, s2}
    EVENTS_QUEUE_SIZE = 2
    MaxClients = 3
    MaxChunks = 2
    MaxUart = 1
INVARIANTS
    TypeOK ReturnsInStep EventsFollow
PROPERTIES
    Answered UartIsSent EachIsTried
CHECK_DEADLOCK FALSE
