\* Clients that connect at once, and allocations that may fail.
CONSTANTS
    BufferNum = 2
    Window = 4
    HostWaits = FALSE
    AllocMayFail = TRUE
    MaxSession = 2
    MaxRequest = 4
SPECIFICATION Spec
CHECK_DEADLOCK FALSE
INVARIANTS
    ResponsesCounted
    CommandsNotified
PROPERTIES
    ExecutedInOrder
    RepliedInOrder
