\* Connections one after the other, each after the reset for the one before it.
CONSTANTS
    BufferNum = 2
    Window = 5
    HostWaits = TRUE
    AllocMayFail = FALSE
    MaxSession = 3
    MaxRequest = 5
SPECIFICATION Spec
INVARIANTS
    NoFault
    BuffersWhileEmulating
    ElOwnsTarget
    OwnResponses
PROPERTIES
    ImplementsPipe
