\* One connection; a client that may fill both ring buffers.
CONSTANTS
    BufferNum = 2
    Window = 5
    HostWaits = TRUE
    AllocMayFail = FALSE
    MaxSession = 1
    MaxRequest = 7
SPECIFICATION Spec
INVARIANTS
    TypeOK
    PollsAnswered
    NoMutualBlock
