\* A client with one command unanswered at a time, which it may unlink.
CONSTANTS
    BufferNum = 1
    Window = 1
    HostWaits = TRUE
    AllocMayFail = FALSE
    MaxSession = 1
    MaxRequest = 2
SPECIFICATION Spec
INVARIANT NoLaggingResponse
