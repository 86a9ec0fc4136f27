\* Clients that leave at most DAP_BUFFER_NUM commands unanswered.
CONSTANTS
    BufferNum = 2
    Window = 2
    HostWaits = TRUE
    AllocMayFail = FALSE
    MaxSession = 2
    MaxRequest = 3
SPECIFICATION FairSpec
PROPERTIES
    ResetDone
    CommandsExecuted
