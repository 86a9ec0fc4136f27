\* The sizes of the build: DAP_BUFFER_NUM 10, DAP_PACKET_COUNT 255.
CONSTANTS
    BufferNum = 10
    Window = 255
    HostWaits = TRUE
    AllocMayFail = FALSE
    MaxSession = 1
    MaxRequest = 22
SPECIFICATION Spec
INVARIANT NoMutualBlock
