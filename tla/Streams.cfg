SPECIFICATION Spec
CONSTANTS
    TRACE_BLOCK_SIZE = 2
    USB_BLOCK_SIZE = 4
    SWO_BUFFER_SIZE = 8
    BUF_SIZE = 1
    Chunks = {1}
    LineErrors = {"stream"}
    DataSizes = {3}
    MaxTrace = 2
    MaxIndex = 10
    MaxCommands = 6
    MaxErrors = 1
    DAP_UART_RX_BUFFER_SIZE = 6
    UART_RX_BLOCK_SIZE = 2
    DAP_UART_TX_BUFFER_SIZE = 3
    ReadSizes = {2}
    WriteSizes = {1, 3}
    IndexWord = 12
    MaxReceived = 7
    MaxAccepted = 14
    BytesPerCommand = 2
    Slots = {s1, s2}
    EVENTS_QUEUE_SIZE = 2
    MaxClients = 2
    MaxChunks = 2
    MaxUart = 0
    FrameStreams <- EachFrame
    Pieces = {1, 2, 3, 5, 9, 20}
    Alignments = {0, 1, 2, 3}
    CONFIG_CO_WS_TEXT_BUFFER_SIZE = 4
    HandshakeLen = 9
    PacketStreams <- EachPacket
    RecvSize = 12
    RestTogether = TRUE
INVARIANTS
    TypeOK TraceSound BuffersSound OnceInOrder MessagesFound
PROPERTIES
    WholeBlocks SentInOrder
CHECK_DEADLOCK FALSE
