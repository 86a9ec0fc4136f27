------------------------------ MODULE MCStreams ------------------------------
(***************************************************************************)
(* Bytes that come as they like, on small instances: the trace             *)
(* (SwoBuffer), receiving and sending by the UART commands (DapUart), the  *)
(* bridge with clients that send before they are accepted, reset and come  *)
(* back (UartBridge), and what the WebSocket (WsFraming) and elaphureLink  *)
(* servers (ElStream) find in a TCP stream.                                *)
(*                                                                         *)
(* Each behaviour is one of a single part, the others staying as they      *)
(* began, as in MCDap.                                                     *)
(***************************************************************************)
EXTENDS Integers, Sequences

CONSTANTS
    TRACE_BLOCK_SIZE, USB_BLOCK_SIZE, SWO_BUFFER_SIZE, BUF_SIZE,        \* of SwoBuffer
    Chunks, LineErrors, DataSizes, MaxTrace, MaxIndex, MaxCommands, MaxErrors,
    DAP_UART_RX_BUFFER_SIZE, UART_RX_BLOCK_SIZE, DAP_UART_TX_BUFFER_SIZE,   \* of DapUart
    ReadSizes, WriteSizes, IndexWord, MaxReceived, MaxAccepted,
    BytesPerCommand,
    Slots, EVENTS_QUEUE_SIZE, MaxClients, MaxChunks, MaxUart,           \* of UartBridge
    FrameStreams, Pieces, Alignments,                                   \* of WsFraming
    CONFIG_CO_WS_TEXT_BUFFER_SIZE, HandshakeLen,
    PacketStreams, RecvSize, RestTogether                               \* of ElStream

VARIABLES
    part,    \* the part of the probe that this behaviour is about
    \* SwoBuffer
    TraceTransport, TraceMode, active, paused, TraceError, TraceError_n,
    TraceIndexI, TraceIndexO, TraceUpdate, TraceBlockSize, kSwoTransferBusy,
    TransferSize, swo_data_to_send, swo_data_num, installed, USART_Ready,
    rx_buffered_len, rx_stash_len, kSWO_read_num, notify_enable, events, cmd,
    stage, status, count, thread, flags, timeout, index_o, available, piece,
    server, sending, raised, due, arrived, commands, errors, started, torn,
    \* DapUart
    UartTransport, UartConfigured, UartReceiveEnabled, UartTransmitEnabled,
    UartTransmitActive, UartRxIndexI, UartRxIndexO, UartRxBuf, UartTxIndexI,
    UartTxIndexO, UartTxBuf, UartTxNum, UartErrors, GetRxCount, GetTxCount,
    uartPc, request, rx_num, rx_cnt, rx_data, tx_num, num, came, received,
    expected, accepted, onWire, lossTold, counts, uartTorn,
    \* UartBridge
    uart_server_events, state, pending_err, inbox, client, backlog,
    uart_netconn, is_conn_valid, is_first_time_recv, uart, baud, uartIn,
    toClient, clients, chunksSent,
    \* WsFraming
    frames, aligned, wsPc, wsBase, remaining_len, read_len, wsStatus, OPCODE,
    MASK, payload_len, mask, skip_frame, recv_data_offset, wsAnswer,
    \* ElStream
    packets, elSent, elPc, elBase, pos, want, is_async, done, last

swo ==
    << TraceTransport, TraceMode, active, paused, TraceError, TraceError_n,
       TraceIndexI, TraceIndexO, TraceUpdate, TraceBlockSize,
       kSwoTransferBusy, TransferSize, swo_data_to_send, swo_data_num,
       installed, USART_Ready, rx_buffered_len, rx_stash_len, kSWO_read_num,
       notify_enable, events, cmd, stage, status, count, thread, flags,
       timeout, index_o, available, piece, server, sending, raised, due,
       arrived, commands, errors, started, torn >>
dapUart ==
    << UartTransport, UartConfigured, UartReceiveEnabled, UartTransmitEnabled,
       UartTransmitActive, UartRxIndexI, UartRxIndexO, UartRxBuf,
       UartTxIndexI, UartTxIndexO, UartTxBuf, UartTxNum, UartErrors,
       GetRxCount, GetTxCount, uartPc, request, rx_num, rx_cnt, rx_data,
       tx_num, num, came, received, expected, accepted, onWire, lossTold,
       counts, uartTorn >>
bridge ==
    << uart_server_events, state, pending_err, inbox, client, backlog,
       uart_netconn, is_conn_valid, is_first_time_recv, uart, baud, uartIn,
       toClient, clients, chunksSent >>
websocket ==
    << frames, aligned, wsPc, wsBase, remaining_len, read_len, wsStatus,
       OPCODE, MASK, payload_len, mask, skip_frame, recv_data_offset, wsAnswer >>
elaphure ==
    << packets, elSent, elPc, elBase, pos, want, is_async, done, last >>
vars == << part, swo, dapUart, bridge, websocket, elaphure >>

(* Requests of UART_Control, for the receiver and for the transmitter      *)
RxControls == { {"RX_ENABLE"}, {"RX_DISABLE", "RX_BUF_FLUSH"}, {"RX_BUF_FLUSH"} }
TxControls == { {"TX_ENABLE"}, {"TX_DISABLE", "TX_BUF_FLUSH"}, {"TX_BUF_FLUSH"} }

(* WebSocket, in the runs: every frame kind with every header length,      *)
(* alone and followed by others.                                           *)
Frames ==
    { << "BINARY", 0, TRUE, 9 >>, << "BINARY", 2, TRUE, 12 >>, << "BINARY", 8, FALSE, 3 >>,
      << "TEXT", 0, TRUE, 3 >>, << "TEXT", 0, TRUE, 9 >>, << "PING", 0, TRUE, 2 >>,
      << "CONTINUATION", 0, TRUE, 3 >> }
Ends == { << "PONG", 0, TRUE, 0 >>, << "CLOSE", 0, TRUE, 2 >>, << "unknown", 0, FALSE, 1 >> }
EachFrame == { << a, b, c >>: a \in Frames, b \in Frames, c \in Ends }

(* elaphureLink, in the runs: commands before and after a scope of two packets          *)
Packets == { << "passthrough", 6 >>, << "passthrough", 5 >>, << "passthrough", 9 >> }
EachPacket ==
    { << << "command", 3 >>, << "enter", 4 >>, a, b, << "exit", e >>, d >>:
        a \in Packets, b \in Packets, e \in { 4, 5 }, d \in { << "command", 2 >>, << "enter", 5 >> } }

----------------------------------------------------------------------------

Swo == INSTANCE SwoBuffer WITH
    MaxBytes <- MaxTrace
Rx == INSTANCE DapUart WITH
    Reads <- ReadSizes, Writes <- { 0 }, Controls <- RxControls,
    MaxBytes <- MaxReceived, Word <- IndexWord, pc <- uartPc, torn <- uartTorn
Tx == INSTANCE DapUart WITH
    Reads <- { 0 }, Writes <- WriteSizes, Controls <- TxControls,
    MaxBytes <- MaxAccepted, Word <- IndexWord, pc <- uartPc, torn <- uartTorn
Bridge == INSTANCE UartBridge WITH
    Rude <- TRUE, sent <- chunksSent
Ws == INSTANCE WsFraming WITH
    Streams <- FrameStreams, Chunks <- Pieces, sent <- wsAnswer, pc <- wsPc,
    base <- wsBase, status <- wsStatus
El == INSTANCE ElStream WITH
    Streams <- PacketStreams, sent <- elSent, pc <- elPc, base <- elBase

ASSUME PartsAssumption ==
    /\ Bridge!BridgeAssumption /\ Swo!SwoAssumption /\ Rx!UartAssumption /\ Tx!UartAssumption
    /\ Ws!WsAssumption /\ El!ElAssumption

(* What is not the part begins in one of its initial states.               *)
Init ==
    /\ part \in { "swo", "rx", "tx", "bridge", "websocket", "elaphure" }
    /\ Swo!Init /\ Rx!Init /\ Bridge!Init
    /\ Ws!Init /\ (part # "websocket" => aligned = 0 /\ frames = CHOOSE f \in FrameStreams: TRUE)
    /\ El!Init /\ (part # "elaphure" => packets = CHOOSE p \in PacketStreams: TRUE)

Next ==
    \/ part = "swo" /\ Swo!Next
       /\ UNCHANGED << part, dapUart, bridge, websocket, elaphure >>
    \/ part = "rx" /\ Rx!Next
       /\ UNCHANGED << part, swo, bridge, websocket, elaphure >>
    \/ part = "tx" /\ Tx!Next
       /\ UNCHANGED << part, swo, bridge, websocket, elaphure >>
    \/ part = "bridge" /\ Bridge!Next
       /\ UNCHANGED << part, swo, dapUart, websocket, elaphure >>
    \/ part = "websocket" /\ Ws!Next
       /\ UNCHANGED << part, swo, dapUart, bridge, elaphure >>
    \/ part = "elaphure" /\ El!Next
       /\ UNCHANGED << part, swo, dapUart, bridge, websocket >>

Spec == Init /\ [][Next]_vars

----------------------------------------------------------------------------

(* Every variable has its type.                                            *)
TypeOK ==
    CASE part = "swo" -> Swo!TypeOK
      [] part \in { "rx", "tx" } -> Rx!TypeOK
      [] part = "bridge" -> Bridge!TypeOK
      [] part = "websocket" -> Ws!TypeOK
      [] part = "elaphure" -> El!TypeOK

(* The trace: every error is reported once; and what the server has loaded *)
(* of a transfer lies in the trace buffer, unless it was loaded while the  *)
(* stores of that transfer went on, or after a start of the capture        *)
(* cleared the flag.                                                       *)
TraceSound == part = "swo" => Swo!TraceSound

(* The trace: a short transfer means the end of the capture, unless a      *)
(* capture was started after the thread had found none.                    *)
WholeBlocks == Swo!WholeBlocks

(* The UART commands: bytes are read in order, a loss is reported where    *)
(* they do not go on, and the transmitter is never left idle with bytes to *)
(* send; as long as no block has ended between a command's reads of an     *)
(* index and of its count.                                                 *)
BuffersSound == part \in { "rx", "tx" } => Rx!BuffersSound

(* The UART commands: bytes go out in order, none left out or repeated; as *)
(* long as no block has ended between a command's reads of index, count    *)
(* and activity.                                                           *)
SentInOrder == Rx!SentInOrder

(* The bridge: what a client sends comes out once and in order, whatever   *)
(* becomes of the events and of the netconns they name.                    *)
OnceInOrder == part = "bridge" => Bridge!OnceInOrder

(* However TCP cuts the frames, the WebSocket server finds the messages of *)
(* the host in them, and waits for no more than one. The elaphureLink      *)
(* server does as long as a command, and the rest of a packet that was     *)
(* cut, come with one recv.                                                *)
MessagesFound ==
    /\ part = "websocket" => Ws!FramesFound
    /\ part = "elaphure" => El!PacketsFound

=============================================================================
