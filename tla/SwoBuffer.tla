------------------------------ MODULE SwoBuffer ------------------------------
(***************************************************************************)
(* The trace of SWO.c, as it runs with SWO_FUNCTION_ENABLE 1: the UART     *)
(* interrupt fills the ring buffer of the driver (uart_modify.c), the SWO  *)
(* thread moves it by blocks into the trace buffer, and the trace leaves   *)
(* by DAP_SWO_Data or by the transfers of the USBIP server, while the DAP  *)
(* task starts, stops and asks for the status.  Bytes are counted, not     *)
(* named: incoming and outgoing index tell what the code believes of them. *)
(*                                                                         *)
(* The SWO thread and the server share what is queued without a lock: each *)
(* of their loads and stores of it is a step of its own.  A command of the *)
(* DAP task is one step where nothing else is said.                        *)
(***************************************************************************)
EXTENDS Integers, FiniteSets

CONSTANTS
    TRACE_BLOCK_SIZE, USB_BLOCK_SIZE, SWO_BUFFER_SIZE,
    BUF_SIZE,        \* ring buffer of the driver
    Chunks,          \* sizes of what one interrupt finds in the FIFO
    LineErrors,      \* of the FIFO, and of parity and frames
    DataSizes,       \* asked for by DAP_SWO_Data
    MaxBytes,        \* that arrive, in all
    MaxIndex,        \* of the trace; the thread and the transfers stop there
    MaxCommands, MaxErrors   \* commands that change something

SwoAssumption ==
    /\ {TRACE_BLOCK_SIZE, USB_BLOCK_SIZE, SWO_BUFFER_SIZE} \subseteq Nat \ {0}
    /\ BUF_SIZE \in Nat /\ Chunks \subseteq Nat \ {0} /\ DataSizes \subseteq Nat
    /\ LineErrors \subseteq { "overrun", "stream" }

VARIABLES
    TraceTransport, TraceMode, active, paused,   \* TraceStatus: active, paused
    TraceError, TraceError_n,                    \* two banks, and the one in use
    TraceIndexI, TraceIndexO, TraceUpdate, TraceBlockSize,
    kSwoTransferBusy, TransferSize,
    swo_data_to_send, swo_data_num,              \* place in the buffer, and length
    installed, USART_Ready,                      \* the driver
    rx_buffered_len, rx_stash_len,               \* 0: rx_buffer_full_flg is false
    kSWO_read_num, notify_enable,
    events,                                      \* kSwoThreadEventGroup
    cmd, stage, status, count,                   \* the DAP task: command, answer in the making
    thread, flags, timeout, index_o,             \* the SWO thread
    available, piece,                            \* the count, and place and length cut from it
    server, sending,                             \* the USBIP server: place and length it sends
    raised, due, arrived, commands, errors,      \* counted for the properties
    started,         \* a capture has started since the thread looked at TraceStatus
    torn             \* the transfer was asked for while it was queued, or aborted by a start

trace == << TraceTransport, TraceMode, active, paused >>
errs == << TraceError, TraceError_n, raised, due, errors >>
index == << TraceIndexI, TraceIndexO, TraceBlockSize >>
transfer == << kSwoTransferBusy, TransferSize, swo_data_to_send, swo_data_num >>
uart == << installed, USART_Ready, rx_buffered_len, rx_stash_len, kSWO_read_num, notify_enable >>
task == << cmd, stage, status, count, commands >>
swo == << thread, flags, timeout, index_o, available, piece >>
usbip == << server, sending >>
races == << started, torn >>
vars == << trace, errs, index, TraceUpdate, transfer, uart, events, task, swo, usbip, races,
           arrived >>

Errors == { "overrun", "stream" }
Flags == { "SWO_GOT_DATA", "UART_GOT_DATA", "SWO_ERROR_TIME_OUT" }
Word == 65536   \* of an index: 32 bits in the code, and MaxIndex stays below either
Least(a, b) == IF a < b THEN a ELSE b

Init ==
    /\ TraceTransport = 0 /\ TraceMode = "off" /\ active = FALSE /\ paused = FALSE
    /\ TraceError = [ n \in 0..1 |-> {} ] /\ TraceError_n = 0
    /\ TraceIndexI = 0 /\ TraceIndexO = 0 /\ TraceUpdate = FALSE /\ TraceBlockSize = 0
    /\ kSwoTransferBusy = FALSE /\ TransferSize = 0 /\ swo_data_to_send = 0 /\ swo_data_num = 0
    /\ installed = FALSE /\ USART_Ready = FALSE /\ rx_buffered_len = 0 /\ rx_stash_len = 0
    /\ kSWO_read_num = 0 /\ notify_enable = TRUE
    /\ events = {}
    /\ cmd = "none" /\ stage = "idle" /\ status = {} /\ count = 0
    /\ thread = "wait" /\ flags = {} /\ timeout = FALSE /\ index_o = 0
    /\ available = 0 /\ piece = << 0, 0 >> /\ server = "idle" /\ sending = << 0, 0 >>
    /\ raised = {} /\ due = {} /\ arrived = 0 /\ commands = 0 /\ errors = 0
    /\ started = FALSE /\ torn = FALSE

----------------------------------------------------------------------------
(* The UART interrupt                                                      *)

SetTraceError(flag) ==
    /\ TraceError' = [ TraceError EXCEPT ![TraceError_n] = @ \cup { flag } ]
    /\ raised' = raised \cup { flag }
    /\ UNCHANGED << TraceError_n, due >>

(* The thread is told of n bytes once for each asynchronous read.          *)
Notify(n) ==
    IF kSWO_read_num > 0 /\ n >= kSWO_read_num /\ notify_enable
    THEN notify_enable' = FALSE /\ events' = events \cup { "UART_GOT_DATA" }
    ELSE UNCHANGED << notify_enable, events >>

Receive(n) ==
    /\ installed /\ rx_stash_len = 0 /\ arrived + n <= MaxBytes
    /\ arrived' = arrived + n
    /\ IF rx_buffered_len + n > BUF_SIZE
       THEN /\ rx_stash_len' = n /\ SetTraceError("overrun")
            /\ UNCHANGED << rx_buffered_len, notify_enable, events >>
       ELSE /\ rx_buffered_len' = rx_buffered_len + n /\ Notify(rx_buffered_len')
            /\ UNCHANGED << rx_stash_len, TraceError, TraceError_n, raised, due >>
    /\ UNCHANGED << trace, errors, index, TraceUpdate, transfer, installed, USART_Ready,
                    kSWO_read_num, task, swo, usbip, races >>

LineError ==
    /\ installed /\ errors < MaxErrors /\ errors' = errors + 1
    /\ \E flag \in LineErrors: SetTraceError(flag)
    /\ UNCHANGED << trace, index, TraceUpdate, transfer, uart, events, task, swo, usbip,
                    races, arrived >>

(* A read of n of its bytes, or as many as there are; a stash that fits    *)
(* follows what was read.                                                  *)
my_uart_read_bytes(n) ==
    LET read == Least(n, rx_buffered_len)
        left == rx_buffered_len - read
        fits == rx_stash_len > 0 /\ read > 0 /\ left + rx_stash_len <= BUF_SIZE
    IN
    /\ rx_buffered_len' = IF fits THEN left + rx_stash_len ELSE left
    /\ rx_stash_len' = IF fits THEN 0 ELSE rx_stash_len
    /\ IF fits THEN Notify(rx_buffered_len') ELSE UNCHANGED << notify_enable, events >>

(* Nothing resets kSWO_read_num but the installation of the driver, so     *)
(* that every request but the first fails.                                 *)
my_uart_read_bytes_async_swo(length) ==
    IF kSWO_read_num > 0 THEN UNCHANGED << kSWO_read_num, notify_enable >>
                         ELSE kSWO_read_num' = length /\ notify_enable' = TRUE

(* What is buffered counts as and is thrown away.                *)
Flush ==
    /\ TraceIndexI' = TraceIndexI + rx_buffered_len
    /\ rx_buffered_len' = 0 /\ rx_stash_len' = 0

(* Mutant: one more than the rest of the block.                            *)
BlockLeftAndOne(i) == TRACE_BLOCK_SIZE + 1 - (i % TRACE_BLOCK_SIZE)

BlockLeft(i) == TRACE_BLOCK_SIZE - (i % TRACE_BLOCK_SIZE)

----------------------------------------------------------------------------
(* Commands of the DAP task                                                *)

Command ==
    /\ cmd = "none" /\ commands < MaxCommands /\ commands' = commands + 1

SWO_Transport ==
    \/ cmd = "none" /\ active /\ UNCHANGED vars
    \/ /\ Command /\ ~active
       /\ TraceTransport' \in 1..2
       /\ UNCHANGED << TraceMode, active, paused, errs, index, TraceUpdate, transfer, uart, events,
                       cmd, stage, status, count, swo, usbip, races, arrived >>

(* The driver is deleted, and installed anew for UART.                     *)
SWO_Mode ==
    /\ Command
    /\ \E mode \in { "off", "uart" }:
        /\ TraceMode' = mode
        /\ IF mode = "uart" THEN kSWO_read_num' = 0 ELSE UNCHANGED kSWO_read_num
        /\ installed' = (mode = "uart")
        /\ USART_Ready' = IF mode = "uart" \/ TraceMode = "uart" THEN FALSE ELSE USART_Ready
    /\ active' = FALSE /\ paused' = FALSE /\ rx_buffered_len' = 0 /\ rx_stash_len' = 0
    /\ UNCHANGED << TraceTransport, errs, index, TraceUpdate, transfer, notify_enable, events,
                    cmd, stage, status, count, swo, usbip, races, arrived >>

SWO_Baudrate ==
    /\ Command
    /\ IF TraceMode = "uart"
       THEN /\ USART_Ready' = TRUE
            /\ IF active THEN Flush ELSE UNCHANGED << TraceIndexI, rx_buffered_len, rx_stash_len >>
            /\ IF active /\ ~paused
               THEN /\ TraceBlockSize' = BlockLeft(TraceIndexI')
                    /\ my_uart_read_bytes_async_swo(TraceBlockSize')
               ELSE UNCHANGED << TraceBlockSize, kSWO_read_num, notify_enable >>
            /\ UNCHANGED << active, paused >>
       ELSE /\ active' = FALSE /\ paused' = FALSE
            /\ UNCHANGED << USART_Ready, TraceIndexI, TraceBlockSize, rx_buffered_len,
                            rx_stash_len, kSWO_read_num, notify_enable >>
    /\ UNCHANGED << TraceTransport, TraceMode, errs, TraceIndexO, TraceUpdate, transfer,
                    installed, events, cmd, stage, status, count, swo, usbip, races, arrived >>

ClearTrace ==
    /\ TraceError' = [ n \in 0..1 |-> {} ] /\ TraceError_n' = 0 /\ raised' = {}
    /\ TraceIndexI' = 0 /\ TraceIndexO' = 0
    /\ kSwoTransferBusy' = (kSwoTransferBusy /\ TraceTransport # 2)
    /\ torn' = (torn \/ (server # "idle" /\ kSwoTransferBusy /\ TraceTransport = 2))

Controlled(on) ==
    /\ active' = on /\ paused' = FALSE
    /\ events' = IF TraceTransport = 2 THEN events \cup { "SWO_GOT_DATA" } ELSE events

(* A start clears the trace before it knows that the capture can start,    *)
(* and starts it in a step of its own.                                     *)
SWO_Control(on) ==
    \/ cmd = "none" /\ on = active /\ UNCHANGED vars
    \/ /\ Command /\ on /\ ~active /\ ClearTrace /\ cmd' = "start"
       /\ UNCHANGED << trace, due, errors, TraceBlockSize, TraceUpdate, TransferSize, swo_data_to_send,
                       swo_data_num, uart, events, stage, status, count, swo, usbip, started, arrived >>
    \/ /\ Command /\ ~on /\ active
       /\ IF TraceMode = "uart" THEN Flush /\ Controlled(FALSE)
          ELSE UNCHANGED << active, paused, events, TraceIndexI, rx_buffered_len, rx_stash_len >>
       /\ UNCHANGED << TraceTransport, TraceMode, errs, TraceIndexO, TraceBlockSize, TraceUpdate,
                       transfer, installed, USART_Ready, kSWO_read_num, notify_enable, cmd, stage,
                       status, count, swo, usbip, races, arrived >>

(* The failed start of a read leaves the capture inactive.                 *)
StartCapture ==
    /\ cmd = "start" /\ cmd' = "none"
    /\ IF TraceMode = "uart" /\ USART_Ready
       THEN TraceBlockSize' = 1 /\ my_uart_read_bytes_async_swo(1)
       ELSE UNCHANGED << TraceBlockSize, kSWO_read_num, notify_enable >>
    /\ IF TraceMode = "uart" /\ USART_Ready /\ kSWO_read_num = 0
       THEN Controlled(TRUE) /\ started' = TRUE
       ELSE UNCHANGED << active, paused, events, started >>
    /\ UNCHANGED << TraceTransport, TraceMode, errs, TraceIndexI, TraceIndexO, TraceUpdate, transfer,
                    installed, USART_Ready, rx_buffered_len, rx_stash_len, stage, status, count,
                    commands, swo, usbip, torn, arrived >>

(* DAP_SWO_Status and DAP_SWO_Data begin alike: the bank is flipped, the   *)
(* other one read and cleared, and the bytes counted.  Answer tells them   *)
(* apart.                                                                  *)
Flip ==
    /\ Command
    /\ cmd' = "ask"
    /\ TraceError_n' = 1 - TraceError_n
    /\ due' = raised /\ raised' = {}
    /\ stage' = "flipped" /\ UNCHANGED << status, count >>
    /\ UNCHANGED << trace, TraceError, errors, index, TraceUpdate, transfer, uart, events, swo, usbip, races, arrived >>

(* Mutant: the bank in use is the one that is read.                        *)
CollectInUse ==
    /\ stage = "flipped" /\ stage' = "collected"
    /\ status' = TraceError[TraceError_n]
    /\ TraceError' = [ TraceError EXCEPT ![1 - TraceError_n] = {} ]
    /\ UNCHANGED << trace, TraceError_n, raised, due, errors, index, TraceUpdate, transfer, uart, events, cmd,
                    count, commands, swo, usbip, races, arrived >>

GetTraceStatus ==
    /\ stage = "flipped" /\ stage' = "collected"
    /\ status' = TraceError[1 - TraceError_n]
    /\ TraceError' = [ TraceError EXCEPT ![1 - TraceError_n] = {} ]
    /\ UNCHANGED << trace, TraceError_n, raised, due, errors, index, TraceUpdate, transfer, uart, events, cmd,
                    count, commands, swo, usbip, races, arrived >>

(* While the capture is active what the UART still holds counts too, and   *)
(* the count is taken again if the thread moved bytes in the next 10 ms.   *)
Live == active /\ ~paused
Available(live) ==
    LET pending == IF live /\ TraceMode = "uart" THEN rx_buffered_len ELSE 0
    IN (TraceIndexI - TraceIndexO + pending) % Word
GetTraceCount ==
    /\ stage = "collected" \/ (stage = "counted" /\ TraceUpdate)
    /\ LET live == stage = "counted" \/ Live
       IN /\ stage' = IF live THEN "counted" ELSE "final"
          /\ TraceUpdate' = (TraceUpdate /\ ~live)
          /\ count' = Available(live)
    /\ UNCHANGED << trace, errs, index, transfer, uart, events, cmd, status, commands, swo,
                    usbip, races, arrived >>

(* A pause ends when there is room.                                        *)
ResumeTrace(room) ==
    IF active /\ paused /\ room /\ TraceMode = "uart"
    THEN /\ paused' = FALSE /\ TraceBlockSize' = 1
         /\ my_uart_read_bytes_async_swo(1)
    ELSE UNCHANGED << paused, TraceBlockSize, kSWO_read_num, notify_enable >>

Answer ==
    /\ stage = "final" \/ (stage = "counted" /\ ~TraceUpdate)
    /\ cmd' = "none" /\ stage' = "idle" /\ status' = {} /\ count' = 0 /\ due' = {}
    /\ \/ /\ TraceTransport = 1   \* data
          /\ \E n \in DataSizes: TraceIndexO' = TraceIndexO + Least(n, count)
          /\ ResumeTrace((TraceIndexI - TraceIndexO') % Word < SWO_BUFFER_SIZE)
       \/ UNCHANGED << paused, TraceBlockSize, kSWO_read_num, notify_enable, TraceIndexO >>
    /\ UNCHANGED << TraceTransport, TraceMode, active, TraceError, TraceError_n, raised, errors,
                    TraceIndexI, TraceUpdate, transfer, installed, USART_Ready, rx_buffered_len,
                    rx_stash_len, events, commands, swo, usbip, races, arrived >>

----------------------------------------------------------------------------
(* The SWO thread                                                          *)

(* Woken by events, or by its timeout; a read that is due without an event *)
(* is taken up, paused or not.                                             *)
Wake ==
    /\ thread = "wait" /\ (events # {} \/ timeout) /\ TraceIndexI + TRACE_BLOCK_SIZE <= MaxIndex
    /\ LET readable == TraceMode # "off" /\ rx_buffered_len >= kSWO_read_num
       IN flags' = IF events \cap { "UART_GOT_DATA", "SWO_GOT_DATA" } = {} /\ readable
                   THEN { "UART_GOT_DATA" } ELSE events
    /\ events' = {}
    /\ thread' = IF "UART_GOT_DATA" \in flags' THEN "read" ELSE "check"
    /\ UNCHANGED << trace, errs, index, TraceUpdate, transfer, uart, task, timeout, index_o, available, piece,
                    usbip, races, arrived >>

Read ==
    /\ thread = "read" /\ thread' = "account"
    /\ index_o' = TraceIndexO
    /\ IF installed THEN my_uart_read_bytes(kSWO_read_num)
       ELSE UNCHANGED << rx_buffered_len, rx_stash_len, notify_enable, events >>
    /\ UNCHANGED << trace, errs, TraceIndexI, TraceIndexO, TraceBlockSize, TraceUpdate, transfer,
                    installed, USART_Ready, kSWO_read_num, task, flags, timeout, available, piece, usbip, races,
                    arrived >>

(* The block counts in full whatever was read.                             *)
Account ==
    /\ thread = "account" /\ thread' = "check" /\ index_o' = 0
    /\ TraceIndexI' = TraceIndexI + TraceBlockSize
    /\ LET unread == (TraceIndexI' - index_o) % Word
           remain == BlockLeft(TraceIndexI')
       IN
       /\ IF unread <= SWO_BUFFER_SIZE - remain
          THEN /\ TraceBlockSize' = remain /\ my_uart_read_bytes_async_swo(remain)
               /\ UNCHANGED << active, paused >>
          ELSE /\ active' = TRUE /\ paused' = TRUE
               /\ UNCHANGED << TraceBlockSize, kSWO_read_num, notify_enable >>
       /\ flags' = IF TraceTransport = 2 /\ unread >= USB_BLOCK_SIZE - (index_o % USB_BLOCK_SIZE)
                   THEN { "SWO_GOT_DATA" } ELSE flags
    /\ TraceUpdate' = TRUE
    /\ UNCHANGED << TraceTransport, TraceMode, errs, TraceIndexO, transfer, installed,
                    USART_Ready, rx_buffered_len, rx_stash_len, events, task, timeout,
                    available, piece, usbip, races, arrived >>

(* Mutant: the end of the buffer is forgotten.                             *)
SendPastEnd(start, n, all) ==
    LET i == start % USB_BLOCK_SIZE
    IN IF all THEN n
       ELSE IF i = 0 THEN n - (n % USB_BLOCK_SIZE)
       ELSE IF n >= USB_BLOCK_SIZE - i THEN USB_BLOCK_SIZE - i ELSE 0

(* Mutant: a block that was begun goes on with whole blocks.               *)
SendUnaligned(start, n, all) ==
    LET upToEnd == Least(n, SWO_BUFFER_SIZE - start)
    IN IF all THEN upToEnd ELSE upToEnd - (upToEnd % USB_BLOCK_SIZE)

(* How much of n bytes is sent from start: up to the end of the buffer,    *)
(* and by whole USB blocks while the capture goes on.                      *)
SendSize(start, n, all) ==
    LET i == start % USB_BLOCK_SIZE
        upToEnd == Least(n, SWO_BUFFER_SIZE - start)
    IN IF all THEN upToEnd
       ELSE IF i = 0 THEN upToEnd - (upToEnd % USB_BLOCK_SIZE)
       ELSE IF upToEnd >= USB_BLOCK_SIZE - i THEN USB_BLOCK_SIZE - i ELSE 0

Local == << trace, errs, index, uart, events, task, timeout, index_o, usbip, arrived >>
Goes(from, to) == thread = from /\ thread' = to

CheckStatus ==
    /\ Goes("check", "test") /\ started' = FALSE
    /\ timeout' = active
    /\ flags' = IF active THEN flags ELSE { "SWO_ERROR_TIME_OUT" }
    /\ UNCHANGED << trace, errs, index, TraceUpdate, transfer, uart, events, task, index_o,
                    available, piece, usbip, torn, arrived >>

(* Mutant: a transfer that is under way is forgotten.                      *)
TestBusyNot ==
    /\ Goes("test", "count")
    /\ UNCHANGED << Local, TraceUpdate, transfer, flags, available, piece, races >>

TestBusy ==
    /\ Goes("test", IF kSwoTransferBusy THEN "wait" ELSE "count")
    /\ UNCHANGED << Local, TraceUpdate, transfer, flags, available, piece, races >>

(* GetTraceCount again, which waits 10 ms while the capture is active.     *)
CountTrace ==
    /\ thread = "count" \/ (thread = "counting" /\ TraceUpdate)
    /\ LET live == thread = "counting" \/ Live
       IN /\ thread' = IF live THEN "counting" ELSE "cut"
          /\ TraceUpdate' = (TraceUpdate /\ ~live)
          /\ available' = Available(live)
    /\ UNCHANGED << Local, transfer, flags, piece, races >>

Counted ==
    /\ Goes("counting", "cut") /\ ~TraceUpdate
    /\ UNCHANGED << Local, TraceUpdate, transfer, flags, available, piece, races >>

CutTransfer ==
    LET start == TraceIndexO % SWO_BUFFER_SIZE
        size == SendSize(start, available, "SWO_ERROR_TIME_OUT" \in flags)
    IN
    /\ available' = 0
    /\ IF size > 0 THEN Goes("cut", "size") /\ piece' = << start, size >>
                   ELSE Goes("cut", "wait") /\ UNCHANGED piece
    /\ UNCHANGED << Local, TraceUpdate, transfer, flags, races >>

(* The four stores of a transfer, two of them in SWO_QueueTransfer.        *)
StoreSize ==
    /\ Goes("size", "busy") /\ TransferSize' = piece[2]
    /\ UNCHANGED << Local, TraceUpdate, kSwoTransferBusy, swo_data_to_send, swo_data_num, flags,
                    available, piece, races >>

SetBusy ==
    /\ Goes("busy", "pointer") /\ kSwoTransferBusy' = TRUE
    /\ UNCHANGED << Local, TraceUpdate, TransferSize, swo_data_to_send, swo_data_num, flags,
                    available, piece, races >>

SWO_QueueTransfer ==
    /\ \/ Goes("pointer", "length") /\ swo_data_to_send' = piece[1] /\ UNCHANGED swo_data_num
          /\ UNCHANGED piece
       \/ Goes("length", "wait") /\ swo_data_num' = piece[2] /\ UNCHANGED swo_data_to_send
          /\ piece' = << 0, 0 >>
    /\ UNCHANGED << Local, TraceUpdate, kSwoTransferBusy, TransferSize, flags, available, races >>

----------------------------------------------------------------------------
(* The USBIP server, asked for the trace endpoint, loads place and length  *)
(* one after the other                                                     *)

Beside == << trace, errs, TraceBlockSize, TraceIndexI, TraceUpdate, TransferSize, swo_data_to_send,
             swo_data_num, uart, task, swo, started, arrived >>

handle_swo_trace_response ==
    /\ \/ /\ server = "idle" /\ kSwoTransferBusy /\ server' = "pointer"
          /\ torn' = (thread \in { "pointer", "length" }) /\ UNCHANGED sending
       \/ /\ server = "pointer" /\ server' = "length"
          /\ sending' = << swo_data_to_send, 0 >> /\ UNCHANGED torn
       \/ /\ server = "length" /\ server' = "send"
          /\ sending' = << sending[1], swo_data_num >> /\ UNCHANGED torn
    /\ UNCHANGED << Beside, TraceIndexO, kSwoTransferBusy, events >>

(* With the bytes sent, the outgoing index moves on, the flag falls, and   *)
(* the thread is told.                                                     *)
SWO_TransferComplete ==
    \/ /\ server = "send" /\ server' = "done" /\ TraceIndexO + TransferSize <= MaxIndex
       /\ TraceIndexO' = TraceIndexO + TransferSize /\ sending' = << 0, 0 >>
       /\ UNCHANGED << Beside, kSwoTransferBusy, events, torn >>
    \/ /\ server = "done" /\ server' = "resume"
       /\ kSwoTransferBusy' = FALSE
       /\ UNCHANGED << Beside, TraceIndexO, events, sending, torn >>
    \/ /\ server = "resume" /\ server' = "idle" /\ torn' = FALSE
       /\ ResumeTrace((TraceIndexI - TraceIndexO) % Word < SWO_BUFFER_SIZE)
       /\ events' = events \cup { "SWO_GOT_DATA" }
       /\ UNCHANGED << TraceTransport, TraceMode, active, errs, TraceIndexI, TraceIndexO, TraceUpdate,
                       transfer, installed, USART_Ready, rx_buffered_len, rx_stash_len, task, swo,
                       sending, started, arrived >>

----------------------------------------------------------------------------

Interrupt == LineError \/ \E n \in Chunks: Receive(n)
DapTask ==
    \/ SWO_Transport \/ SWO_Mode \/ SWO_Baudrate \/ \E on \in BOOLEAN: SWO_Control(on)
    \/ StartCapture
    \/ Flip \/ GetTraceStatus \/ GetTraceCount \/ Answer
SWO_Thread ==
    \/ Wake \/ Read \/ Account \/ CheckStatus \/ TestBusy \/ CountTrace \/ Counted
    \/ CutTransfer \/ StoreSize \/ SetBusy \/ SWO_QueueTransfer
UsbipTask == handle_swo_trace_response \/ SWO_TransferComplete

Next == Interrupt \/ DapTask \/ SWO_Thread \/ UsbipTask
Spec == Init /\ [][Next]_vars

----------------------------------------------------------------------------

(* The trace and its parts keep to their sizes: the driver holds no more   *)
(* than its ring, a block is no longer than a block, a transfer is queued  *)
(* with bytes in it, and an inactive capture is not paused.                *)
TypeOK ==
    /\ TraceTransport \in 0..2 /\ TraceMode \in { "off", "uart" }
    /\ paused => active
    /\ TraceError \in [ 0..1 -> SUBSET Errors ] /\ TraceError_n \in 0..1
    /\ TraceIndexI \in Nat /\ TraceIndexO \in Nat /\ TraceBlockSize \in 0..TRACE_BLOCK_SIZE
    /\ kSwoTransferBusy => TransferSize > 0
    /\ rx_buffered_len \in 0..BUF_SIZE /\ kSWO_read_num \in 0..TRACE_BLOCK_SIZE
    /\ events \in SUBSET Flags /\ flags \in SUBSET Flags
    /\ thread \in { "wait", "read", "account", "check", "test", "count", "counting", "cut", "size",
                    "busy", "pointer", "length" }
    /\ server \in { "idle", "pointer", "length", "send", "done", "resume" }
    /\ stage \in { "idle", "flipped", "collected", "counted", "final" }

(* A status or data answer reports every error the interrupt raised since  *)
(* the status before it, and no other: none is lost or told twice when the *)
(* interrupt comes between the steps of GetTraceStatus.                    *)
ErrorsReported == stage \in { "collected", "counted", "final" } => status = due

(* What the USBIP server sends lies in the trace buffer, and the trace     *)
(* moves on by as many bytes: neither the thread nor a command changes the *)
(* transfer under it.  Not so when it looked at the flag between the       *)
(* stores of SetBusy and SWO_QueueTransfer, or when a start took the flag  *)
(* away from it: then new and old place and length mix, and bytes that     *)
(* were not sent count as sent.                                            *)
SentAsQueued ==
    server = "send" /\ ~torn =>
        sending[1] + sending[2] <= SWO_BUFFER_SIZE /\ sending[2] = TransferSize

(* The host is told of every error, and given bytes of the trace only,     *)
(* but for transfers that are torn as said above.                          *)
TraceSound == ErrorsReported /\ SentAsQueued

(* While the capture goes on, transfers end with a full USB block, so that *)
(* the host never takes a short one for the end; unless the capture began  *)
(* after the thread had seen in CheckStatus that there was none.           *)
WholeBlocks ==
    [][ ~kSwoTransferBusy /\ kSwoTransferBusy' /\ active /\ ~started
          => (piece[1] + TransferSize) % USB_BLOCK_SIZE = 0 ]_vars

=============================================================================
