------------------------------ MODULE DapUart ------------------------------
(***************************************************************************)
(* The UART commands of CMSIS-DAP (UART.c): the command task and the       *)
(* interrupt of the USART driver share two ring buffers with free-running  *)
(* indices and no lock.  Bytes are numbered as they come and as they are   *)
(* accepted.  DAP_UART is 0 in this build.                                 *)
(***************************************************************************)
EXTENDS Integers, Sequences

CONSTANTS
    DAP_UART_RX_BUFFER_SIZE, UART_RX_BLOCK_SIZE, DAP_UART_TX_BUFFER_SIZE,
    Word,            \* of an index
    Reads, Writes,   \* bytes a Transfer asks for and brings
    Controls,        \* requests of UART_Control, as sets of its bits
    MaxBytes,        \* received and accepted: a bound
    BytesPerCommand  \* that come while a command runs

UartAssumption ==
    /\ UART_RX_BLOCK_SIZE \in Nat \ {0} /\ DAP_UART_TX_BUFFER_SIZE \in Nat \ {0}
    /\ DAP_UART_RX_BUFFER_SIZE \in Nat /\ DAP_UART_RX_BUFFER_SIZE > 2 * UART_RX_BLOCK_SIZE
    /\ DAP_UART_RX_BUFFER_SIZE % UART_RX_BLOCK_SIZE = 0
    (* the remainder goes on where the word overflows *)
    /\ Word \in Nat /\ Word > DAP_UART_RX_BUFFER_SIZE /\ Word >= 2 * DAP_UART_TX_BUFFER_SIZE
    /\ Word % DAP_UART_RX_BUFFER_SIZE = 0 /\ Word % DAP_UART_TX_BUFFER_SIZE = 0
    /\ Reads \subseteq Nat /\ Writes \subseteq Nat
    /\ MaxBytes \in Nat /\ BytesPerCommand \in Nat

VARIABLES
    UartTransport, UartConfigured, UartReceiveEnabled, UartTransmitEnabled, UartTransmitActive,
    UartRxIndexI, UartRxIndexO, UartRxBuf,
    UartTxIndexI, UartTxIndexO, UartTxBuf, UartTxNum,
    UartErrors,      \* "lost" for UartErrorRxDataLost, "framing" for the others
    GetRxCount, GetTxCount,  \* of the driver
    pc, request,     \* of the command
    rx_num, rx_cnt, rx_data, tx_num, num,
    came,            \* bytes that came while it runs
    received, expected,      \* bytes that came, and the next for the host
    accepted, onWire,        \* bytes of the host, and the last sent
    lossTold,        \* the host has been told of a loss since it was last given a byte
    counts,          \* of the last answer: rx_cnt of UART_Status, and what there was
    torn             \* a block has ended between the reads of its index and of its count

settings == << UartTransport, UartConfigured, UartReceiveEnabled, UartTransmitEnabled >>
rx == << UartRxIndexI, UartRxIndexO, UartRxBuf, GetRxCount, received, expected >>
tx == << UartTxIndexI, UartTxIndexO, UartTxBuf, UartTxNum, GetTxCount, UartTransmitActive, accepted, onWire >>
command == << pc, request, rx_num, rx_cnt, rx_data, tx_num, num, came >>
answer == << lossTold, counts >>
vars == << settings, rx, tx, command, answer, UartErrors, torn >>

Least(a, b) == IF a < b THEN a ELSE b
Minus(a, b) == (a - b + Word) % Word
RxLimit == DAP_UART_RX_BUFFER_SIZE - UART_RX_BLOCK_SIZE * 2

Init ==
    /\ UartTransport = "NONE" /\ UartConfigured = FALSE
    /\ UartReceiveEnabled = FALSE /\ UartTransmitEnabled = FALSE /\ UartTransmitActive = FALSE
    /\ UartRxIndexI = 0 /\ UartRxIndexO = 0 /\ UartTxIndexI = 0 /\ UartTxIndexO = 0 /\ UartTxNum = 0
    /\ UartRxBuf = [i \in 0..DAP_UART_RX_BUFFER_SIZE - 1 |-> 0]
    /\ UartTxBuf = [i \in 0..DAP_UART_TX_BUFFER_SIZE - 1 |-> 0]
    /\ UartErrors = {} /\ GetRxCount = 0 /\ GetTxCount = 0
    /\ pc = "idle" /\ request = << 0, 0 >> /\ rx_num = 0 /\ rx_cnt = 0 /\ rx_data = << >> /\ tx_num = 0 /\ num = 0 /\ came = 0
    /\ received = 0 /\ expected = 1 /\ accepted = 0 /\ onWire = 0
    /\ lossTold = FALSE /\ counts = << 0, 0 >> /\ torn = FALSE

----------------------------------------------------------------------------
(* The interrupt                                                           *)

(* Mutant: the index moves by what the driver has had since the last block. *)
ReceiveByteShort ==
    /\ UartReceiveEnabled /\ received < MaxBytes
    /\ pc # "idle" => came < BytesPerCommand
    /\ LET place == (UartRxIndexI % DAP_UART_RX_BUFFER_SIZE) + GetRxCount
           complete == GetRxCount + 1 = UART_RX_BLOCK_SIZE
       IN /\ UartRxBuf' = [UartRxBuf EXCEPT ![place] = received + 1]
          /\ GetRxCount' = IF complete THEN 0 ELSE GetRxCount + 1
          /\ UartRxIndexI' = IF complete THEN (UartRxIndexI + GetRxCount) % Word ELSE UartRxIndexI
          /\ torn' = (torn \/ (complete /\ pc = "rx count"))
    /\ received' = received + 1 /\ came' = IF pc = "idle" THEN 0 ELSE came + 1
    /\ UNCHANGED << settings, tx, answer, UartErrors, UartRxIndexO, expected, pc, request, rx_num, rx_cnt, rx_data, tx_num, num >>

(* Bytes go from the driver to the block at UartRxIndexI; with the last    *)
(* one of it USART_Callback moves the index and receives the next block.   *)
ReceiveByte ==
    /\ UartReceiveEnabled /\ received < MaxBytes
    /\ pc # "idle" => came < BytesPerCommand
    /\ LET place == (UartRxIndexI % DAP_UART_RX_BUFFER_SIZE) + GetRxCount
           complete == GetRxCount + 1 = UART_RX_BLOCK_SIZE
       IN /\ UartRxBuf' = [UartRxBuf EXCEPT ![place] = received + 1]
          /\ GetRxCount' = IF complete THEN 0 ELSE GetRxCount + 1
          /\ UartRxIndexI' = IF complete THEN (UartRxIndexI + UART_RX_BLOCK_SIZE) % Word ELSE UartRxIndexI
          /\ torn' = (torn \/ (complete /\ pc = "rx count"))
    /\ received' = received + 1 /\ came' = IF pc = "idle" THEN 0 ELSE came + 1
    /\ UNCHANGED << settings, tx, answer, UartErrors, UartRxIndexO, expected, pc, request, rx_num, rx_cnt, rx_data, tx_num, num >>

(* What is there up to the end of the buffer is sent.                      *)
UART_Transmit(indexO) ==
    LET count == Minus(UartTxIndexI, indexO)
        index == indexO % DAP_UART_TX_BUFFER_SIZE
    IN IF count = 0 THEN UartTransmitActive' = FALSE /\ UNCHANGED << UartTxNum, GetTxCount >>
       ELSE /\ UartTxNum' = Least(count, DAP_UART_TX_BUFFER_SIZE - index)
            /\ UartTransmitActive' = TRUE /\ GetTxCount' = 0

(* Mutant: the callback leaves the rest to the next command.               *)
SendByteStops ==
    /\ UartTransmitActive /\ UartTransmitEnabled
    /\ LET last == GetTxCount + 1 = UartTxNum
           indexO == IF last THEN (UartTxIndexO + UartTxNum) % Word ELSE UartTxIndexO
       IN /\ onWire' = UartTxBuf[(UartTxIndexO % DAP_UART_TX_BUFFER_SIZE) + GetTxCount]
          /\ UartTxIndexO' = indexO
          /\ torn' = (torn \/ (last /\ pc \in { "tx count", "tx active" }))
          /\ IF last THEN UartTransmitActive' = FALSE /\ UNCHANGED << UartTxNum, GetTxCount >>
             ELSE GetTxCount' = GetTxCount + 1 /\ UNCHANGED << UartTxNum, UartTransmitActive >>
    /\ UNCHANGED << settings, rx, command, answer, UartErrors, UartTxIndexI, UartTxBuf, accepted >>

(* The driver sends; with the last byte the callback goes on with what has *)
(* been put in the buffer meanwhile.  A transmitter that is off refuses    *)
(* Send, which nobody asks.                                                *)
SendByte ==
    /\ UartTransmitActive /\ UartTransmitEnabled
    /\ LET last == GetTxCount + 1 = UartTxNum
           indexO == IF last THEN (UartTxIndexO + UartTxNum) % Word ELSE UartTxIndexO
       IN /\ onWire' = UartTxBuf[(UartTxIndexO % DAP_UART_TX_BUFFER_SIZE) + GetTxCount]
          /\ UartTxIndexO' = indexO
          /\ torn' = (torn \/ (last /\ pc \in { "tx count", "tx active" }))
          /\ IF last THEN UART_Transmit(indexO)
             ELSE GetTxCount' = GetTxCount + 1 /\ UNCHANGED << UartTxNum, UartTransmitActive >>
    /\ UNCHANGED << settings, rx, command, answer, UartErrors, UartTxIndexI, UartTxBuf, accepted >>

LineError ==
    /\ UartReceiveEnabled /\ UartErrors' = UartErrors \union { "framing" }
    /\ UNCHANGED << settings, rx, tx, command, answer, torn >>

----------------------------------------------------------------------------
(* Commands that the interrupt cannot come between: they stop it first     *)

(* Mutant: the index of the host keeps its place.                          *)
RxClearedIn ==
    /\ UartRxIndexI' = 0 /\ GetRxCount' = 0 /\ expected' = received + 1
    /\ UNCHANGED << UartRxIndexO, UartRxBuf, received >>

(* What was not handed over is dropped.                                    *)
RxCleared ==
    /\ UartRxIndexI' = 0 /\ UartRxIndexO' = 0 /\ GetRxCount' = 0 /\ expected' = received + 1
    /\ UNCHANGED << UartRxBuf, received >>
TxCleared ==
    /\ UartTransmitActive' = FALSE /\ UartTxIndexI' = 0 /\ UartTxIndexO' = 0 /\ UartTxNum' = 0
    /\ onWire' = accepted /\ UNCHANGED << UartTxBuf, GetTxCount, accepted >>

Receive_Disable == IF UartReceiveEnabled THEN GetRxCount' = 0 ELSE UNCHANGED GetRxCount
Transmit_Disable == UartTransmitActive' = (UartTransmitActive /\ ~UartTransmitEnabled)

UART_Transport ==
    /\ pc = "idle"
    /\ \/ /\ UartTransport = "NONE" /\ UartTransport' \in { "NONE", "DAP_COMMAND" }
          /\ UartConfigured' = FALSE /\ UartReceiveEnabled' = FALSE /\ UartTransmitEnabled' = FALSE
          /\ UartErrors' = {} /\ RxCleared /\ TxCleared
       \/ /\ UartTransport = "DAP_COMMAND" /\ UartTransport' = "NONE"
          /\ Receive_Disable /\ Transmit_Disable
          /\ UartConfigured' = FALSE /\ UartReceiveEnabled' = FALSE /\ UartTransmitEnabled' = FALSE
          /\ UNCHANGED << UartErrors, UartRxIndexI, UartRxIndexO, UartRxBuf, received, expected,
                          UartTxIndexI, UartTxIndexO, UartTxBuf, UartTxNum, GetTxCount, accepted, onWire >>
    /\ UNCHANGED << command, answer, torn >>

UART_Configure ==
    /\ pc = "idle" /\ UartTransport = "DAP_COMMAND"
    /\ UartConfigured' \in BOOLEAN
    /\ UNCHANGED << UartTransport, UartReceiveEnabled, UartTransmitEnabled, rx, tx, command, answer, UartErrors, torn >>

ControlRx(control) ==
    LET on == "RX_ENABLE" \in control /\ "RX_DISABLE" \notin control /\ UartConfigured IN
    /\ UartReceiveEnabled' = (on \/ (UartReceiveEnabled /\ "RX_DISABLE" \notin control))
    /\ IF (on /\ ~UartReceiveEnabled) \/ "RX_BUF_FLUSH" \in control THEN RxCleared
       ELSE /\ IF "RX_DISABLE" \in control THEN Receive_Disable ELSE UNCHANGED GetRxCount
            /\ UNCHANGED << UartRxIndexI, UartRxIndexO, UartRxBuf, received, expected >>

ControlTx(control) ==
    LET on == "TX_ENABLE" \in control /\ "TX_DISABLE" \notin control /\ UartConfigured IN
    /\ UartTransmitEnabled' = (on \/ (UartTransmitEnabled /\ "TX_DISABLE" \notin control))
    /\ IF (on /\ ~UartTransmitEnabled) \/ "TX_BUF_FLUSH" \in control THEN TxCleared
       ELSE /\ IF "TX_DISABLE" \in control THEN Transmit_Disable ELSE UNCHANGED UartTransmitActive
            /\ UNCHANGED << UartTxIndexI, UartTxIndexO, UartTxBuf, UartTxNum, GetTxCount, accepted, onWire >>

UART_Control ==
    /\ pc = "idle" /\ UartTransport = "DAP_COMMAND"
    /\ \E control \in Controls: ControlRx(control) /\ ControlTx(control)
    /\ UNCHANGED << UartTransport, UartConfigured, command, answer, UartErrors, torn >>

----------------------------------------------------------------------------
(* UART_Status and UART_Transfer, which run on while bytes come and go     *)

Begin(first, r) == pc = "idle" /\ pc' = first /\ request' = r /\ came' = 0 /\ rx_data' = << >>

UART_Status ==
    /\ UartTransport = "DAP_COMMAND" /\ UartConfigured
    /\ Begin("rx indices", << 0, 0 >>)
    /\ UNCHANGED << settings, rx, tx, answer, UartErrors, rx_num, rx_cnt, tx_num, num, torn >>

UART_Transfer ==
    /\ UartTransport = "DAP_COMMAND"
    /\ \E read \in Reads, write \in Writes:
        read + write > 0 /\ accepted + write <= MaxBytes /\ Begin("rx indices", << read, write >>)
    /\ UNCHANGED << settings, rx, tx, answer, UartErrors, rx_num, rx_cnt, tx_num, num, torn >>

RxIndices ==
    /\ pc = "rx indices" /\ pc' = "rx count"
    /\ rx_num' = Minus(UartRxIndexI, UartRxIndexO)
    /\ UNCHANGED << settings, rx, tx, answer, UartErrors, request, rx_cnt, rx_data, tx_num, num, came, torn >>

(* Mutant: a whole buffer is no overflow yet.                              *)
RxCountFull ==
    /\ pc = "rx count"
    /\ LET there == (rx_num + GetRxCount) % Word
       IN IF there > DAP_UART_RX_BUFFER_SIZE
          THEN pc' = "overflow" /\ rx_num' = DAP_UART_RX_BUFFER_SIZE /\ UartErrors' = UartErrors \union { "lost" }
          ELSE pc' = "rx request" /\ rx_num' = there /\ UNCHANGED UartErrors
    /\ UNCHANGED << settings, rx, tx, answer, request, rx_cnt, rx_data, tx_num, num, came, torn >>

(* With what the driver has of the next block.  Two blocks are kept free.  *)
RxCount ==
    /\ pc = "rx count"
    /\ LET there == (rx_num + GetRxCount) % Word
       IN IF there > RxLimit
          THEN pc' = "overflow" /\ rx_num' = RxLimit /\ UartErrors' = UartErrors \union { "lost" }
          ELSE pc' = "rx request" /\ rx_num' = there /\ UNCHANGED UartErrors
    /\ UNCHANGED << settings, rx, tx, answer, request, rx_cnt, rx_data, tx_num, num, came, torn >>

Overflow ==
    /\ pc = "overflow" /\ pc' = "rx request"
    /\ UartRxIndexO' = Minus(UartRxIndexI, rx_num)
    /\ UNCHANGED << settings, tx, answer, UartErrors, UartRxIndexI, UartRxBuf, GetRxCount, received, expected,
                    request, rx_num, rx_cnt, rx_data, tx_num, num, came, torn >>

RxRequest ==
    /\ pc = "rx request" /\ pc' = IF request = << 0, 0 >> THEN "answer" ELSE "copy"
    /\ rx_cnt' = IF request = << 0, 0 >> THEN rx_num ELSE Least(request[1], rx_num)
    /\ UNCHANGED << settings, rx, tx, answer, UartErrors, request, rx_num, rx_data, tx_num, num, came, torn >>

(* The copy, byte after byte, and then the index.                          *)
Copy ==
    /\ pc = "copy"
    /\ IF Len(rx_data) < rx_cnt
       THEN /\ rx_data' = Append(rx_data, UartRxBuf[(UartRxIndexO + Len(rx_data)) % DAP_UART_RX_BUFFER_SIZE])
            /\ UNCHANGED << pc, UartRxIndexO >>
       ELSE pc' = "tx indices" /\ UartRxIndexO' = (UartRxIndexO + rx_cnt) % Word /\ UNCHANGED rx_data
    /\ UNCHANGED << settings, tx, answer, UartErrors, UartRxIndexI, UartRxBuf, GetRxCount, received, expected,
                    request, rx_num, rx_cnt, tx_num, num, came, torn >>

(* The count is of the blocks, less what the driver has sent of the one it *)
(* is sending.                                                             *)
TxIndices ==
    /\ pc = "tx indices" /\ pc' = "tx count"
    /\ tx_num' = Minus(UartTxIndexI, UartTxIndexO)
    /\ UNCHANGED << settings, rx, tx, answer, UartErrors, request, rx_num, rx_cnt, rx_data, num, came, torn >>

TxCount ==
    /\ pc = "tx count" /\ pc' = "tx active" /\ num' = GetTxCount
    /\ UNCHANGED << settings, rx, tx, answer, UartErrors, request, rx_num, rx_cnt, rx_data, tx_num, came, torn >>

(* Mutant: a count of the last block is taken off, too.                    *)
TxActiveAlways ==
    /\ pc = "tx active" /\ pc' = "put" /\ num' = 0
    /\ tx_num' = Minus(tx_num, num)
    /\ UNCHANGED << settings, rx, tx, answer, UartErrors, request, rx_num, rx_cnt, rx_data, came, torn >>

TxActive ==
    /\ pc = "tx active" /\ pc' = "put" /\ num' = 0
    /\ tx_num' = IF UartTransmitActive THEN Minus(tx_num, num) ELSE tx_num
    /\ UNCHANGED << settings, rx, tx, answer, UartErrors, request, rx_num, rx_cnt, rx_data, came, torn >>

(* Mutant: the buffer is taken for empty.                                  *)
PutAll ==
    /\ pc = "put" /\ pc' = "transmit"
    /\ LET n == request[2] IN
       /\ UartTxBuf' = [i \in DOMAIN UartTxBuf |->
            LET at == (i - UartTxIndexI + Word) % DAP_UART_TX_BUFFER_SIZE IN IF at < n THEN accepted + at + 1 ELSE UartTxBuf[i]]
       /\ UartTxIndexI' = (UartTxIndexI + n) % Word /\ accepted' = accepted + n
    /\ UNCHANGED << settings, rx, answer, UartErrors, UartTxIndexO, UartTxNum, GetTxCount, UartTransmitActive, onWire,
                    request, rx_num, rx_cnt, rx_data, tx_num, num, came, torn >>

(* As much as there is room for, by the count, without a sign.             *)
PutData ==
    /\ pc = "put" /\ pc' = "transmit"
    /\ LET n == Least(request[2], Minus(DAP_UART_TX_BUFFER_SIZE, tx_num)) IN
       /\ UartTxBuf' = [i \in DOMAIN UartTxBuf |->
            LET at == (i - UartTxIndexI + Word) % DAP_UART_TX_BUFFER_SIZE IN IF at < n THEN accepted + at + 1 ELSE UartTxBuf[i]]
       /\ UartTxIndexI' = (UartTxIndexI + n) % Word /\ accepted' = accepted + n
    /\ UNCHANGED << settings, rx, answer, UartErrors, UartTxIndexO, UartTxNum, GetTxCount, UartTransmitActive, onWire,
                    request, rx_num, rx_cnt, rx_data, tx_num, num, came, torn >>

StartTransmit ==
    /\ pc = "transmit" /\ pc' = "answer"
    /\ IF UartTransmitActive THEN UNCHANGED << UartTxNum, GetTxCount, UartTransmitActive >> ELSE UART_Transmit(UartTxIndexO)
    /\ UNCHANGED << settings, rx, answer, UartErrors, UartTxIndexI, UartTxIndexO, UartTxBuf, accepted, onWire,
                    request, rx_num, rx_cnt, rx_data, tx_num, num, came, torn >>

(* UART_Get_Status reports each error once.                                *)
Answer ==
    /\ pc = "answer" /\ pc' = "idle" /\ came' = 0
    /\ lossTold' = (rx_data = << >> /\ (lossTold \/ "lost" \in UartErrors)) /\ UartErrors' = {}
    /\ counts' = IF request = << 0, 0 >> THEN << rx_cnt, received + 1 - expected >> ELSE << 0, 0 >>
    /\ expected' = IF rx_data = << >> THEN expected ELSE rx_data[Len(rx_data)] + 1
    /\ rx_data' = << >> /\ request' = << 0, 0 >> /\ rx_num' = 0 /\ rx_cnt' = 0 /\ tx_num' = 0
    /\ UNCHANGED << settings, tx, UartRxIndexI, UartRxIndexO, UartRxBuf, GetRxCount, received, num, torn >>

Next ==
    \/ ReceiveByte \/ SendByte \/ LineError
    \/ UART_Transport \/ UART_Configure \/ UART_Control \/ UART_Status \/ UART_Transfer
    \/ RxIndices \/ RxCount \/ Overflow \/ RxRequest \/ Copy \/ TxIndices \/ TxCount \/ TxActive \/ PutData \/ StartTransmit \/ Answer

Spec == Init /\ [][Next]_vars

----------------------------------------------------------------------------

(* The numbers are in their ranges: blocks are received whole, and the     *)
(* room for more to send is never more than the buffer.                    *)
TypeOK ==
    /\ GetRxCount \in 0..UART_RX_BLOCK_SIZE - 1 /\ UartRxIndexI % UART_RX_BLOCK_SIZE = 0
    /\ rx_num \in 0..Word - 1 /\ tx_num \in 0..Word - 1
    /\ pc = "put" /\ ~torn => tx_num <= DAP_UART_TX_BUFFER_SIZE
    /\ UartErrors \subseteq { "lost", "framing" }

(* What a Transfer hands over came in this order without a gap and was not *)
(* overwritten while it was copied.  It goes on where the last one ended,  *)
(* or a loss is reported with it: there is a gap before it, or less than a *)
(* block of it is handed over again.                                       *)
ReadInOrder ==
    pc = "answer" /\ rx_data # << >> =>
        /\ \A i \in 2..Len(rx_data): rx_data[i] = rx_data[i - 1] + 1
        /\ \/ rx_data[1] = expected
           \/ rx_data[1] > expected - UART_RX_BLOCK_SIZE /\ (lossTold \/ "lost" \in UartErrors)
        /\ rx_data[Len(rx_data)] <= received

(* UART_Status does not promise bytes that are not there.                  *)
CountIsThere == counts[1] <= counts[2]

(* Bytes go out in the order in which they were accepted, none left out or *)
(* repeated; or a flush drops all the rest.  So it is as long as no block  *)
(* has ended between the reads of its index, its count and the activity:   *)
(* then the room can come out negative, and bytes that wait are lost.      *)
SentInOrder ==
    [][\/ onWire' \in { onWire, onWire + 1 }
       \/ UartTxIndexI' = 0 /\ UartTxIndexO' = 0 /\ onWire' = accepted
       \/ torn']_vars

(* Between commands, the transmitter is not idle while there are bytes to  *)
(* send: the last interrupt and the last command cannot both leave it to   *)
(* the other.                                                              *)
SendsOn == pc = "idle" /\ UartTransmitEnabled /\ UartTxIndexI # UartTxIndexO => UartTransmitActive

(* The command task and the interrupt agree about the two ring buffers, as *)
(* long as no block has ended between the reads of its index and its       *)
(* count: then the count can come out negative, is taken for an overrun,   *)
(* and bytes are handed over again.                                        *)
BuffersSound == torn \/ (ReadInOrder /\ CountIsThere /\ SendsOn)

=============================================================================
