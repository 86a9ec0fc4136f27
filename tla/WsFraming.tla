------------------------------ MODULE WsFraming ------------------------------
(***************************************************************************)
(* websocket_worker (main/websocket_server.c): after the handshake a TCP   *)
(* stream of WebSocket frames arrives, cut anywhere; each recv is followed *)
(* by passes over what the buffer holds, of a header or a part of a        *)
(* payload.  Bytes are positions of the stream, and the buffer is the run  *)
(* of remaining_len of them that begins at base.                           *)
(***************************************************************************)
EXTENDS Integers, Sequences

CONSTANTS
    Streams,         \* sequences of frames << opcode, extended length bytes, mask, payload length >>
    Chunks,          \* sizes a recv may return
    Alignments,      \* of the receive buffer
    CONFIG_CO_WS_TEXT_BUFFER_SIZE,
    HandshakeLen     \* of the request of the handshake

(* A client sends frames of the kinds and headers there are, and unknown   *)
(* ones.                                                                   *)
FrameKinds == { "BINARY", "TEXT", "PING", "PONG", "CLOSE", "CONTINUATION", "unknown" }
WsAssumption ==
    /\ Streams \subseteq Seq(FrameKinds \X { 0, 2, 8 } \X BOOLEAN \X Nat)
    /\ Chunks \subseteq Nat \ {0} /\ Alignments \subseteq Nat
    /\ CONFIG_CO_WS_TEXT_BUFFER_SIZE \in Nat /\ HandshakeLen \in Nat

VARIABLES
    frames, aligned,                \* the stream, and the place of the buffer modulo 4
    pc, base, remaining_len, read_len,
    status,                         \* without its CO_SOCKET_WEBSOCKET_
    OPCODE, MASK, payload_len, mask,   \* mask: by how many bytes it is rotated
    skip_frame, recv_data_offset,
    sent                            \* the last answer: << kind, first position, length >>

wcb == << OPCODE, MASK, payload_len, mask >>
text == << skip_frame, recv_data_offset >>
vars == << frames, aligned, pc, base, remaining_len, read_len, status, wcb, text, sent >>

Least(a, b) == IF a < b THEN a ELSE b

(* Frame k begins at Start(k); its payload at Payload(k).                  *)
Start(k) ==
    LET size(f) == 2 + f[2] + (IF f[3] THEN 4 ELSE 0) + f[4]
        at[n \in 1..k] == IF n = 1 THEN 0 ELSE at[n - 1] + size(frames[n - 1])
    IN at[k]
Total == Start(Len(frames) + 1)
Current == CHOOSE k \in 1..Len(frames): Start(k) <= base /\ base < Start(k + 1)
Header(k) == 2 + frames[k][2] + (IF frames[k][3] THEN 4 ELSE 0)
Payload(k) == Start(k) + Header(k)

Init ==
    /\ frames \in Streams /\ aligned \in Alignments
    /\ pc = "handshake" /\ base = 0 /\ remaining_len = 4 /\ read_len = 0 /\ status = "HEADER"
    /\ OPCODE = "none" /\ MASK = FALSE /\ payload_len = 0 /\ mask = 0
    /\ skip_frame = FALSE /\ recv_data_offset = 0
    /\ sent = << "none", 0, 0 >>

----------------------------------------------------------------------------
(* The request is complete when what was received ends with an empty line; *)
(* it is refused for a missing field or a key of the wrong length.         *)
Handshake ==
    /\ pc = "handshake"
    /\ \E n \in Chunks:
        /\ remaining_len + n <= HandshakeLen
        /\ IF remaining_len + n < HandshakeLen
           THEN remaining_len' = remaining_len + n /\ UNCHANGED << pc, sent >>
           ELSE \/ pc' = "recv" /\ remaining_len' = 0 /\ sent' = << "101", 0, 0 >>
                \/ pc' = "closed" /\ remaining_len' = 0 /\ sent' = << "400", 0, 0 >>
    /\ UNCHANGED << frames, aligned, base, read_len, status, wcb, text >>

Receive ==
    /\ pc = "recv"
    /\ \E n \in Chunks:
        /\ base + remaining_len + n <= Total
        /\ remaining_len' = remaining_len + n
    /\ pc' = IF status = "PAYLOAD" THEN "payload" ELSE "header"
    /\ UNCHANGED << frames, aligned, base, read_len, status, wcb, text, sent >>

Disconnect ==
    /\ pc \in { "handshake", "recv" } /\ pc' = "closed"
    /\ sent' = IF pc = "handshake" THEN << "400", 0, 0 >> ELSE sent
    /\ UNCHANGED << frames, aligned, base, remaining_len, read_len, status, wcb, text >>

(* The first two bytes.                                                    *)
FirstBytes(frame) ==
    /\ OPCODE' = IF frame[1] = "CONTINUATION" THEN OPCODE ELSE frame[1]
    /\ MASK' = frame[3]
    /\ payload_len' = IF frame[2] > 0 THEN 126 ELSE frame[4]
    /\ status' = IF frame[2] > 0 THEN "EXTEND_LENGTH" ELSE IF frame[3] THEN "MASK" ELSE "PAYLOAD"
    /\ read_len' = 2 /\ UNCHANGED mask

ExtendedLength(frame) ==
    /\ payload_len' = frame[4] /\ read_len' = read_len + frame[2]
    /\ status' = IF MASK THEN "MASK" ELSE "PAYLOAD"
    /\ UNCHANGED << OPCODE, MASK, mask >>

MaskingKey == mask' = 0 /\ read_len' = read_len + 4 /\ status' = "PAYLOAD" /\ UNCHANGED << OPCODE, MASK, payload_len >>

(* One stage of the header, if its bytes have come; with the last of them  *)
(* the payload follows.  A header that the code refuses ends the           *)
(* connection.                                                             *)
co_websocket_process_header ==
    /\ pc = "header"
    /\ LET frame == frames[Current]
           needed == CASE status = "HEADER" -> 2
                       [] status = "EXTEND_LENGTH" -> read_len + frame[2]
                       [] status = "MASK" -> read_len + 4
       IN IF remaining_len < needed
          THEN pc' = "recv" /\ UNCHANGED << read_len, status, wcb >>
          ELSE IF status = "HEADER" /\ frame[1] = "unknown"
          THEN pc' = "closed" /\ UNCHANGED << read_len, status, wcb >>
          ELSE /\ CASE status = "HEADER" -> FirstBytes(frame)
                    [] status = "EXTEND_LENGTH" -> ExtendedLength(frame)
                    [] status = "MASK" -> MaskingKey
               /\ pc' = IF status' = "PAYLOAD" THEN "payload" ELSE "header"
    /\ UNCHANGED << frames, aligned, base, remaining_len, text, sent >>

----------------------------------------------------------------------------
(* Payload                                                                 *)

(* Mutant: the key is turned by a word's bytes, not by those before it.    *)
FastMaskUnturned(dst, turned, len) ==
    LET align == IF len >= 8 THEN (-dst) % 4 ELSE 0
    IN [ i \in 0..len - 1 |-> IF i < align THEN (turned + i) % 4 ELSE (turned + i - align) % 4 ]

(* Which byte of the key co_websocket_fast_mask puts on byte i: up to the  *)
(* first aligned address byte by byte, then with a key turned to that      *)
(* address, by words and, at the end, byte by byte.  A short run is masked *)
(* byte by byte.                                                           *)
co_websocket_fast_mask(dst, turned, len) ==
    LET align == IF len >= 8 THEN (-dst) % 4 ELSE 0
        new_mask == turned + align
    IN [ i \in 0..len - 1 |-> IF i < align THEN (turned + i) % 4 ELSE (new_mask + i - align) % 4 ]

(* Mutant: the key is turned on and on.                                    *)
TurnedOn(turned, len) == turned + len

co_websocket_get_new_mask(turned, len) == (turned + len) % 4

Data == base + read_len
DataLen == Least(remaining_len - read_len, payload_len)
Masked == MASK /\ OPCODE # "PING"
DataAddress == aligned + read_len

(* Mutant: the rest of a text that is too long is skipped, and all that    *)
(* follow it.                                                              *)
ProcessTextSkipsOn ==
    LET whole == DataLen = payload_len IN
    IF skip_frame \/ (whole /\ recv_data_offset = 0)
    THEN UNCHANGED << skip_frame, recv_data_offset, sent >>
    ELSE IF DataLen > CONFIG_CO_WS_TEXT_BUFFER_SIZE - recv_data_offset
    THEN /\ skip_frame' = (DataLen < payload_len) /\ recv_data_offset' = 0
         /\ sent' = << "request too long", Data, DataLen >>
    ELSE /\ recv_data_offset' = IF whole THEN 0 ELSE recv_data_offset + DataLen
         /\ UNCHANGED << skip_frame, sent >>

(* A text that comes in parts is put together in recv_data, one that is    *)
(* too long for it refused and the rest of it skipped.  recv_data is NULL: *)
(* the first byte put there ends the program.                              *)
NullCopied ==
    /\ OPCODE = "TEXT" /\ ~skip_frame /\ 0 < DataLen /\ DataLen < payload_len
    /\ DataLen <= CONFIG_CO_WS_TEXT_BUFFER_SIZE - recv_data_offset

ProcessText ==
    LET whole == DataLen = payload_len IN
    IF skip_frame
    THEN skip_frame' = ~whole /\ UNCHANGED << recv_data_offset, sent >>
    ELSE IF whole /\ recv_data_offset = 0
    THEN UNCHANGED << skip_frame, recv_data_offset, sent >>
    ELSE IF DataLen > CONFIG_CO_WS_TEXT_BUFFER_SIZE - recv_data_offset
    THEN /\ skip_frame' = (DataLen < payload_len) /\ recv_data_offset' = 0
         /\ sent' = << "request too long", Data, DataLen >>
    ELSE /\ recv_data_offset' = IF whole THEN 0 ELSE recv_data_offset + DataLen
         /\ UNCHANGED << skip_frame, sent >>

(* A PING is answered from the start of the buffer, header included; its   *)
(* length is taken from what is left of the payload.                       *)
Process ==
    CASE OPCODE = "TEXT" -> ProcessText
      [] OPCODE = "BINARY" -> sent' = << "dap", Data, DataLen >> /\ UNCHANGED text
      [] OPCODE = "PING" ->
            /\ sent' = << "pong", base, 2 + payload_len + (IF MASK THEN 4 ELSE 0) >>
            /\ UNCHANGED text
      [] OPCODE = "CLOSE" -> sent' = << "close", 0, 0 >> /\ UNCHANGED text
      [] OTHER -> UNCHANGED << text, sent >>

(* Mutant: the next frame waits for the next recv.                         *)
NextFrameWaits ==
    IF remaining_len - read_len > DataLen
    THEN /\ remaining_len' = remaining_len - read_len - DataLen
         /\ status' = "HEADER" /\ payload_len' = 0 /\ pc' = "recv"
    ELSE /\ remaining_len' = 0 /\ pc' = "recv"
         /\ IF payload_len > DataLen
            THEN payload_len' = payload_len - DataLen /\ UNCHANGED status
            ELSE status' = "HEADER" /\ payload_len' = 0

(* Mutant: what is left of a payload is not counted down.                  *)
LengthStays ==
    IF remaining_len - read_len > DataLen
    THEN /\ remaining_len' = remaining_len - read_len - DataLen
         /\ status' = "HEADER" /\ payload_len' = 0 /\ pc' = "header"
    ELSE /\ remaining_len' = 0 /\ pc' = "recv"
         /\ IF payload_len > DataLen THEN UNCHANGED << payload_len, status >>
            ELSE status' = "HEADER" /\ payload_len' = 0

(* What follows in the buffer is the next frame and is moved to its start; *)
(* without it, the payload goes on with the next recv, or is complete.     *)
AfterPayload ==
    IF remaining_len - read_len > DataLen
    THEN /\ remaining_len' = remaining_len - read_len - DataLen
         /\ status' = "HEADER" /\ payload_len' = 0 /\ pc' = "header"
    ELSE /\ remaining_len' = 0 /\ pc' = "recv"
         /\ IF payload_len > DataLen
            THEN payload_len' = payload_len - DataLen /\ UNCHANGED status
            ELSE status' = "HEADER" /\ payload_len' = 0

co_websocket_process_payload ==
    /\ pc = "payload"
    /\ mask' = IF Masked THEN co_websocket_get_new_mask(mask, DataLen) ELSE mask
    /\ Process
    /\ IF OPCODE = "CLOSE" \/ NullCopied
       THEN /\ pc' = IF NullCopied THEN "crashed" ELSE "closed"
            /\ UNCHANGED << base, remaining_len, read_len, status, payload_len >>
       ELSE AfterPayload /\ base' = Data + DataLen /\ read_len' = 0
    /\ UNCHANGED << frames, aligned, OPCODE, MASK >>

Next ==
    \/ Handshake \/ Receive \/ Disconnect
    \/ co_websocket_process_header \/ co_websocket_process_payload

Spec == Init /\ [][Next]_vars

----------------------------------------------------------------------------

(* Every variable has its type; what is counted of a frame is within the   *)
(* stream, and the text within its buffer.                                 *)
TypeOK ==
    /\ pc \in { "handshake", "recv", "header", "payload", "closed", "crashed" }
    /\ status \in { "HEADER", "EXTEND_LENGTH", "MASK", "PAYLOAD" }
    /\ base + remaining_len <= Total \/ pc \in { "handshake", "closed", "crashed" }
    /\ read_len <= remaining_len /\ mask \in 0..3
    /\ recv_data_offset \in 0..CONFIG_CO_WS_TEXT_BUFFER_SIZE

(* However the stream is cut, a header is looked for where a frame begins, *)
(* and what is left of a payload ends where its frame ends.                *)
InStep ==
    pc \in { "recv", "header", "payload" } =>
      IF status = "PAYLOAD" THEN \E k \in 1..Len(frames): Data + payload_len = Start(k + 1) /\ Payload(k) <= Data
                            ELSE \E k \in 1..Len(frames) + 1: base = Start(k)

(* Every byte of a payload is unmasked with the byte of the key that its   *)
(* place in the payload asks for, however it was cut and wherever in       *)
(* memory it lies.                                                         *)
UnmaskedRight ==
    pc = "payload" /\ Masked =>
        LET k == CHOOSE k \in 1..Len(frames): Payload(k) <= Data /\ Data + payload_len = Start(k + 1)
        IN \A i \in 0..DataLen - 1:
            co_websocket_fast_mask(DataAddress, mask, DataLen)[i] = (Data - Payload(k) + i) % 4

(* A frame that has come is processed before more is waited for: the host  *)
(* may wait for its answer.                                                *)
NothingWaits ==
    pc = "recv" /\ remaining_len > 0 => remaining_len < Header(Current)

(* Only the rest of a text that was refused is skipped, never the next     *)
(* frame.                                                                  *)
SkipEnds == skip_frame /\ pc = "recv" => status = "PAYLOAD"

(* The probe and the host agree about the frames of the stream.            *)
FramesFound == InStep /\ UnmaskedRight /\ NothingWaits /\ SkipEnds

=============================================================================
