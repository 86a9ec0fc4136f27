------------------------------ MODULE ElStream ------------------------------
(***************************************************************************)
(* el_dap_work (elaphureLink_protocol.c): one elaphureLink connection.     *)
(* Commands have no frame and are answered one by one; between the vendor  *)
(* commands that enter and leave a scope, packets with a header may follow *)
(* each other.  TCP cuts what it is given anywhere.  Bytes are positions   *)
(* of the stream.  (No caller of el_dap_work is in this commit.)           *)
(***************************************************************************)
EXTENDS Integers, Sequences

CONSTANTS
    Streams,         \* packets the host sends: << kind, length >>
    RecvSize,        \* of the receive buffer
    RestTogether     \* commands, and the rest of a packet, come with one recv

(* The host sends what fits the buffer, a vendor command with its header,  *)
(* and commands without one outside of a scope only.  The buffer holds the *)
(* first bytes of the handshake too.                                       *)
Allowed(p) ==
    \A k \in 1..Len(p):
        /\ p[k][2] > 0 /\ p[k][2] <= RecvSize /\ (p[k][1] # "command" => p[k][2] >= 4)
        /\ p[k][1] = "command" =>
             ~ \E j \in 1..k - 1: p[j][1] = "enter" /\ \A i \in j..k - 1: p[i][1] # "exit"
ElAssumption ==
    /\ RecvSize \in Nat /\ RecvSize >= 8 /\ RestTogether \in BOOLEAN
    /\ Streams \subseteq Seq({ "command", "enter", "passthrough", "exit" } \X Nat)
    /\ \A p \in Streams: Allowed(p)

VARIABLES
    packets,
    sent,            \* packets the host has sent
    pc,              \* the recv that el_dap_work is in
    base, pos,       \* where the buffer begins, and what has been received
    want,            \* bytes that recv asks for
    is_async,
    done, last       \* packets executed, and the last: << first position, length >>

vars == << packets, sent, pc, base, pos, want, is_async, done, last >>

Start(k) ==
    LET at[n \in 1..k] == IF n = 1 THEN 0 ELSE at[n - 1] + packets[n - 1][2] IN at[k]
Kind(k) == packets[k][1]

Init ==
    /\ packets \in Streams /\ sent = 0
    /\ pc = "handshake" /\ base = 0 /\ pos = 0 /\ want = 8
    /\ is_async = FALSE /\ done = 0 /\ last = << 0, 0 >>

(* The host waits for an answer before it goes on, but not within a scope. *)
InScope(k) == \E j \in 1..k - 1: Kind(j) = "enter" /\ \A i \in j..k - 1: Kind(i) # "exit"
Send ==
    /\ pc \notin { "handshake", "closed", "ended" }
    /\ sent < Len(packets) /\ (done = sent \/ InScope(sent + 1))
    /\ sent' = sent + 1
    /\ UNCHANGED << packets, pc, base, pos, want, is_async, done, last >>

Disconnect ==
    /\ pc \notin { "closed", "ended" } /\ pc' = "closed"
    /\ UNCHANGED << packets, sent, base, pos, want, is_async, done, last >>

----------------------------------------------------------------------------

(* The rest of the first 12 bytes, and what el_handshake_process says.     *)
Handshake ==
    /\ pc = "handshake"
    /\ \E n \in 1..want:
        /\ IF n < want THEN want' = want - n /\ UNCHANGED pc
           ELSE want' = RecvSize /\ pc' \in { "recv", "closed" }
    /\ UNCHANGED << packets, sent, base, pos, is_async, done, last >>

(* What a recv of at most size bytes may return.                           *)
Recv(size) == 1..(IF Start(sent + 1) - pos < size THEN Start(sent + 1) - pos ELSE size)

(* Mutant: a scope that was entered is not left.                           *)
ExecutedKeepsScope(k, first, length) ==
    /\ done' = k /\ last' = << first, length >>
    /\ is_async' = (is_async \/ \E j \in done + 1..k: Kind(j) = "enter")

(* The packets up to k are executed: el_vendor_command changes the scope.  *)
Executed(k, first, length) ==
    /\ done' = k /\ last' = << first, length >>
    /\ is_async' = IF \E j \in done + 1..k: Kind(j) \in { "enter", "exit" }
                   THEN Kind(CHOOSE j \in done + 1..k: /\ Kind(j) \in { "enter", "exit" }
                                                       /\ \A i \in j + 1..k: Kind(i) \notin { "enter", "exit" }) = "enter"
                   ELSE is_async

(* The recv that follows.                                                  *)
Again == IF is_async' THEN pc' = "async header" /\ want' = 4 ELSE pc' = "recv" /\ want' = RecvSize

(* Mutant: a packet that ends with the data counts as cut.                 *)
WholeButLast(n) == { k \in done..sent: k = done \/ Start(k + 1) < pos + n }

(* Mutant: a packet is complete with its header.                           *)
WholeByHeader(n) == { k \in done..sent: k = done \/ Start(k) + 4 <= pos + n }

(* Packets of the next n bytes that are complete.                          *)
Whole(n) == { k \in done..sent: Start(k + 1) <= pos + n }

(* el_vendor_command_pre_process up to its own recv: the complete packets  *)
(* are executed, and the start of the next is moved to the front.          *)
VendorCommands(n) ==
    LET k == CHOOSE k \in Whole(n): \A j \in Whole(n): j <= k
        remain_len == pos + n - Start(k + 1)
    IN /\ IF k > done THEN Executed(k, Start(k), packets[k][2]) ELSE UNCHANGED << done, last, is_async >>
       /\ base' = Start(k + 1)
       /\ IF remain_len = 0 THEN Again
          ELSE IF remain_len < 4 THEN pc' = "header" /\ want' = 4 - remain_len
          ELSE pc' = "payload" /\ want' = packets[k + 1][2] - remain_len

(* A recv of data: a vendor command is told by its first byte, anything    *)
(* else is taken for one command.                                          *)
Receive ==
    /\ pc = "recv" /\ pos = Start(done + 1)
    /\ \E n \in Recv(want):
        /\ pos' = pos + n
        /\ IF Kind(done + 1) = "command"
           THEN /\ RestTogether => n = packets[done + 1][2]
                /\ Executed(done + 1, pos, n) /\ base' = pos + n /\ UNCHANGED << pc, want >>
           ELSE VendorCommands(n)
    /\ UNCHANGED << packets, sent >>

(* The second half of el_vendor_command_pre_process: one recv for what     *)
(* misses of the header and one for the payload, each taken for complete.  *)
(* What a header that was cut says is not known: nothing follows it here.  *)
VendorHeader ==
    /\ pc = "header"
    /\ \E n \in Recv(want):
        /\ RestTogether => n = want
        /\ pos' = pos + n
        /\ IF n < want THEN pc' = "misread" /\ UNCHANGED << base, want, is_async, done, last >>
           ELSE IF packets[done + 1][2] = 4
           THEN Executed(done + 1, base, 4) /\ base' = base + 4 /\ Again
           ELSE pc' = "payload" /\ want' = packets[done + 1][2] - 4 /\ UNCHANGED << base, is_async, done, last >>
    /\ UNCHANGED << packets, sent >>

VendorPayload ==
    /\ pc = "payload"
    /\ \E n \in Recv(want):
        /\ RestTogether => n = want
        /\ pos' = pos + n /\ base' = pos + n
        /\ Executed(done + 1, base, pos + n - base) /\ Again
    /\ UNCHANGED << packets, sent >>

(* Mutant: recv for recv_all.                                              *)
AsyncRecvOnce ==
    /\ pc \in { "async header", "async payload" }
    /\ \E n \in Recv(want):
        /\ pos' = pos + n
        /\ IF pc = "async header" /\ packets[done + 1][2] > 4
           THEN pc' = "async payload" /\ want' = packets[done + 1][2] - 4 /\ UNCHANGED << base, is_async, done, last >>
           ELSE Executed(done + 1, base, pos + n - base) /\ base' = pos + n /\ Again
    /\ UNCHANGED << packets, sent >>

(* Within a scope recv_all goes on until header and payload are there.  Of *)
(* an empty payload it returns 0, which el_dap_work takes for the end.     *)
recv_all ==
    /\ pc \in { "async header", "async payload" }
    /\ \E n \in Recv(want):
        /\ pos' = pos + n
        /\ IF n < want THEN want' = want - n /\ UNCHANGED << pc, base, is_async, done, last >>
           ELSE IF pc = "async header"
           THEN /\ pc' = IF packets[done + 1][2] = 4 THEN "ended" ELSE "async payload"
                /\ want' = packets[done + 1][2] - 4 /\ UNCHANGED << base, is_async, done, last >>
           ELSE Executed(done + 1, base, pos + n - base) /\ base' = pos + n /\ Again
    /\ UNCHANGED << packets, sent >>

Next == Send \/ Disconnect \/ Handshake \/ Receive \/ VendorHeader \/ VendorPayload \/ recv_all

Spec == Init /\ [][Next]_vars

----------------------------------------------------------------------------

(* The packet that is awaited begins within what was sent, and what is     *)
(* wanted of it fits the recv.                                             *)
TypeOK ==
    /\ pc \in { "handshake", "recv", "header", "payload", "async header", "async payload", "misread", "closed", "ended" }
    /\ base <= pos /\ pos <= Start(sent + 1) /\ want \in 0..RecvSize
    /\ done <= sent

(* Each packet that is executed is one the host sent, whole and in order,  *)
(* however TCP cuts the packets of a scope.                                *)
PacketsAsSent == done > 0 => last = << Start(done), packets[done][2] >>

(* el_dap_work does not wait for a packet that has come: the host may be   *)
(* waiting for its answer.                                                 *)
NothingKept ==
    pc \in { "recv", "header", "payload", "async header", "async payload" } /\ pos = Start(sent + 1) => done = sent

(* In a scope the packets are told apart by their headers, out of it a     *)
(* command has none: host and probe agree where they wait for each other.  *)
ScopeKnown == pc \in { "recv", "async header" } /\ done = sent /\ sent < Len(packets) => (is_async <=> InScope(sent + 1))

(* The probe and the host agree about the packets of the stream.           *)
PacketsFound == PacketsAsSent /\ NothingKept /\ ScopeKnown

=============================================================================
