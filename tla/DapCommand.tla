----------------------------- MODULE DapCommand -----------------------------
(***************************************************************************)
(* A packet of the debugger holds one command, or a list of them behind    *)
(* ID_DAP_ExecuteCommands.  Nothing marks where a command of a list ends:  *)
(* each handler tells how many bytes it took and how many it answered,     *)
(* packed in one word, and DAP_ExecuteCommand moves its two pointers by    *)
(* them.  Here a command is a record; "bytes" is what the debugger wrote.  *)
(***************************************************************************)
EXTENDS Integers, Sequences

CONSTANT Packets    \* records [ list : Seq(command), atomic : BOOLEAN ]

VARIABLES
    debug_port, count,   \* DAP_Data.debug_port and DAP_Data.jtag_dev.count
    route,               \* "USBIP" or "elaphureLink"
    packet,
    left,                \* cnt, the commands still to be executed
    request, num,        \* bytes taken; the packed sum of the handlers
    answers              \* what was written to the response so far

vars == << debug_port, count, route, packet, left, request, num, answers >>

Half == 65536
Pack(taken, given) == taken * Half + given
Taken(n) == n \div Half
Given(n) == n % Half
Sum(s) ==
    LET upto[n \in 0..Len(s)] == IF n = 0 THEN 0 ELSE upto[n - 1] + s[n] IN upto[Len(s)]

(* Where the debugger put command i of the list                            *)
Start(i) == (IF packet.atomic THEN 2 ELSE 0)
              + Sum([ j \in 1..(i - 1) |-> packet.list[j].bytes ])
Here == { i \in DOMAIN packet.list : Start(i) = request }

----------------------------------------------------------------------------

(* Bytes of a sequence of so many clocks, 0 meaning 64                     *)
SequenceBytes(clocks) == ((IF clocks = 0 THEN 64 ELSE clocks) + 7) \div 8

(* A text, two bytes of capabilities, ..., or nothing for what is not      *)
(* known or not built in.                                                  *)
DAP_Info(c) == CASE c.info = "PRODUCT" -> 13
                 [] c.info \in { "CAPABILITIES", "PACKET_SIZE" } -> 2
                 [] c.info = "PACKET_COUNT" -> 1
                 [] OTHER -> 0

(* The handlers: bytes taken and given after the command's own byte.       *)
DAP_HostStatus(c) == Pack(2, 1)
DAP_Delay(c) == Pack(2, 1)

DAP_SWJ_Sequence(c) ==
    LET clocks == IF c.clocks % 256 = 0 THEN 256 ELSE c.clocks IN
    Pack((clocks + 7) \div 8 + 1, 1)

(* Mutant: bytes are taken for the captured sequences too. *)
SWD_SequenceAllTaken(c) ==
    Pack(1 + Sum([ j \in DOMAIN c.seqs |-> 1 + SequenceBytes(c.seqs[j].clocks) ]),
         1 + Sum([ j \in DOMAIN c.seqs |->
                   IF c.seqs[j].capture THEN SequenceBytes(c.seqs[j].clocks) ELSE 0 ]))

(* A sequence is either sent or captured.                                  *)
DAP_SWD_Sequence(c) ==
    LET size(j) == SequenceBytes(c.seqs[j].clocks) IN
    Pack(1 + Sum([ j \in DOMAIN c.seqs |-> IF c.seqs[j].capture THEN 1 ELSE 1 + size(j) ]),
         1 + Sum([ j \in DOMAIN c.seqs |-> IF c.seqs[j].capture THEN size(j) ELSE 0 ]))

(* Mutant: what is not captured is answered too. *)
JTAG_SequenceAllGiven(c) ==
    LET all == Sum([ j \in DOMAIN c.seqs |-> SequenceBytes(c.seqs[j].clocks) ]) IN
    Pack(1 + Len(c.seqs) + all, 1 + all)

(* A sequence is sent and may be captured.                                 *)
DAP_JTAG_Sequence(c) ==
    LET size(j) == SequenceBytes(c.seqs[j].clocks) IN
    Pack(1 + Sum([ j \in DOMAIN c.seqs |-> 1 + size(j) ]),
         1 + Sum([ j \in DOMAIN c.seqs |-> IF c.seqs[j].capture THEN size(j) ELSE 0 ]))

DAP_JTAG_Configure(c) == Pack(c.count + 1, 1)

DAP_JTAG_IDCode(c) ==
    IF debug_port = "JTAG" /\ c.device < count THEN Pack(1, 5) ELSE Pack(1, 1)

(* A list of transfers that went through, but for the read that was posted *)
(* last or the check of the last write.  Without a port all that is done   *)
(* is to find the end of the requests; a JTAG device that is not there is  *)
(* found out before that.                                                  *)
NoDevice(c) == debug_port = "JTAG" /\ c.device >= count
RequestBytes(c) == 2 + c.reads + 5 * c.writes
DAP_Transfer(c) ==
    CASE debug_port = "DISABLED" -> { Pack(RequestBytes(c), 2) }
      [] NoDevice(c) -> { Pack(1, 2) }
      [] OTHER -> { Pack(RequestBytes(c), 2 + 4 * n) : n \in { c.reads - 1, c.reads } \ { -1 } }

(* A list that fails at a request, or is aborted after it, after any of    *)
(* its reads: that request is still counted among those to be skipped, so  *)
(* that the byte after the list passes for one, with data or without; and  *)
(* where the read before a request with data fails, the data pass for      *)
(* requests.  No length that comes of this is the right one.               *)
DAP_TransferFailed(c) ==
    LET off == { 0, 1 } \cup
               IF c.reads > 0 /\ c.writes > 0 THEN -c.writes..c.reads - 1 ELSE {}
    IN IF debug_port = "DISABLED" \/ NoDevice(c) \/ c.reads + c.writes = 0 THEN {}
       ELSE { Pack(RequestBytes(c) + 1 + 4 * x, 2 + 4 * n) : x \in off, n \in 0..c.reads }

DAP_TransferBlock(c) ==
    IF debug_port = "DISABLED" \/ NoDevice(c)
    THEN { Pack(4 + 4 * c.writes, 3) }
    ELSE { Pack(4 + 4 * c.writes, 3 + 4 * n) : n \in 0..c.reads }

DAP_WriteAbort(c) == Pack(5, 1)

(* Vendor commands are answered with their own byte; Vendor8 is the one of *)
(* elaphureLink, and tells only what it answers.                           *)
el_vendor_command(c) == CASE c.type \in { "ENTER", "EXIT" } -> Pack(0, 4)
                          [] c.type = "PASSTHROUGH" -> Pack(0, 4 + c.inner)
                          [] OTHER -> 0
DAP_ProcessVendorCommand(c) ==
    IF c.id = "Vendor8" THEN el_vendor_command(c) ELSE Pack(1, 1)

(* SWJ_Pins, SWJ_Clock, Connect, ...: always the same                      *)
Simple == [ Connect |-> Pack(1, 1), Disconnect |-> Pack(0, 1), ResetTarget |-> Pack(0, 2),
            SWJ_Pins |-> Pack(6, 1), SWJ_Clock |-> Pack(4, 1), SWD_Configure |-> Pack(1, 1),
            TransferConfigure |-> Pack(5, 1) ]

(* Which numbers the handler of command c may return, if it is not a list  *)
(* of transfers that fails                                                 *)
DAP_ProcessCommand(c) ==
    CASE c.id \in { "Vendor0", "Vendor8" } -> { DAP_ProcessVendorCommand(c) }
      [] c.id = "Info" -> { Pack(2, 2 + DAP_Info(c)) }
      [] c.id \in { "Unknown", "ExecuteCommands" } -> { Pack(1, 1) }
      [] OTHER -> { Pack(1, 1) + n : n \in
           CASE c.id = "HostStatus" -> { DAP_HostStatus(c) }
             [] c.id = "Delay" -> { DAP_Delay(c) }
             [] c.id = "SWJ_Sequence" -> { DAP_SWJ_Sequence(c) }
             [] c.id = "SWD_Sequence" -> { DAP_SWD_Sequence(c) }
             [] c.id = "JTAG_Sequence" -> { DAP_JTAG_Sequence(c) }
             [] c.id = "JTAG_Configure" -> { DAP_JTAG_Configure(c) }
             [] c.id = "JTAG_IDCODE" -> { DAP_JTAG_IDCode(c) }
             [] c.id = "Transfer" -> DAP_Transfer(c)
             [] c.id = "TransferBlock" -> DAP_TransferBlock(c)
             [] c.id = "WriteABORT" -> { DAP_WriteAbort(c) }
             [] OTHER -> { Simple[c.id] } }

(* What a debugger writes: each command as long as the protocol has it,    *)
(* and neither it nor its answer longer than a packet; a list so short     *)
(* that the halves of the sum do not run over.                             *)
DAP_PACKET_SIZE == 512
Fixed == [ Info |-> 2, HostStatus |-> 3, Delay |-> 3, Connect |-> 2, Disconnect |-> 1,
           ResetTarget |-> 1, SWJ_Pins |-> 7, SWJ_Clock |-> 5, SWD_Configure |-> 2,
           TransferConfigure |-> 6, WriteABORT |-> 6, JTAG_IDCODE |-> 2, Vendor0 |-> 1 ]

(* The bytes of the sequences of c that are captured, and of those that    *)
(* are only sent.                                                          *)
Captured(c) ==
    Sum([ j \in DOMAIN c.seqs |->
            IF c.seqs[j].capture THEN SequenceBytes(c.seqs[j].clocks) ELSE 0 ])
OnlySent(c) ==
    Sum([ j \in DOMAIN c.seqs |->
            IF c.seqs[j].capture THEN 0 ELSE SequenceBytes(c.seqs[j].clocks) ])
Sequenced(c) ==
    /\ c.seqs \in Seq([ clocks : 0..64, capture : BOOLEAN ])
    /\ c.captured = Captured(c) /\ 2 + c.captured <= DAP_PACKET_SIZE
(* Reads with a match value have data, like writes, and no answer; no      *)
(* timestamps are asked for.                                               *)
Transferred(c) ==
    c.reads \in Nat /\ c.writes \in Nat /\ c.device \in Nat /\ 4 + 4 * c.reads <= DAP_PACKET_SIZE

Written(c) ==
    \/ /\ c.id \in DOMAIN Fixed /\ c.bytes = Fixed[c.id]
       /\ c.id = "Connect" => c.port \in { "SWD", "JTAG" }
       /\ c.id = "JTAG_IDCODE" => c.device \in Nat
    \/ c.id = "SWJ_Sequence" /\ c.clocks \in 1..256 /\ c.bytes = 2 + (c.clocks + 7) \div 8
    \/ c.id = "JTAG_Configure" /\ c.count \in 0..8 /\ c.bytes = 2 + c.count
    \/ c.id = "SWD_Sequence" /\ Sequenced(c) /\ c.bytes = 2 + Len(c.seqs) + OnlySent(c)
    \/ /\ c.id = "JTAG_Sequence" /\ Sequenced(c)
       /\ c.bytes = 2 + Len(c.seqs) + OnlySent(c) + c.captured
    \/ c.id = "Transfer" /\ Transferred(c) /\ c.bytes = 3 + c.reads + 5 * c.writes
    \/ c.id = "TransferBlock" /\ Transferred(c) /\ c.bytes = 5 + 4 * c.writes
    \/ c.id = "Unknown"
    \/ c.id = "Vendor8" /\ c.inner \in 0..DAP_PACKET_SIZE - 4

CommandAssumption ==
    \A p \in Packets :
        /\ p.atomic \in BOOLEAN
        /\ DOMAIN p.list = 1..Len(p.list) /\ Len(p.list) \in 1..(Half \div DAP_PACKET_SIZE) - 1
        /\ \A i \in DOMAIN p.list : Written(p.list[i]) /\ p.list[i].bytes \in 1..DAP_PACKET_SIZE

(* Connect, Disconnect and JTAG_Configure leave their mark on DAP_Data.    *)
Effect(c) ==
    /\ debug_port' = CASE c.id = "Connect" -> c.port
                       [] c.id = "Disconnect" -> "DISABLED"
                       [] OTHER -> debug_port
    /\ count' = IF c.id = "JTAG_Configure" THEN c.count ELSE count

(* Commands whose length the program cannot tell, or does not              *)
Opaque(c) ==
    \/ c.id \in { "Unknown", "Vendor8" }
    \/ c.id = "Transfer" /\ NoDevice(c)

Answer(c, n, opaque) ==
    [ opaque |-> opaque, id |-> IF c.id \in { "Unknown", "ExecuteCommands" } THEN "Invalid" ELSE c.id,
      at |-> Given(num), len |-> Given(n) ]

----------------------------------------------------------------------------

Idle == left = 0
InList == packet.atomic /\ route = "elaphureLink"

(* DAP_Thread gives what it gets to DAP_ProcessCommand, el_dap_data_process *)
(* to DAP_ExecuteCommand.                                                   *)
Receive ==
    /\ Idle /\ answers = << >>
    /\ \E p \in Packets, r \in { "USBIP", "elaphureLink" } :
         /\ packet' = p /\ route' = r
         /\ IF p.atomic /\ r = "elaphureLink"
            THEN left' = Len(p.list) /\ request' = 2 /\ num' = Pack(2, 2)
            ELSE left' = 1 /\ request' = 0 /\ num' = 0
    /\ UNCHANGED << debug_port, count, answers >>

None == [ list |-> << >>, atomic |-> FALSE ]

(* The response goes out, its length the lower half of the sum.            *)
Reply ==
    /\ Idle /\ answers # << >>
    /\ packet' = None /\ route' = "USBIP"
    /\ request' = 0 /\ num' = 0 /\ answers' = << >>
    /\ UNCHANGED << debug_port, count, left >>

(* Not a list, or not known to be one                                      *)
First == IF packet.atomic THEN [ id |-> "ExecuteCommands" ] ELSE packet.list[1]

(* What a handler returned moves the pointers, and is added up.            *)
Executed(c, n, opaque) ==
    /\ num' = num + n /\ request' = request + Taken(n)
    /\ answers' = Append(answers, Answer(c, n, opaque))
    /\ Effect(c)

(* Mutant: the pointers are moved by the sum. *)
DAP_ExecuteCommandSum(c) ==
    \E n \in DAP_ProcessCommand(c) :
        /\ num' = num + n /\ request' = request + Taken(num')
        /\ answers' = Append(answers, Answer(c, n, Opaque(c)))
        /\ Effect(c)

DAP_ExecuteCommand(c) ==
    \/ \E n \in DAP_ProcessCommand(c) : Executed(c, n, Opaque(c))
    \/ c.id = "Transfer" /\ \E n \in DAP_TransferFailed(c) : Executed(c, Pack(1, 1) + n, TRUE)

Execute ==
    /\ left > 0
    /\ IF InList THEN \E i \in Here : DAP_ExecuteCommand(packet.list[i])
                 ELSE DAP_ExecuteCommand(First)
    /\ left' = left - 1
    /\ UNCHANGED << route, packet >>

(* Out of step: what the program executes now is not what was sent, and    *)
(* is not followed any further.                                            *)
Misread ==
    /\ left > 0 /\ InList /\ Here = {}
    /\ left' = 0
    /\ UNCHANGED << debug_port, count, route, packet, request, num, answers >>

Init ==
    /\ debug_port = "DISABLED" /\ count = 0 /\ route = "USBIP"
    /\ packet = None
    /\ left = 0 /\ request = 0 /\ num = 0 /\ answers = << >>

Next == Receive \/ Reply \/ Execute \/ Misread

Spec == Init /\ [][Next]_vars

----------------------------------------------------------------------------

(* Every variable has its type, and the sum has carried over what the      *)
(* pointer of the request was moved by.                                    *)
TypeOK ==
    /\ debug_port \in { "DISABLED", "SWD", "JTAG" } /\ count \in 0..8
    /\ packet \in Packets \cup { None } /\ left \in 0..Len(packet.list)
    /\ request \in Nat /\ num \in Nat /\ Taken(num) = request /\ request < Half
    /\ Len(answers) <= Len(packet.list)

(* The length of each command so far was told, and no list of transfers    *)
(* has failed.                                                             *)
Clear == \A i \in DOMAIN answers : ~answers[i].opaque

(* Each command of a list is executed once, in order and from its first    *)
(* byte on, whatever sequences, transfers without a port and refused       *)
(* commands came before; and its answer starts where the one before ends.  *)
(* So it is until a command of unknown length, or a list of transfers that *)
(* fails before its end: from there on debugger and probe are out of step. *)
InStep ==
    InList /\ Clear =>
        /\ request = Start(Len(answers) + 1)
        /\ \A i \in DOMAIN answers :
             /\ answers[i].id = packet.list[i].id
             /\ answers[i].at = 2 + Sum([ j \in 1..(i - 1) |-> answers[j].len ])

(* The length of an answer as the debugger expects it from the command:    *)
(* captured bits and words for what was captured and read, and no more.    *)
Expected(c) ==
    CASE c.id \in { "SWD_Sequence", "JTAG_Sequence" } -> { 2 + c.captured }
      [] c.id = "Transfer" -> { 3 + 4 * n : n \in 0..c.reads }
      [] c.id = "TransferBlock" -> { 4 + 4 * n : n \in 0..c.reads }
      [] c.id = "JTAG_IDCODE" -> { 2, 6 }
      [] c.id = "ResetTarget" -> { 3 }
      [] OTHER -> { 2 }

(* A debugger that takes the answers of a list apart finds each of them    *)
(* as long as the protocol says, so that it never reads one for another.   *)
AnswersReadable ==
    InList /\ Clear => \A i \in DOMAIN answers :
        packet.list[i].id \in { "Info", "Vendor0" }
            \/ answers[i].len \in Expected(packet.list[i])

(* Debugger and probe take a list and its answers apart at the same places, *)
(* as long as no list of transfers in it has failed.                        *)
ListInStep == InStep /\ AnswersReadable

=============================================================================
