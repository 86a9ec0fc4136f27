---------------------------- MODULE TransferBlock ----------------------------
(***************************************************************************)
(* DAP_TransferBlock: one register read or written request_count times.    *)
(* The register of a block is typically the data register of a memory      *)
(* access port, where every access has an effect and moves the address:    *)
(* accesses are numbered as the target accepts them.                       *)
(***************************************************************************)
EXTENDS Integers, Sequences

CONSTANTS MaxCount,    \* bound on request_count
          RetryCount,  \* DAP_Data.transfer.retry_count
          Ports        \* the values of DAP_Data.debug_port

BlockAssumption ==
    MaxCount \in Nat /\ RetryCount \in Nat /\ Ports \subseteq {"DISABLED", "SWD", "JTAG"}

VARIABLES
    debug_port, rnw, ap, words,   \* the command
    phase,            \* "post", "read", "write", "check" or where it stands
    request_count,    \* words still to be transferred
    ir,               \* JTAG: the instruction of the device
    retry, response, response_count, response_value,
    accesses,         \* target: accesses to the register
    posted,           \* target: the access whose value comes next
    unchecked         \* target: a write was accepted, and no packet since

command == << debug_port, rnw, ap, words >>
target == << accesses, posted, unchecked >>
vars == << command, phase, request_count, ir, retry, response, response_count,
           response_value, target >>

Jtag == debug_port = "JTAG"
(* Mutant: DP reads are not posted. *)
PostsApOnly == ap

(* Reads that are posted: SWD answers a DP read at once *)
Posts == ap \/ Jtag

(* The instruction the register needs *)
IrOf == IF ap THEN "APACC" ELSE "DPACC"

(* Mutant: the last word is read from the register too. *)
RdbuffNever == phase = "check"

(* The last word of a posted block, and the check of the last write        *)
Rdbuff == phase = "check" \/ (phase = "read" /\ Posts /\ request_count = 1)

Ack == {"OK", "WAIT", "FAULT", "PARITY", "NOACK"}

(* The target takes a packet; a read by SWD that is not posted answers at  *)
(* once, all others answer with the value of the one before.               *)
Accept(a, bank) ==
    LET register == ~Rdbuff /\ (Jtag => bank = IrOf) IN
    IF a \notin {"OK", "PARITY"} THEN UNCHANGED target
    ELSE /\ accesses' = IF register THEN accesses + 1 ELSE accesses
         /\ posted' = IF register /\ phase # "write" THEN accesses' ELSE posted
         /\ unchecked' = (phase = "write")

Value == IF ap \/ Jtag THEN posted ELSE posted'

GotoEnd(a) ==
    /\ phase' = "done" /\ response_value' = a
    /\ UNCHANGED << request_count, retry, response, response_count >>

(* Mutant: the word counts although its transfer failed. *)
GotoEndCounting(a) ==
    /\ phase' = "done" /\ response_value' = a /\ response_count' = response_count + 1
    /\ UNCHANGED << request_count, retry, response >>

(* A failed word is not counted *)
Failed(a) == GotoEnd(a)

Stored(next) ==
    /\ request_count' = request_count - 1
    /\ response_count' = response_count + 1
    /\ phase' = IF request_count' > 0 THEN phase ELSE next
    /\ retry' = RetryCount /\ response_value' = "OK"

(* Mutant: the last write is not checked. *)
AfterWritesDone == "done"

AfterWrites == "check"

Completed ==
    \/ /\ phase = "post" /\ phase' = "read"
       /\ retry' = RetryCount /\ response_value' = "OK"
       /\ UNCHANGED << request_count, response, response_count >>
    \/ /\ phase = "read" /\ response' = Append(response, Value)
       /\ Stored("done")
    \/ /\ phase = "write" /\ UNCHANGED response
       /\ Stored(AfterWrites)
    \/ /\ phase = "check" /\ GotoEnd("OK")

(* Mutant: one try too many. *)
AgainLate(a) == a = "WAIT" /\ retry >= 0

Again(a) == a = "WAIT" /\ retry > 0

(* One packet of a do-while loop over WAIT.  JTAG selects DPACC before the *)
(* RDBUFF reads.                                                           *)
Packet(a) ==
    /\ phase \in {"post", "read", "write", "check"}
    /\ a = "PARITY" => phase # "write" /\ ~Jtag
    /\ ir' = IF Jtag /\ Rdbuff THEN "DPACC" ELSE ir
    /\ Accept(a, ir')
    /\ IF Again(a)
       THEN /\ retry' = retry - 1
            /\ UNCHANGED << phase, request_count, response, response_count, response_value >>
       ELSE IF a # "OK" THEN Failed(a) ELSE Completed
    /\ UNCHANGED command

(* The command arrives: without a port, without a device at this index and *)
(* without words there is nothing to do.                                   *)
DAP_TransferBlock ==
    /\ phase = "start"
    /\ \/ /\ debug_port # "DISABLED" /\ words > 0
          /\ phase' = IF ~rnw THEN "write" ELSE IF Posts THEN "post" ELSE "read"
          /\ ir' = IF Jtag THEN IrOf ELSE ir
       \/ /\ debug_port = "SWD" => words = 0
          /\ phase' = "done" /\ UNCHANGED ir
    /\ UNCHANGED << command, request_count, retry, response, response_count,
                    response_value, target >>

Init ==
    /\ debug_port \in Ports /\ rnw \in BOOLEAN /\ ap \in BOOLEAN /\ words \in 0..MaxCount
    /\ phase = "start" /\ request_count = words /\ retry = RetryCount
    /\ ir = "NONE"
    /\ response = << >> /\ response_count = 0 /\ response_value = "NONE"
    /\ accesses = 0 /\ posted = 0 /\ unchecked = FALSE

Answered == phase = "done" /\ UNCHANGED vars

Next == DAP_TransferBlock \/ (\E a \in Ack : Packet(a)) \/ Answered

Spec == Init /\ [][Next]_vars

----------------------------------------------------------------------------

(* Every variable has its type. *)
TypeOK ==
    /\ debug_port \in Ports /\ rnw \in BOOLEAN /\ ap \in BOOLEAN /\ words \in 0..MaxCount
    /\ phase \in {"start", "post", "read", "write", "check", "done"}
    /\ request_count \in 0..MaxCount /\ retry \in 0..RetryCount
    /\ ir \in {"NONE", "APACC", "DPACC"}
    /\ response \in Seq(Nat) /\ response_count \in Nat /\ response_value \in Ack \cup {"NONE"}
    /\ accesses \in Nat /\ posted \in Nat /\ unchecked \in BOOLEAN

(* The words of a read block are those of the first accesses, in order;    *)
(* posting, retries and the switch to RDBUFF neither lose nor repeat one.  *)
BlockInOrder == \A i \in 1..Len(response) : response[i] = i

(* Reading ahead never goes past the block: the register is not accessed   *)
(* more often than the command says, so that the address of the next block *)
(* is the one the debugger expects.                                        *)
NoAccessBeyond == accesses <= words

(* OK is answered only when every word was transferred and, for writes,    *)
(* the target answered once more after the last one.                       *)
BlockComplete ==
    phase = "done" /\ response_value = "OK" =>
        /\ accesses = words /\ response_count = words
        /\ Len(response) = IF rnw THEN words ELSE 0
        /\ ~unchecked

(* The count of a failed block is what the debugger resumes from: the      *)
(* words written, or the words in the response.                            *)
BlockCount == response_count = IF rnw THEN Len(response) ELSE accesses

(* What is answered to a block is true, and the target is where the        *)
(* debugger thinks.                                                        *)
BlockTrue == BlockInOrder /\ NoAccessBeyond /\ BlockComplete /\ BlockCount

==============================================================================
