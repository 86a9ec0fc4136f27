----------------------------- MODULE DapTransfer -----------------------------
(***************************************************************************)
(* DAP_Transfer: one request list, carried out by DAP_SWD_Transfer() or    *)
(* DAP_JTAG_Transfer() with one transfer on the wire after another.        *)
(*                                                                         *)
(* A register value is known by the number of the request that read it.    *)
(* The target answers each packet as it likes.                             *)
(***************************************************************************)
EXTENDS Integers, Sequences, FiniteSets, SequencesExt

CONSTANTS
    Requests,      \* the transfer requests a list is made of
    MaxRequests,   \* bound on the length of a list
    RetryCount,    \* DAP_Data.transfer.retry_count
    MatchRetry,    \* DAP_Data.transfer.match_retry
    Ports          \* the values of DAP_Data.debug_port

(* DAP_TRANSFER_RnW, APnDP, MATCH_VALUE, MATCH_MASK and TIMESTAMP          *)
Request == [rnw: BOOLEAN, ap: BOOLEAN, match: BOOLEAN, mask: BOOLEAN, ts: BOOLEAN]

TransferAssumption ==
    /\ Requests \subseteq Request
    /\ MaxRequests \in Nat /\ RetryCount \in Nat /\ MatchRetry \in Nat
    /\ Ports \subseteq {"DISABLED", "SWD", "JTAG"}

VARIABLES
    list,          \* the requests of the command
    debug_port,
    phase,         \* the call of SWD_Transfer() that is next, or the loop
    done,          \* the requests completed by the main loop
    request,       \* request - request_head
    response,      \* what was stored: <<"d" or "t", request>>
    response_count, response_value, mismatch,
    request_count, \* of the loop over the canceled requests
    retry, match_retry, post_read, check_write, data, timestamp, match_mask,
    ir,            \* the instruction DAP_JTAG_Transfer() selected last
    posted,        \* target: the read whose value comes next, 0 for another
    log,           \* target: the writes it accepted
    unchecked      \* target: a write was accepted, and no packet since

loop == << done, request, response_count, post_read, check_write >>
given == << list, debug_port >>
target == << posted, log, unchecked >>
vars == << given, phase, ir, loop, response, response_value, mismatch,
           request_count, retry, match_retry, data, timestamp, match_mask, target >>

Wire == {"prev_post", "prev", "post_match", "match", "post", "dp", "write", "last", "check"}

Cur == list[done + 1]
Jtag == debug_port = "JTAG"
IrOf(r) == IF r.ap THEN "APACC" ELSE "DPACC"
Normal(r) == r.rnw /\ ~r.match
HasData(r) == r.rnw => r.match            \* four bytes follow the request

(* The bytes of the command: a request byte <<r>>, data bytes <<>> *)
Bytes == FlattenSeq([i \in 1..Len(list) |->
            << << list[i] >> >> \o IF HasData(list[i]) THEN [b \in 1..4 |-> << >>] ELSE << >>])

----------------------------------------------------------------------------

(* The part of an iteration that follows the fetch of a posted value: SWD  *)
(* posts AP reads, JTAG posts them all.                                    *)
Body(r) ==
    IF r.rnw THEN IF r.match THEN IF r.ap \/ Jtag THEN "post_match" ELSE "match"
                  ELSE IF r.ap \/ Jtag THEN "post" ELSE "dp"
    ELSE IF r.mask THEN "mask" ELSE "write"

(* Mutant: the instruction of the posted read is not compared. *)
ChainsAny(r) == r.rnw /\ ~r.match /\ (Jtag \/ r.ap)

(* A read that can fetch the posted value itself *)
Chains(r) == r.rnw /\ ~r.match /\ IF Jtag THEN ir' = IrOf(r) ELSE r.ap

(* The first call an iteration makes *)
First(r, posted_read) ==
    IF ~posted_read THEN Body(r) ELSE IF Chains(r) THEN "prev_post" ELSE "prev"

(* Mutant: the last write is not checked. *)
FinishUnchecked(posted_read, checked) == IF posted_read THEN "last" ELSE "done"

(* Mutant: the last posted read is not fetched. *)
FinishPosted(posted_read, checked) == IF checked \/ Jtag THEN "check" ELSE "done"

(* What follows the loop when the list succeeded *)
Finish(posted_read, checked) ==
    IF posted_read THEN "last" ELSE IF checked \/ Jtag THEN "check" ELSE "done"

(* The data or the match value is taken from the request with the body *)
Taken(p, r) == IF p = Body(r) /\ HasData(r) THEN 4 ELSE 0

(* The request is complete: response_count++, the loop goes on or ends *)
NextRequest(posted_read, checked) ==
    /\ done' = done + 1 /\ response_count' = response_count + 1
    /\ post_read' = posted_read /\ check_write' = checked
    /\ IF done' = Len(list)
       THEN /\ phase' = Finish(posted_read, checked) /\ request' = request
       ELSE LET r == list[done' + 1] IN
            /\ phase' = First(r, posted_read)
            /\ request' = request + 1 + Taken(phase', r)
    /\ retry' = RetryCount /\ match_retry' = MatchRetry
    /\ UNCHANGED request_count

(* Another call of the same request, which may take its data only now *)
Goto(p) ==
    /\ phase' = p /\ retry' = RetryCount
    /\ request' = request + IF phase = "prev" THEN Taken(p, Cur) ELSE 0
    /\ post_read' = (post_read /\ phase # "prev")
    /\ UNCHANGED << done, response_count, check_write, match_retry, request_count >>

(* break: the current request is still in the count of the second loop *)
Break ==
    /\ phase' = "cancel" /\ request_count' = Len(list) - done
    /\ UNCHANGED << loop, retry, match_retry >>

End ==
    /\ phase' = "done"
    /\ UNCHANGED << loop, request_count, retry, match_retry >>

----------------------------------------------------------------------------
(* The wire: what the packet request of a phase asks, and what it returns *)

Rdbuff == phase \in {"prev", "last", "check"}
Sent == IF Rdbuff THEN [rnw |-> TRUE, ap |-> FALSE, match |-> FALSE, mask |-> FALSE, ts |-> FALSE]
        ELSE Cur

(* JTAG_IR() is called when the instruction differs from the one selected  *)
Selected == IF ~Jtag \/ phase = "prev_post" THEN ir ELSE IrOf(Sent)

(* OK, WAIT, FAULT, PARITY: the data arrived damaged, NOACK: no answer *)
Ack == {"OK", "WAIT", "FAULT", "PARITY", "NOACK"}

(* The access of request done + 1, 0 when it is another register's.        *)
Accessed == IF Rdbuff \/ (Jtag /\ Selected # IrOf(Sent)) THEN 0 ELSE done + 1

Target(a) ==
    LET accepted == a \in {"OK", "PARITY"} IN
    /\ posted' = IF ~accepted THEN posted
                 ELSE IF Jtag THEN IF Sent.rnw THEN Accessed ELSE 0
                 ELSE IF Sent.ap /\ Sent.rnw THEN Accessed ELSE posted
    /\ log' = IF accepted /\ ~Sent.rnw THEN Append(log, Accessed) ELSE log
    /\ unchecked' = IF accepted THEN ~Sent.rnw ELSE unchecked

(* The value a read returns: JTAG and AP reads return the posted one *)
Value == IF Rdbuff \/ Sent.ap \/ Jtag THEN posted ELSE Accessed

(* *data is written when the data phase took place, unless data is NULL.   *)
(* For a match read only the outcome of the comparison is of interest.     *)
Receives(a) == a \in {"OK", "PARITY"} /\ Sent.rnw /\ phase \notin {"post", "post_match", "check"}

----------------------------------------------------------------------------

Stamp(r, n) == IF r.ts THEN << << "t", n >> >> ELSE << >>

(* Mutant: the list goes on after a failed request. *)
FailsOn(a) ==
    /\ response_value' = a /\ UNCHANGED << response, mismatch >>
    /\ IF phase \in {"last", "check"} THEN End ELSE NextRequest(post_read, check_write)

(* ack # OK after the retries: nothing is stored.  A match read that fails *)
(* compares what data holds with match_value all the same.                 *)
Fails(a) ==
    /\ response_value' = a
    /\ mismatch' \in IF phase = "match" THEN BOOLEAN ELSE {mismatch}
    /\ IF phase \in {"last", "check"} THEN End ELSE Break
    /\ UNCHANGED response

Succeeds(value, stamp) ==
    /\ response_value' = "OK"
    /\ \/ /\ phase = "prev_post"
          /\ response' = response \o << << "d", value >> >> \o Stamp(Cur, stamp)
          /\ NextRequest(TRUE, FALSE) /\ UNCHANGED mismatch
       \/ /\ phase = "prev"
          /\ response' = Append(response, << "d", value >>)
          /\ Goto(Body(Cur)) /\ UNCHANGED mismatch
       \/ /\ phase = "post_match" /\ Goto("match") /\ UNCHANGED << response, mismatch >>
       \/ /\ phase = "match" /\ UNCHANGED response
          /\ \/ NextRequest(post_read, FALSE) /\ UNCHANGED mismatch
             \/ match_retry > 0 /\ phase' = "match" /\ match_retry' = match_retry - 1
                /\ retry' = RetryCount
                /\ UNCHANGED << loop, request_count, mismatch >>
             \/ match_retry = 0 /\ mismatch' = TRUE /\ Break
       \/ /\ phase = "post"
          /\ response' = response \o Stamp(Cur, stamp)
          /\ NextRequest(TRUE, FALSE) /\ UNCHANGED mismatch
       \/ /\ phase = "dp"
          /\ response' = response \o Stamp(Cur, stamp) \o << << "d", value >> >>
          /\ NextRequest(post_read, FALSE) /\ UNCHANGED mismatch
       \/ /\ phase = "write"
          /\ response' = response \o Stamp(Cur, stamp)
          /\ NextRequest(post_read, TRUE) /\ UNCHANGED mismatch
       \/ /\ phase = "last"
          /\ response' = Append(response, << "d", value >>)
          /\ End /\ UNCHANGED mismatch
       \/ /\ phase = "check" /\ End /\ UNCHANGED << response, mismatch >>

(* Mutant: one try too many. *)
AgainLate(a) == a = "WAIT" /\ retry >= 0

(* while ((response_value == DAP_TRANSFER_WAIT) && retry-- && !DAP_TransferAbort), *)
(* and DAP_TransferAbort is never set in this program.                     *)
Again(a) == a = "WAIT" /\ retry > 0

(* One call of SWD_Transfer() or JTAG_Transfer() in a do-while over WAIT *)
Packet(a) ==
    /\ phase \in Wire
    /\ a = "PARITY" => Sent.rnw /\ ~Jtag
    /\ ir' = Selected
    /\ Target(a)
    /\ data' = IF Receives(a) THEN Value ELSE data
    /\ timestamp' = IF (a = "OK" \/ Jtag) /\ Sent.ts THEN done + 1 ELSE timestamp
    /\ IF Again(a)
       THEN /\ retry' = retry - 1
            /\ UNCHANGED << phase, loop, response, response_value, mismatch,
                            request_count, match_retry >>
       ELSE IF a # "OK" THEN Fails(a) ELSE Succeeds(data', timestamp')
    /\ UNCHANGED << given, match_mask >>

(* A write of the match mask stays in the probe *)
WriteMask ==
    /\ phase = "mask"
    /\ match_mask' = done + 1 /\ response_value' = "OK"
    /\ NextRequest(post_read, check_write)
    /\ UNCHANGED << given, ir, response, mismatch, data, timestamp, target >>

(* Process canceled requests: whatever byte is next is taken for a request *)
CanceledRequest ==
    /\ phase = "cancel"
    /\ IF request_count = 0
       THEN phase' = "done" /\ UNCHANGED << request, request_count >>
       ELSE /\ request_count' = request_count - 1
            /\ LET at == request - 1 IN
               request' \in IF at <= Len(Bytes) /\ Bytes[at] # << >>
                            THEN {request + IF HasData(Bytes[at][1]) THEN 5 ELSE 1}
                            ELSE {request + 1, request + 5}
            /\ UNCHANGED phase
    /\ UNCHANGED << given, ir, done, response_count, post_read, check_write, response,
                    response_value, mismatch, retry, match_retry, data, timestamp,
                    match_mask, target >>

(* The command arrives *)
Begin ==
    /\ phase = "start" /\ debug_port \in {"SWD", "JTAG"}
    /\ IF list = << >> THEN phase' = "done" /\ request' = 2
       ELSE phase' = Body(list[1]) /\ request' = 3 + Taken(phase', list[1])
    /\ UNCHANGED << done, response_count, post_read, check_write >>

(* JTAG: an index that is not below jtag_dev.count *)
NoDevice ==
    /\ phase = "start" /\ Jtag
    /\ phase' = "done" /\ request' = 1
    /\ UNCHANGED << done, response_count, post_read, check_write >>

(* No port: the requests are skipped *)
DAP_Dummy_Transfer ==
    /\ phase = "start" /\ debug_port = "DISABLED"
    /\ phase' = "done" /\ request' = 2 + Len(Bytes)
    /\ UNCHANGED << done, response_count, post_read, check_write >>

DAP_Transfer ==
    /\ Begin \/ NoDevice \/ DAP_Dummy_Transfer
    /\ UNCHANGED << given, ir, response, response_value, mismatch, request_count, retry,
                    match_retry, data, timestamp, match_mask, target >>

Init ==
    /\ list \in BoundedSeq(Requests, MaxRequests) /\ debug_port \in Ports
    /\ phase = "start" /\ done = 0 /\ request = 0 /\ request_count = 0
    /\ response = << >> /\ response_count = 0 /\ response_value = "NONE" /\ mismatch = FALSE
    /\ retry = RetryCount /\ match_retry = MatchRetry
    /\ post_read = FALSE /\ check_write = FALSE
    /\ data = 0 /\ timestamp = 0 /\ match_mask = 0
    /\ ir = "NONE" /\ posted = 0 /\ log = << >> /\ unchecked = FALSE

Answered == phase = "done" /\ UNCHANGED vars

Next ==
    \/ DAP_Transfer
    \/ \E a \in Ack : Packet(a)
    \/ WriteMask \/ CanceledRequest
    \/ Answered

Spec == Init /\ [][Next]_vars

----------------------------------------------------------------------------

(* Every variable has its type. *)
TypeOK ==
    /\ list \in Seq(Requests) /\ debug_port \in Ports
    /\ phase \in Wire \cup {"start", "mask", "cancel", "done"}
    /\ done \in Nat /\ request \in Nat /\ request_count \in Nat
    /\ response \in Seq({"d", "t"} \X Nat)
    /\ response_count \in Nat /\ response_value \in Ack \cup {"NONE"} /\ mismatch \in BOOLEAN
    /\ retry \in 0..RetryCount /\ match_retry \in 0..MatchRetry
    /\ post_read \in BOOLEAN /\ check_write \in BOOLEAN
    /\ data \in Nat /\ timestamp \in Nat /\ match_mask \in Nat
    /\ ir \in {"NONE", "APACC", "DPACC"} /\ posted \in Nat /\ log \in Seq(Nat) /\ unchecked \in BOOLEAN

(* What the response to the first n requests consists of: the value of     *)
(* each read and its time stamp, that of each write, and nothing of match  *)
(* reads and mask writes.                                                  *)
Writes(r) == ~r.rnw /\ ~r.mask
Items(n) ==
    { << "t", i >> : i \in { i \in 1..n : list[i].ts /\ (Normal(list[i]) \/ Writes(list[i])) } }
        \cup { << "d", i >> : i \in { i \in 1..n : Normal(list[i]) } }
Before(x, y) == x[2] < y[2] \/ (x[2] = y[2] /\ x[1] = "t" /\ y[1] = "d")

WritesUpTo(n) == { i \in 1..n : Writes(list[i]) }

(* AP reads are pipelined through RDBUFF.  Whatever is mixed in a list and *)
(* wherever it fails, the values and time stamps of the response are those *)
(* of the requests, in their order, none of them taken from another read   *)
(* and none left out before another.                                       *)
ResponseInOrder ==
    /\ \A i, j \in 1..Len(response) : i < j => Before(response[i], response[j])
    /\ ToSet(response) \subseteq Items(Len(list))
    /\ \A x \in Items(Len(list)) \ ToSet(response), i \in 1..Len(response) : Before(response[i], x)

(* The target has taken each of the writes of the first n requests once,   *)
(* in their order, and no other.                                           *)
WrittenUpTo(n) ==
    /\ \A i, j \in 1..Len(log) : i < j => log[i] < log[j]
    /\ ToSet(log) = WritesUpTo(n)

(* The bytes of the requests, with the four of data that some have.        *)
RequestBytes(n) == n + 4 * Cardinality({ i \in 1..n : HasData(list[i]) })

(* A list answered with OK and no mismatch was carried out completely.     *)
OkIsComplete ==
    phase = "done" /\ response_value = "OK" /\ ~mismatch =>
        /\ response_count = Len(list) /\ request = 2 + RequestBytes(Len(list))
        /\ ToSet(response) = Items(Len(list))
        /\ WrittenUpTo(Len(list))

(* The count of a list that failed is to be trusted: the writes it counts  *)
(* reached the target once each and no other write did, and the values it  *)
(* counts are there but for the last one, which may still be posted.       *)
CountIsTrue ==
    phase = "done" /\ debug_port # "DISABLED" =>
        /\ WrittenUpTo(response_count)
        /\ ToSet(response) \subseteq Items(response_count)
        /\ \A x, y \in Items(response_count) \ ToSet(response) : x = y

(* Writes are buffered in the target.  OK is not reported before the       *)
(* target has acknowledged another packet after the last write.            *)
WritesChecked == phase = "done" /\ response_value = "OK" => ~unchecked

(* "return: number of bytes in request (upper 16 bits)" (DAP.c:732): what  *)
(* DAP_ExecuteCommand() adds to find the next command of a packet.         *)
RequestLength == phase = "done" => request = 2 + RequestBytes(Len(list))

(* What is answered to a list of transfers is true.                        *)
TransferTrue == ResponseInOrder /\ OkIsComplete /\ CountIsTrue /\ WritesChecked

==============================================================================
