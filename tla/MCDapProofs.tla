----------------------------- MODULE MCDapProofs -----------------------------
(***************************************************************************)
(* What holds of the commands of the debugger for every value of the       *)
(* constants: any retry count, any length of a block, any clock, any list  *)
(* of commands, any chain of devices.                                      *)
(***************************************************************************)
EXTENDS MCDap, PrefixSums, SequenceTheorems, FiniteSetTheorems, TLAPS

----------------------------------------------------------------------------
(* DAP_TransferBlock                                                       *)

(* Where a block stands: how many accesses the target has seen, and which  *)
(* of them has its value on the way, for the words that are counted.       *)
BlockPhases ==
    /\ blockPhase = "start" => accesses = 0 /\ blockCount = 0 /\ blockValue = "NONE"
    /\ blockPhase = "post" => blockRnw /\ B!Posts /\ accesses = 0 /\ blockCount = 0
    /\ blockPhase = "read" /\ B!Posts =>
          blockRnw /\ accesses = blockCount + 1 /\ blockPosted = accesses
    /\ blockPhase = "read" /\ ~B!Posts => blockRnw /\ accesses = blockCount
    /\ blockPhase = "write" => ~blockRnw /\ accesses = blockCount
    /\ blockPhase = "check" => ~blockRnw /\ accesses = words /\ blockLeft = 0
    /\ blockPhase \in {"post", "read", "write"} => blockLeft > 0
    (* the register is selected until the last word *)
    /\ B!Jtag /\ (blockPhase \in {"post", "write"} \/ (blockPhase = "read" /\ blockLeft > 1))
          => blockIr = B!IrOf

BlockInv ==
    /\ B!TypeOK
    /\ blockLeft = words - blockCount
    /\ B!BlockInOrder /\ B!BlockCount /\ B!NoAccessBeyond /\ B!BlockComplete
    /\ (blockRnw => Len(wordsRead) = blockCount) /\ (~blockRnw => wordsRead = << >>)
    /\ BlockPhases

LEMMA WordAppend ==
    ASSUME NEW q \in Seq(Nat), NEW v \in Nat
    PROVE  /\ Append(q, v) \in Seq(Nat)
           /\ Len(q) \in Nat /\ Len(Append(q, v)) = Len(q) + 1
           /\ (\A i \in 1..Len(q) : q[i] = i) /\ v = Len(q) + 1
                 => \A i \in 1..Len(Append(q, v)) : Append(q, v)[i] = i
BY AppendProperties

LEMMA BlockStart ==
    ASSUME BlockInv, B!DAP_TransferBlock
    PROVE  BlockInv'
<1>1. blockPhase = "start" /\ blockPhase' \in {"write", "post", "read", "done"}
  BY DEF B!DAP_TransferBlock
<1>2. UNCHANGED << blockPort, blockRnw, blockAp, words, blockLeft, blockRetry, wordsRead, blockCount,
                   blockValue, accesses, blockPosted, blockUnchecked >>
  BY DEF B!DAP_TransferBlock, B!command, B!target
<1> QED
  BY <1>1, <1>2
  DEF B!DAP_TransferBlock, BlockInv, BlockPhases, B!TypeOK, B!BlockInOrder, B!BlockCount,
      B!NoAccessBeyond, B!BlockComplete, B!Posts, B!Jtag, B!IrOf, B!Ack

LEMMA BlockPacket ==
    ASSUME BlockInv, NEW a \in B!Ack, B!Packet(a)
    PROVE  BlockInv'
<1> USE DEF B!Posts, B!Jtag, B!IrOf
<1>c. UNCHANGED << blockPort, blockRnw, blockAp, words >>
  BY DEF B!Packet, B!command
<1>i. /\ words \in Nat /\ blockLeft \in Nat /\ blockCount \in Nat /\ accesses \in Nat
      /\ words <= MaxCount /\ blockRetry <= BlockRetries
      /\ blockPosted \in Nat /\ wordsRead \in Seq(Nat) /\ Len(wordsRead) \in Nat
      /\ blockRetry \in Nat /\ BlockRetries \in Nat /\ MaxCount \in Nat
      /\ blockIr \in {"NONE", "APACC", "DPACC"} /\ blockIr' \in {"NONE", "APACC", "DPACC"}
      /\ blockRnw \in BOOLEAN /\ blockAp \in BOOLEAN /\ blockUnchecked \in BOOLEAN
  BY PartsAssumption DEF BlockInv, B!TypeOK, B!BlockAssumption, B!Packet
<1>t. /\ blockPort \in Ports /\ words \in 0..MaxCount /\ blockLeft \in 0..MaxCount
      /\ blockPhase \in {"start", "post", "read", "write", "check", "done"}
  BY DEF BlockInv, B!TypeOK
<1>p. blockPhase \in {"post", "read", "write", "check"}
  BY DEF B!Packet
<1>r. B!Rdbuff <=> blockPhase = "check" \/ (blockPhase = "read" /\ B!Posts /\ blockLeft = 1)
  BY DEF B!Rdbuff
<1>s. blockIr' = IF B!Jtag /\ B!Rdbuff THEN "DPACC" ELSE blockIr
  BY DEF B!Packet
<1>q. /\ blockLeft = words - blockCount
      /\ B!BlockInOrder /\ B!BlockCount /\ B!NoAccessBeyond /\ BlockPhases
      /\ (blockRnw => Len(wordsRead) = blockCount) /\ (~blockRnw => wordsRead = << >>)
  BY DEF BlockInv
<1>k. B!Jtag /\ ~B!Rdbuff => blockIr' = B!IrOf
  BY <1>i, <1>p, <1>q, <1>r, <1>s DEF BlockPhases
<1>a. a \notin {"OK", "PARITY"} => UNCHANGED << accesses, blockPosted, blockUnchecked >>
  BY DEF B!Packet, B!Accept, B!target
<1>b. a \in {"OK", "PARITY"} =>
        /\ accesses' = IF ~B!Rdbuff THEN accesses + 1 ELSE accesses
        /\ blockPosted' = IF ~B!Rdbuff /\ blockPhase # "write" THEN accesses' ELSE blockPosted
        /\ blockUnchecked' = (blockPhase = "write")
  BY <1>k DEF B!Packet, B!Accept
<1>1. CASE B!Again(a)
  <2>1. /\ blockRetry' = blockRetry - 1 /\ blockRetry > 0 /\ a = "WAIT"
        /\ UNCHANGED << blockPhase, blockLeft, wordsRead, blockCount, blockValue >>
    BY <1>1 DEF B!Packet, B!Again
  <2>2. BlockPhases'
    BY <1>a, <1>c, <1>i, <1>p, <1>q, <1>r, <1>s, <2>1 DEF BlockPhases
  <2> QED
    BY <1>a, <1>c, <1>i, <1>q, <2>1, <2>2
    DEF BlockInv, B!TypeOK, B!BlockInOrder, B!BlockCount, B!NoAccessBeyond, B!BlockComplete
<1>2. CASE ~B!Again(a) /\ a # "OK"
  <2>1. /\ blockPhase' = "done" /\ blockValue' = a
        /\ UNCHANGED << blockLeft, blockRetry, wordsRead, blockCount >>
    BY <1>2 DEF B!Packet, B!Failed, B!GotoEnd
  <2>2. accesses' \in Nat /\ accesses' <= words /\ blockPosted' \in Nat /\ blockUnchecked' \in BOOLEAN
        /\ (~blockRnw => accesses' = accesses)
    <3>1. CASE a = "PARITY"
      <4>1. blockPhase # "write"
        BY <3>1 DEF B!Packet
      <4>2. ~B!Rdbuff => blockRnw /\ accesses < words
        BY <1>i, <1>p, <1>q, <1>r, <4>1 DEF BlockPhases
      <4> QED
        BY <1>b, <1>i, <1>q, <3>1, <4>1, <4>2 DEF B!NoAccessBeyond
    <3>2. CASE a # "PARITY"
      BY <1>2, <1>a, <1>i, <1>q, <3>2 DEF B!NoAccessBeyond
    <3> QED
      BY <3>1, <3>2
  <2>3. BlockPhases'
    BY <2>1 DEF BlockPhases
  <2> QED
    BY <1>2, <1>c, <1>i, <1>q, <2>1, <2>2, <2>3
    DEF BlockInv, B!TypeOK, B!BlockInOrder, B!BlockCount, B!NoAccessBeyond, B!BlockComplete
<1>3. CASE a = "OK"
  <2>1. B!Completed
    BY <1>3 DEF B!Packet, B!Again
  <2>2. CASE blockPhase = "post"
    <3>1. /\ blockPhase' = "read" /\ blockRetry' = BlockRetries /\ blockValue' = "OK"
          /\ UNCHANGED << blockLeft, wordsRead, blockCount >>
      BY <2>1, <2>2 DEF B!Completed
    <3>r. ~B!Rdbuff
      BY <1>r, <2>2
    <3>0. blockRnw /\ B!Posts /\ accesses = 0 /\ blockCount = 0 /\ blockLeft > 0
      BY <1>q, <2>2 DEF BlockPhases
    <3>2. accesses' = 1 /\ blockPosted' = 1 /\ blockUnchecked' = FALSE
      <4>1. accesses' = accesses + 1 /\ blockPosted' = accesses'
        BY <1>3, <1>b, <2>2, <3>r
      <4>2. blockUnchecked' = FALSE
        BY Zenon, <1>3, <1>b, <2>2
      <4> QED
        BY <3>0, <4>1, <4>2
    <3>3. BlockPhases'
      BY <1>c, <1>i, <1>k, <3>r, <3>0, <3>1, <3>2 DEF BlockPhases
    <3>4. B!TypeOK'
      <4>1. blockRetry' \in 0..BlockRetries /\ accesses' \in Nat /\ blockPosted' \in Nat
        BY <1>i, <3>1, <3>2
      <4> QED
        BY Zenon, <1>c, <1>i, <1>t, <3>1, <3>2, <4>1 DEF B!TypeOK, B!Ack
    <3>5. B!BlockInOrder' /\ B!BlockCount' /\ (blockRnw => Len(wordsRead') = blockCount')
          /\ (~blockRnw => wordsRead' = << >>)
      BY <1>c, <1>q, <3>0, <3>1 DEF B!BlockInOrder, B!BlockCount
    <3>6. blockLeft' = words' - blockCount' /\ B!NoAccessBeyond' /\ B!BlockComplete'
      BY <1>c, <1>i, <1>q, <3>0, <3>1, <3>2 DEF B!NoAccessBeyond, B!BlockComplete
    <3> QED
      BY <1>c, <3>3, <3>4, <3>5, <3>6 DEF BlockInv
  <2>3. CASE blockPhase = "read"
    <3>1. /\ wordsRead' = Append(wordsRead, B!Value)
          /\ blockLeft' = blockLeft - 1 /\ blockCount' = blockCount + 1
          /\ blockPhase' = IF blockLeft' > 0 THEN "read" ELSE "done"
          /\ blockRetry' = BlockRetries /\ blockValue' = "OK"
      BY <2>1, <2>3 DEF B!Completed, B!Stored
    <3>3. blockLeft > 0 /\ blockRnw
      BY <1>q, <2>3 DEF BlockPhases
    <3>5. /\ BlockPhases' /\ B!Value = blockCount + 1 /\ blockUnchecked' = FALSE
          /\ accesses' \in Nat /\ accesses' <= words /\ blockPosted' \in Nat
          /\ blockLeft = 1 => accesses' = words
      <4>0. blockUnchecked' = FALSE
        BY Zenon, <1>3, <1>b, <2>3
      <4>1. CASE B!Posts /\ blockLeft > 1
        <5>1. ~B!Rdbuff /\ accesses = blockCount + 1 /\ blockPosted = accesses
          BY <1>i, <1>q, <1>r, <2>3, <4>1 DEF BlockPhases
        <5>2. accesses' = blockCount + 2 /\ blockPosted' = accesses'
          BY <1>3, <1>b, <1>i, <2>3, <5>1
        <5>3. BlockPhases'
          BY <1>c, <1>i, <1>k, <3>1, <3>3, <4>1, <5>1, <5>2 DEF BlockPhases
        <5> QED
          BY <1>i, <1>q, <4>0, <4>1, <5>1, <5>2, <5>3 DEF B!Value
      <4>2. CASE B!Posts /\ blockLeft = 1
        <5>1. B!Rdbuff /\ accesses = blockCount + 1 /\ blockPosted = accesses
          BY <1>i, <1>q, <1>r, <2>3, <4>2 DEF BlockPhases
        <5>2. accesses' = blockCount + 1 /\ blockPosted' = accesses'
          BY <1>3, <1>b, <1>i, <2>3, <5>1
        <5>3. BlockPhases'
          BY <1>c, <1>i, <3>1, <3>3, <4>2 DEF BlockPhases
        <5> QED
          BY <1>i, <1>q, <4>0, <4>2, <5>1, <5>2, <5>3 DEF B!Value
      <4>3. CASE ~B!Posts
        <5>1. ~B!Rdbuff /\ accesses = blockCount
          BY <1>i, <1>q, <1>r, <2>3, <4>3 DEF BlockPhases
        <5>2. accesses' = blockCount + 1 /\ blockPosted' = accesses'
          BY <1>3, <1>b, <1>i, <2>3, <5>1
        <5>3. BlockPhases'
          BY <1>c, <1>i, <3>1, <3>3, <4>3, <5>2 DEF BlockPhases
        <5> QED
          BY <1>i, <1>q, <3>3, <4>0, <4>3, <5>1, <5>2, <5>3 DEF B!Value
      <4>4. blockLeft > 1 \/ blockLeft = 1
        BY <1>i, <3>3
      <4> QED
        BY Zenon, <4>1, <4>2, <4>3, <4>4
    <3>4. /\ wordsRead' \in Seq(Nat) /\ Len(wordsRead') = Len(wordsRead) + 1
          /\ \A i \in 1..Len(wordsRead') : wordsRead'[i] = i
      BY <1>i, <1>q, <3>1, <3>3, <3>5, WordAppend DEF B!BlockInOrder
    <3>6. B!TypeOK'
      <4>1. /\ blockRetry' \in 0..BlockRetries /\ blockLeft' \in 0..MaxCount
            /\ blockCount' \in Nat /\ blockPhase' \in {"read", "done"}
        BY <1>i, <1>q, <3>1, <3>3
      <4> QED
        BY Zenon, <1>c, <1>i, <1>t, <3>1, <3>4, <3>5, <4>1 DEF B!TypeOK, B!Ack
    <3>7. B!BlockInOrder' /\ B!BlockCount' /\ (blockRnw' => Len(wordsRead') = blockCount')
          /\ (~blockRnw' => wordsRead' = << >>)
      BY <1>c, <1>i, <1>q, <3>1, <3>3, <3>4 DEF B!BlockInOrder, B!BlockCount
    <3>8. blockLeft' = words' - blockCount' /\ B!NoAccessBeyond'
      BY <1>c, <1>i, <1>q, <3>1, <3>3, <3>5 DEF B!NoAccessBeyond
    <3>9. B!BlockComplete'
      <4>1. SUFFICES ASSUME blockPhase' = "done" PROVE B!BlockComplete'
        BY DEF B!BlockComplete
      <4>2. blockLeft = 1
        BY <1>i, <3>1, <3>3, <4>1
      <4>3. blockCount' = words /\ Len(wordsRead') = words
        BY <1>c, <1>i, <1>q, <3>1, <3>3, <3>4, <4>2
      <4> QED
        BY <1>c, <3>3, <3>5, <4>2, <4>3 DEF B!BlockComplete
    <3> QED
      BY <3>5, <3>6, <3>7, <3>8, <3>9 DEF BlockInv
  <2>4. CASE blockPhase = "write"
    <3>1. /\ UNCHANGED wordsRead
          /\ blockLeft' = blockLeft - 1 /\ blockCount' = blockCount + 1
          /\ blockPhase' = IF blockLeft' > 0 THEN "write" ELSE "check"
          /\ blockRetry' = BlockRetries /\ blockValue' = "OK"
      BY <2>1, <2>4 DEF B!Completed, B!Stored, B!AfterWrites
    <3>2. accesses' = accesses + 1 /\ blockPosted' = blockPosted /\ blockUnchecked' = TRUE
      BY Zenon, <1>3, <1>b, <1>r, <2>4
    <3>3. BlockPhases'
      BY <1>c, <1>i, <1>k, <1>q, <1>r, <2>4, <3>1, <3>2 DEF BlockPhases
    <3> QED
      BY <1>c, <1>i, <1>q, <2>4, <3>1, <3>2, <3>3
      DEF BlockInv, BlockPhases, B!TypeOK, B!BlockInOrder, B!BlockCount, B!NoAccessBeyond,
          B!BlockComplete, B!Ack
  <2>5. CASE blockPhase = "check"
    <3>1. /\ blockPhase' = "done" /\ blockValue' = "OK"
          /\ UNCHANGED << blockLeft, blockRetry, wordsRead, blockCount >>
      BY <2>1, <2>5 DEF B!Completed, B!GotoEnd
    <3>2. accesses' = accesses /\ blockPosted' = blockPosted /\ blockUnchecked' = FALSE
      BY Zenon, <1>3, <1>b, <1>r, <2>5
    <3>3. BlockPhases'
      BY <3>1 DEF BlockPhases
    <3> QED
      BY Zenon, <1>c, <1>i, <1>q, <2>5, <3>1, <3>2, <3>3
      DEF BlockInv, BlockPhases, B!TypeOK, B!BlockInOrder, B!BlockCount, B!NoAccessBeyond,
          B!BlockComplete, B!Ack
  <2> QED
    BY <1>p, <2>2, <2>3, <2>4, <2>5
<1> QED
  BY <1>1, <1>2, <1>3

LEMMA BlockInit ==
    Init => BlockInv
<1>1. MaxCount \in Nat /\ BlockRetries \in Nat
  BY PartsAssumption DEF B!BlockAssumption
<1>2. Init => B!Init
  BY DEF Init
<1>3. B!Init => B!TypeOK
  <2> SUFFICES ASSUME B!Init PROVE B!TypeOK
    OBVIOUS
  <2>1. blockLeft \in 0..MaxCount /\ blockRetry \in 0..BlockRetries
    BY <1>1 DEF B!Init
  <2>2. blockCount \in Nat /\ accesses \in Nat /\ blockPosted \in Nat
    BY DEF B!Init
  <2>3. wordsRead \in Seq(Nat)
    BY EmptySeq, Zenon DEF B!Init
  <2>4. blockUnchecked \in BOOLEAN
    BY Zenon DEF B!Init
  <2> QED
    BY <2>1, <2>2, <2>3, <2>4, Zenon DEF B!Init, B!TypeOK
<1>4. B!Init => BlockInv
  <2>1. B!Init => B!BlockInOrder /\ B!BlockCount /\ B!NoAccessBeyond /\ B!BlockComplete /\ BlockPhases
    BY DEF B!Init, BlockPhases, B!BlockInOrder, B!BlockCount, B!NoAccessBeyond, B!BlockComplete
  <2>2. B!Init => blockLeft = words - blockCount /\ Len(wordsRead) = blockCount /\ wordsRead = << >>
    BY DEF B!Init
  <2> QED
    BY <1>3, <2>1, <2>2 DEF BlockInv
<1> QED
  BY <1>2, <1>4

LEMMA BlockStep ==
    ASSUME BlockInv, [Next]_vars
    PROVE  BlockInv'
<1>1. UNCHANGED block \/ B!Next
  BY DEF Next, vars
<1>2. CASE UNCHANGED block \/ B!Answered
  <2>1. UNCHANGED << blockPort, blockRnw, blockAp, words, blockPhase, blockLeft, blockIr, blockRetry,
                     wordsRead, blockCount, blockValue, accesses, blockPosted, blockUnchecked >>
    BY <1>2 DEF B!Answered, B!vars, B!command, B!target, block
  <2>2. BlockPhases' /\ B!TypeOK'
    BY <2>1 DEF BlockInv, BlockPhases, B!TypeOK, B!Posts, B!Jtag, B!IrOf, B!Ack
  <2>3. B!BlockInOrder' /\ B!BlockCount' /\ B!NoAccessBeyond' /\ B!BlockComplete'
    BY <2>1 DEF BlockInv, B!BlockInOrder, B!BlockCount, B!NoAccessBeyond, B!BlockComplete
  <2> QED
    BY <2>1, <2>2, <2>3 DEF BlockInv
<1>3. CASE B!DAP_TransferBlock
  BY <1>3, BlockStart
<1>4. CASE \E a \in B!Ack : B!Packet(a)
  BY <1>4, BlockPacket
<1> QED
  BY <1>1, <1>2, <1>3, <1>4 DEF B!Next

(* A block that DAP_TransferBlock answers is one the target took: the      *)
(* words read are those of the first accesses in order, the count is of    *)
(* the words transferred, OK means all of them and a checked last write,   *)
(* and no access goes past the block -- whatever the length, the port, the *)
(* retry count and the acknowledges.                                       *)
THEOREM BlocksTrue == Spec => []BlockTrue
<1>1. Init => BlockInv
  BY BlockInit
<1>2. BlockInv /\ [Next]_vars => BlockInv'
  BY BlockStep
<1>3. BlockInv => BlockTrue
  BY DEF BlockInv, BlockTrue, B!BlockTrue
<1> QED
  BY <1>1, <1>2, <1>3, PTL DEF Spec

----------------------------------------------------------------------------
(* DAP_SWD_Transfer and DAP_JTAG_Transfer                                  *)

(* In the response is what the completed requests leave there, but for the *)
(* value that is still posted in the target.                               *)
Posted == IF post_read THEN { << "d", done >> } ELSE {}

TransferTypes ==
    /\ list \in Seq(Requests) /\ done \in 0..Len(list)
    /\ response \in Seq({"d", "t"} \X Nat) /\ log \in Seq(Nat)
    /\ post_read \in BOOLEAN /\ check_write \in BOOLEAN /\ unchecked \in BOOLEAN /\ mismatch \in BOOLEAN
    /\ phase \in T!Wire \cup {"start", "mask", "cancel", "done"}

(* Where the loop stands. *)
InLoop == {"prev_post", "prev", "post_match", "match", "post", "dp", "write", "mask"}
LoopInv ==
    /\ phase \in InLoop => done < Len(list)
    /\ phase \in {"last", "check"} => done = Len(list)
    /\ phase \in InLoop \cup {"last", "check"} =>
        /\ post_read <=> phase \in {"prev_post", "prev", "last"}
        /\ post_read => posted = done
        /\ unchecked => check_write
    /\ phase = "prev_post" =>
        T!Normal(T!Cur) /\ IF T!Jtag THEN ir = T!IrOf(T!Cur) ELSE T!Cur.ap
    /\ phase \in {"post_match", "post", "dp", "write", "mask"} => phase = T!Body(T!Cur)
    /\ phase = "match" => T!Cur.rnw /\ T!Cur.match
    /\ phase \in {"prev_post", "prev"} => request = 3 + T!RequestBytes(done)
    /\ phase \in InLoop \ {"prev_post", "prev"} => request = 2 + T!RequestBytes(done + 1)
    /\ phase \in {"last", "check"} => request = 2 + T!RequestBytes(Len(list))

StoredInv ==
    /\ \A i, j \in 1..Len(response) : i < j => T!Before(response[i], response[j])
    /\ T!ToSet(response) \in { T!Items(done), T!Items(done) \ { << "d", done >> } }
    /\ phase # "done" => T!ToSet(response) = T!Items(done) \ Posted
    /\ post_read => done \in 1..Len(list) /\ T!Normal(list[done])
    /\ T!WrittenUpTo(done) /\ response_count = done

TransferInv ==
    /\ TransferTypes /\ LoopInv /\ StoredInv
    /\ phase = "start" => done = 0 /\ ~post_read /\ ~check_write /\ ~unchecked /\ response_value = "NONE"
    /\ phase = "cancel" => (response_value # "OK" \/ mismatch) /\ (response_value = "OK" => ~unchecked)
    /\ T!OkIsComplete /\ T!WritesChecked

LEMMA RequestTypes ==
    ASSUME TransferTypes, NEW i \in 1..Len(list)
    PROVE  /\ list[i] \in Requests
           /\ list[i].rnw \in BOOLEAN /\ list[i].ap \in BOOLEAN /\ list[i].match \in BOOLEAN
           /\ list[i].mask \in BOOLEAN /\ list[i].ts \in BOOLEAN
<1>1. list[i] \in Requests
  BY DEF TransferTypes
<1>2. Requests \subseteq T!Request
  BY PartsAssumption DEF PartsAssumption, T!TransferAssumption
<1> QED
  BY <1>1, <1>2 DEF T!Request

(* What a request adds to the response. *)
Stamps(i) == IF list[i].ts /\ (T!Normal(list[i]) \/ T!Writes(list[i])) THEN { << "t", i >> } ELSE {}
Values(i) == IF T!Normal(list[i]) THEN { << "d", i >> } ELSE {}

LEMMA ItemsNext ==
    ASSUME NEW n \in Nat, NEW k, k = n + 1
    PROVE  /\ T!Items(k) = T!Items(n) \cup Stamps(k) \cup Values(k)
           /\ T!WritesUpTo(k) = T!WritesUpTo(n) \cup IF T!Writes(list[k]) THEN { k } ELSE {}
           /\ T!Items(n) \subseteq {"d", "t"} \X (1..n) /\ T!WritesUpTo(n) \subseteq 1..n
<1>1. k \in 1..k /\ \A i \in 1..k : i = k \/ i \in 1..n
  OBVIOUS
<1>2. \A i \in 1..n : i \in 1..k
  OBVIOUS
<1> QED
  BY <1>1, <1>2 DEF T!Items, T!WritesUpTo, Stamps, Values

LEMMA BytesNext ==
    ASSUME NEW n \in Nat, NEW k, k = n + 1
    PROVE  /\ T!RequestBytes(n) \in Nat
           /\ T!RequestBytes(k) = T!RequestBytes(n) + IF T!HasData(list[k]) THEN 5 ELSE 1
<1> DEFINE D(m) == { i \in 1..m : T!HasData(list[i]) }
<1>1. IsFiniteSet(D(n)) /\ Cardinality(D(n)) \in Nat
  <2>1. IsFiniteSet(1..n)
    BY FS_Interval
  <2>2. D(n) \subseteq 1..n
    OBVIOUS
  <2> HIDE DEF D
  <2> QED
    BY <2>1, <2>2, FS_Subset, FS_CardinalityType
<1>2. D(k) = D(n) \cup IF T!HasData(list[k]) THEN { k } ELSE {}
  <2>1. k \in 1..k /\ \A i \in 1..k : i = k \/ i \in 1..n
    OBVIOUS
  <2>2. \A i \in 1..n : i \in 1..k
    OBVIOUS
  <2> QED
    BY <2>1, <2>2
<1>3. k \notin D(n)
  OBVIOUS
<1>4. \A m : T!RequestBytes(m) = m + 4 * Cardinality(D(m))
  <2>1. \A S : T!Cardinality(S) = Cardinality(S)
    BY Zenon DEF T!Cardinality, Cardinality
  <2> QED
    BY <2>1 DEF T!RequestBytes
<1> HIDE DEF D
<1>5. Cardinality(D(k)) = Cardinality(D(n)) + IF T!HasData(list[k]) THEN 1 ELSE 0
  <2>1. CASE T!HasData(list[k])
    BY <1>1, <1>2, <1>3, <2>1, FS_AddElement
  <2>2. CASE ~T!HasData(list[k])
    <3>1. D(k) = D(n)
      BY <1>2, <2>2
    <3> QED
      BY <1>1, <2>2, <3>1
  <2> QED
    BY <2>1, <2>2
<1> QED
  BY <1>1, <1>4, <1>5

Rising(s) == \A i, j \in 1..Len(s) : i < j => T!Before(s[i], s[j])

(* An item that comes after all of a response is appended to it. *)
LEMMA ItemAppended ==
    ASSUME NEW s \in Seq({"d", "t"} \X Nat), Rising(s), NEW e \in {"d", "t"} \X Nat,
           \A x \in T!ToSet(s) : T!Before(x, e)
    PROVE  /\ s \o << e >> \in Seq({"d", "t"} \X Nat) /\ Rising(s \o << e >>)
           /\ T!ToSet(s \o << e >>) = T!ToSet(s) \cup { e }
<1>1. PICK n \in Nat : n = Len(s)
  OBVIOUS
<1>2. PICK t : t = s \o << e >>
  BY Zenon
<1>3. /\ t \in Seq({"d", "t"} \X Nat) /\ Len(t) = n + 1 /\ t[n + 1] = e
      /\ \A i \in 1..n : t[i] = s[i]
  <2>1. t = Append(s, e)
    BY <1>2
  <2> QED
    BY <1>1, <2>1, AppendProperties
<1>4. n + 1 \in 1..(n + 1) /\ \A i \in 1..(n + 1) : i = n + 1 \/ i \in 1..n
  OBVIOUS
<1>5. \A i \in 1..n : i \in 1..(n + 1)
  OBVIOUS
<1>6. DOMAIN s = 1..n /\ DOMAIN t = 1..(n + 1)
  BY <1>1, <1>3
<1>7. T!ToSet(t) = T!ToSet(s) \cup { e }
  <2>1. T!ToSet(t) = { t[i] : i \in 1..(n + 1) } /\ T!ToSet(s) = { s[i] : i \in 1..n }
    BY <1>6 DEF T!ToSet
  <2>2. ASSUME NEW x \in T!ToSet(t) PROVE x \in T!ToSet(s) \cup { e }
    <3>1. PICK i \in 1..(n + 1) : x = t[i]
      BY <2>1, <2>2
    <3> QED
      BY Zenon, <1>3, <1>4, <2>1, <3>1
  <2>3. ASSUME NEW x \in T!ToSet(s) \cup { e } PROVE x \in T!ToSet(t)
    <3>1. CASE x = e
      BY <1>3, <1>4, <2>1, <3>1
    <3>2. CASE x \in T!ToSet(s)
      <4>1. PICK i \in 1..n : x = s[i]
        BY <2>1, <3>2
      <4> QED
        BY <1>3, <1>5, <2>1, <4>1
    <3> QED
      BY <2>3, <3>1, <3>2
  <2> QED
    BY <2>2, <2>3
<1>8. ASSUME NEW i \in 1..(n + 1), NEW j \in 1..(n + 1), i < j
      PROVE  T!Before(t[i], t[j])
  <2>1. i \in 1..n
    BY <1>8
  <2>2. CASE j \in 1..n
    BY <1>1, <1>3, <1>8, <2>1, <2>2 DEF Rising
  <2>3. CASE j = n + 1
    <3>1. s[i] \in T!ToSet(s)
      BY <1>6, <2>1 DEF T!ToSet
    <3> QED
      BY <1>3, <2>1, <2>3, <3>1
  <2> QED
    BY <1>4, <2>2, <2>3
<1> QED
  BY Zenon, <1>2, <1>3, <1>7, <1>8 DEF Rising

LEMMA WriteAppended ==
    ASSUME TransferTypes, NEW n \in Nat, NEW k, k = n + 1,
           T!WrittenUpTo(n), T!Writes(list[k]), log' = Append(log, k), list' = list
    PROVE  log' \in Seq(Nat) /\ T!WrittenUpTo(k)'
<1>1. PICK m \in Nat : m = Len(log)
  BY DEF TransferTypes
<1>2. /\ log' \in Seq(Nat) /\ Len(log') = m + 1 /\ log'[m + 1] = k
      /\ \A i \in 1..m : log'[i] = log[i]
  BY <1>1, AppendProperties DEF TransferTypes
<1>3. DOMAIN log = 1..m /\ DOMAIN log' = 1..(m + 1)
  BY <1>1, <1>2 DEF TransferTypes
<1>4. T!WritesUpTo(k)' = T!WritesUpTo(n) \cup { k } /\ T!WritesUpTo(n) \subseteq 1..n
  <2>1. T!WritesUpTo(k)' = T!WritesUpTo(k)
    BY DEF T!WritesUpTo
  <2> QED
    BY Zenon, <2>1, ItemsNext
<1>5. T!ToSet(log) = T!WritesUpTo(n) /\ \A i, j \in 1..m : i < j => log[i] < log[j]
  BY <1>1 DEF T!WrittenUpTo
<1>6. m + 1 \in 1..(m + 1) /\ \A i \in 1..(m + 1) : i = m + 1 \/ i \in 1..m
  OBVIOUS
<1>7. \A i \in 1..m : i \in 1..(m + 1)
  OBVIOUS
<1>8. T!ToSet(log') = T!ToSet(log) \cup { k }
  BY <1>2, <1>3, <1>6, <1>7 DEF T!ToSet
<1>9. ASSUME NEW i \in 1..(m + 1), NEW j \in 1..(m + 1), i < j
      PROVE  log'[i] < log'[j]
  <2>1. i \in 1..m
    BY <1>9
  <2>2. CASE j \in 1..m
    BY <1>2, <1>5, <1>9, <2>1, <2>2
  <2>3. CASE j = m + 1
    <3>1. log[i] \in 1..n
      BY <1>3, <1>4, <1>5, <2>1 DEF T!ToSet
    <3>2. log[i] < k
      BY <3>1
    <3> QED
      BY <1>2, <2>1, <2>3, <3>2
  <2> QED
    BY Zenon, <1>6, <2>2, <2>3
<1> QED
  BY Zenon, <1>2, <1>4, <1>5, <1>8, <1>9 DEF T!WrittenUpTo

(* A request that is complete: what it stored and sent is that of its      *)
(* number, and the loop goes on with the next one or leaves.               *)
LEMMA NextKeeps ==
    ASSUME TransferInv, NEW p \in BOOLEAN, NEW c \in BOOLEAN, NEW n, n = done + 1,
           phase \in InLoop, request = 2 + T!RequestBytes(n), T!NextRequest(p, c),
           UNCHANGED << list, debug_port, mismatch >>, response_value' = "OK",
           p => posted' = n /\ T!Normal(list[n]),
           unchecked' \in BOOLEAN, unchecked' => c,
           response' \in Seq({"d", "t"} \X Nat), Rising(response'),
           T!ToSet(response') = T!Items(n) \ IF p THEN { << "d", n >> } ELSE {},
           log' \in Seq(Nat), T!WrittenUpTo(n)'
    PROVE  TransferInv'
<1>1. /\ list \in Seq(Requests) /\ done \in Nat /\ done < Len(list) /\ Len(list) \in Nat
      /\ n \in Nat /\ n \in 1..Len(list) /\ T!Cur = list[n] /\ response_count = done
  BY DEF TransferInv, TransferTypes, LoopInv, StoredInv, T!Cur
<1>2. /\ done' = n /\ response_count' = n /\ post_read' = p /\ check_write' = c
      /\ list' = list /\ T!Jtag' = T!Jtag
      /\ n = Len(list) => phase' = T!Finish(p, c) /\ request' = request
      /\ n # Len(list) => /\ phase' = T!First(list[n + 1], p)
                          /\ request' = request + 1 + T!Taken(phase', list[n + 1])
  BY <1>1 DEF T!NextRequest, T!Jtag
<1>3. /\ T!Items(done)' = T!Items(n) /\ T!Items(Len(list))' = T!Items(Len(list))
      /\ T!WrittenUpTo(done)' = T!WrittenUpTo(n)'
  BY <1>2 DEF T!Items, T!WrittenUpTo, T!WritesUpTo
<1>4. T!RequestBytes(Len(list))' = T!RequestBytes(Len(list)) /\ T!RequestBytes(done)' = T!RequestBytes(n)
      /\ T!RequestBytes(done + 1)' = T!RequestBytes(n + 1)
  BY <1>2, Zenon DEF T!RequestBytes, T!HasData
<1>5. /\ T!Cur' = list[n + 1]
      /\ T!Normal(T!Cur)' = T!Normal(list[n + 1]) /\ T!Normal(list[done])' = T!Normal(list[n])
      /\ T!Body(T!Cur)' = T!Body(list[n + 1]) /\ T!IrOf(T!Cur)' = T!IrOf(list[n + 1])
  BY <1>2 DEF T!Cur, T!Normal, T!Body, T!IrOf
<1>6. StoredInv'
  <2>1. Rising(response)' /\ Posted' = IF p THEN { << "d", n >> } ELSE {}
    BY <1>2 DEF Rising, Posted, T!Before
  <2>2. T!ToSet(response') = T!ToSet(response)'
    BY DEF T!ToSet
  <2>3. /\ T!ToSet(response)' \in { T!Items(done)', T!Items(done)' \ { << "d", done' >> } }
        /\ T!ToSet(response)' = T!Items(done)' \ Posted'
    BY <1>2, <1>3, <2>1, <2>2
  <2>4. post_read' => done' \in 1..Len(list') /\ T!Normal(list[done])'
    BY <1>1, <1>2, <1>5
  <2> QED
    BY <1>2, <1>3, <2>1, <2>3, <2>4 DEF StoredInv, Rising
<1>7. T!RequestBytes(n) \in Nat
      /\ T!RequestBytes(n + 1) = T!RequestBytes(n) + IF T!HasData(list[n + 1]) THEN 5 ELSE 1
  BY Zenon, <1>1, BytesNext
<1>8. CASE n = Len(list)
  <2>1. phase' \in {"last", "check", "done"} /\ request' = 2 + T!RequestBytes(n)
    BY <1>2, <1>8 DEF T!Finish
  <2>2. (phase' = "last" <=> p) /\ (phase' = "done" => ~p /\ ~c)
    BY <1>2, <1>8 DEF T!Finish
  <2>3. LoopInv'
    BY <1>2, <1>4, <1>8, <2>1, <2>2 DEF LoopInv, InLoop
  <2>4. TransferTypes'
    BY <1>1, <1>2, <2>1 DEF TransferTypes, T!Wire, TransferInv
  <2>5. T!OkIsComplete'
    <3>1. ASSUME phase' = "done" PROVE T!ToSet(response') = T!Items(n)
      BY <2>2, <3>1
    <3>2. T!ToSet(response') = T!ToSet(response)'
      BY DEF T!ToSet
    <3> QED
      BY <1>2, <1>3, <1>4, <1>8, <2>1, <3>1, <3>2 DEF T!OkIsComplete
  <2>6. T!WritesChecked'
    BY <2>2 DEF T!WritesChecked
  <2> QED
    BY <1>6, <2>1, <2>3, <2>4, <2>5, <2>6 DEF TransferInv
<1>9. CASE n # Len(list)
  <2> DEFINE r == list[n + 1]
  <2>1. n + 1 \in 1..Len(list) /\ n < Len(list)
    BY <1>1, <1>9
  <2>2. r.rnw \in BOOLEAN /\ r.ap \in BOOLEAN /\ r.match \in BOOLEAN /\ r.mask \in BOOLEAN
    BY <2>1, RequestTypes DEF TransferInv
  <2>3. T!Body(r) \in {"post_match", "match", "post", "dp", "mask", "write"}
        /\ (T!Body(r) = "match" => r.rnw /\ r.match)
    BY DEF T!Body
  <2>4. CASE p
    <3>1. /\ phase' \in {"prev_post", "prev"}
          /\ phase' = "prev_post" => T!Normal(r) /\ IF T!Jtag THEN ir' = T!IrOf(r) ELSE r.ap
      BY <1>2, <1>9, <2>4 DEF T!First, T!Chains, T!Normal
    <3>2. T!Taken(phase', r) = 0
      BY <2>3, <3>1 DEF T!Taken
    <3>3. request' = 3 + T!RequestBytes(n)
      BY <1>2, <1>7, <1>9, <3>2
    <3>4. LoopInv'
      BY Zenon, <1>2, <1>4, <1>5, <2>1, <2>4, <3>1, <3>3 DEF LoopInv, InLoop
    <3>5. TransferTypes'
      BY <1>1, <1>2, <3>1 DEF TransferTypes, T!Wire, TransferInv
    <3> QED
      BY <1>6, <3>1, <3>4, <3>5 DEF TransferInv, T!OkIsComplete, T!WritesChecked
  <2>5. CASE ~p
    <3>1. phase' = T!Body(r)
      BY <1>2, <1>9, <2>5 DEF T!First
    <3>2. T!Taken(phase', r) = IF T!HasData(r) THEN 4 ELSE 0
      BY <3>1 DEF T!Taken
    <3>3. request' = 2 + T!RequestBytes(n + 1)
      <4>1. T!HasData(r) \in BOOLEAN
        BY <2>2 DEF T!HasData
      <4> QED
        BY <1>2, <1>7, <1>9, <3>2, <4>1
    <3>4. LoopInv'
      BY <1>2, <1>4, <1>5, <2>1, <2>3, <2>5, <3>1, <3>3 DEF LoopInv, InLoop
    <3>5. TransferTypes'
      BY <1>1, <1>2, <2>3, <3>1 DEF TransferTypes, T!Wire, TransferInv
    <3> QED
      BY <1>6, <2>3, <3>1, <3>4, <3>5 DEF TransferInv, T!OkIsComplete, T!WritesChecked
  <2> QED
    BY <2>4, <2>5
<1> QED
  BY <1>8, <1>9

(* The posted value of the request before completes the response to it. *)
LEMMA PostedStored ==
    ASSUME TransferInv, phase # "done", post_read, NEW s, s = Append(response, << "d", done >>)
    PROVE  s \in Seq({"d", "t"} \X Nat) /\ Rising(s) /\ T!ToSet(s) = T!Items(done)
<1> DEFINE e == << "d", done >>
<1>1. /\ done \in 1..Len(list) /\ T!Normal(list[done]) /\ Len(list) \in Nat
      /\ T!ToSet(response) = T!Items(done) \ { e }
      /\ response \in Seq({"d", "t"} \X Nat) /\ Rising(response)
  BY DEF TransferInv, TransferTypes, StoredInv, Posted, Rising
<1>2. done \in Nat /\ e \in {"d", "t"} \X Nat /\ done \in 1..done
  BY <1>1
<1>3. e \in T!Items(done)
  BY <1>1, <1>2 DEF T!Items
<1>4. ASSUME NEW x \in T!ToSet(response) PROVE T!Before(x, e)
  <2>1. x \in T!Items(done) /\ x # e
    BY <1>1, <1>4
  <2>2. x \in {"d", "t"} \X (1..done)
    BY <1>2, <2>1, ItemsNext
  <2>3. PICK k \in {"d", "t"}, i \in 1..done : x = << k, i >>
    BY <2>2
  <2>4. i = done => k = "t"
    BY <2>1, <2>3
  <2>5. i < done \/ i = done
    BY <1>2
  <2> QED
    BY <2>3, <2>4, <2>5 DEF T!Before
<1>5. s = Append(response, e)
  OBVIOUS
<1> HIDE DEF e
<1>6. /\ response \o << e >> \in Seq({"d", "t"} \X Nat) /\ Rising(response \o << e >>)
      /\ T!ToSet(response \o << e >>) = T!ToSet(response) \cup { e }
  BY <1>1, <1>2, <1>4, ItemAppended
<1>7. s = response \o << e >>
  <2>1. response \in Seq({"d", "t"} \X Nat)
    BY <1>1
  <2> QED
    BY Zenon, <1>2, <1>5, <2>1, AppendIsConcat
<1> QED
  BY Zenon, <1>1, <1>3, <1>6, <1>7

(* The time stamp of a request follows what was stored before it. *)
LEMMA StampStored ==
    ASSUME TransferTypes, NEW n, n = done + 1, n \in 1..Len(list),
           NEW s \in Seq({"d", "t"} \X Nat), Rising(s), T!ToSet(s) = T!Items(done),
           T!Normal(list[n]) \/ T!Writes(list[n])
    PROVE  /\ s \o T!Stamp(list[n], n) \in Seq({"d", "t"} \X Nat)
           /\ Rising(s \o T!Stamp(list[n], n))
           /\ T!ToSet(s \o T!Stamp(list[n], n)) = T!Items(done) \cup Stamps(n)
<1> DEFINE e == << "t", n >>
<1>1. done \in Nat /\ n \in Nat /\ e \in {"d", "t"} \X Nat
  BY DEF TransferTypes
<1>2. ASSUME NEW x \in T!ToSet(s) PROVE T!Before(x, e)
  <2>1. x \in {"d", "t"} \X (1..done)
    BY <1>1, <1>2, ItemsNext
  <2>2. PICK k \in {"d", "t"}, i \in 1..done : x = << k, i >>
    BY <2>1
  <2>3. i < n
    BY <1>1
  <2> QED
    BY <2>2, <2>3 DEF T!Before
<1>3. CASE list[n].ts
  <2>1. T!Stamp(list[n], n) = << e >> /\ Stamps(n) = { e }
    BY <1>3 DEF T!Stamp, Stamps
  <2> HIDE DEF e
  <2>2. /\ s \o << e >> \in Seq({"d", "t"} \X Nat) /\ Rising(s \o << e >>)
        /\ T!ToSet(s \o << e >>) = T!ToSet(s) \cup { e }
    BY Zenon, <1>1, <1>2, ItemAppended
  <2> QED
    BY Zenon, <2>1, <2>2
<1>4. CASE ~list[n].ts
  <2>1. s \o T!Stamp(list[n], n) = s /\ Stamps(n) = {}
    BY <1>4 DEF T!Stamp, Stamps
  <2> QED
    BY Zenon, <2>1
<1> QED
  BY <1>3, <1>4

(* A value read at once follows its time stamp. *)
LEMMA ValueStored ==
    ASSUME TransferTypes, NEW n, n = done + 1, n \in 1..Len(list),
           NEW s \in Seq({"d", "t"} \X Nat), Rising(s), T!ToSet(s) = T!Items(done) \cup Stamps(n)
    PROVE  /\ s \o << << "d", n >> >> \in Seq({"d", "t"} \X Nat)
           /\ Rising(s \o << << "d", n >> >>)
           /\ T!ToSet(s \o << << "d", n >> >>) = T!ToSet(s) \cup { << "d", n >> }
<1> DEFINE e == << "d", n >>
<1>1. done \in Nat /\ n \in Nat /\ e \in {"d", "t"} \X Nat
  BY DEF TransferTypes
<1>2. ASSUME NEW x \in T!ToSet(s) PROVE T!Before(x, e)
  <2>1. CASE x \in T!Items(done)
    <3>1. x \in {"d", "t"} \X (1..done)
      BY <1>1, <2>1, ItemsNext
    <3>2. PICK k \in {"d", "t"}, i \in 1..done : x = << k, i >>
      BY <3>1
    <3>3. i < n
      BY <1>1
    <3> QED
      BY <3>2, <3>3 DEF T!Before
  <2>2. CASE x \in Stamps(n)
    BY <2>2 DEF Stamps, T!Before
  <2> QED
    BY <1>2, <2>1, <2>2
<1> HIDE DEF e
<1>3. /\ s \o << e >> \in Seq({"d", "t"} \X Nat) /\ Rising(s \o << e >>)
      /\ T!ToSet(s \o << e >>) = T!ToSet(s) \cup { e }
  BY <1>1, <1>2, ItemAppended
<1> QED
  BY Zenon, <1>3 DEF e

(* What a packet does to the target, and what the probe gets from it. *)
LEMMA PacketDoes ==
    ASSUME TransferInv, NEW a \in T!Ack, T!Packet(a), NEW n, n = done + 1
    PROVE  /\ UNCHANGED << list, debug_port >> /\ phase \in T!Wire
           /\ a \notin {"OK", "PARITY"} => UNCHANGED << posted, log, unchecked >>
           /\ a = "PARITY" => phase # "write" /\ log' = log /\ ~unchecked' /\ unchecked' \in BOOLEAN
           /\ a = "OK" => /\ IF phase = "write" THEN log' = Append(log, n) /\ unchecked'
                             ELSE log' = log /\ ~unchecked'
                          /\ unchecked' \in BOOLEAN
                          /\ phase \in {"prev", "last", "prev_post"} => data' = done
                          /\ phase \in {"prev_post", "post"} => posted' = n
                          /\ phase = "dp" => data' = n
                          /\ phase \in {"prev_post", "post", "dp", "write"} =>
                              T!Stamp(T!Cur, timestamp') = T!Stamp(T!Cur, n)
           /\ phase \in InLoop => n \in 1..Len(list) /\ T!Cur = list[n]
           /\ phase = "dp" => T!Normal(T!Cur)
           /\ phase = "post" => T!Normal(T!Cur)
           /\ phase = "write" => T!Writes(T!Cur)
           /\ phase = "post_match" => T!Cur.rnw /\ T!Cur.match
<1>1. /\ UNCHANGED << list, debug_port >> /\ phase \in T!Wire /\ T!Target(a) /\ ir' = T!Selected
      /\ data' = IF T!Receives(a) THEN T!Value ELSE data
      /\ a = "PARITY" => T!Sent.rnw /\ ~T!Jtag
      /\ timestamp' = IF (a = "OK" \/ T!Jtag) /\ T!Sent.ts THEN n ELSE timestamp
  BY Zenon DEF T!Packet, T!given
<1>2. TransferTypes /\ LoopInv /\ done \in Nat /\ unchecked \in BOOLEAN
  BY DEF TransferInv, TransferTypes
<1>3. phase \in InLoop => n \in 1..Len(list) /\ T!Cur = list[n]
  BY <1>2 DEF LoopInv, TransferTypes, T!Cur
<1>4. phase \in InLoop => /\ T!Cur.rnw \in BOOLEAN /\ T!Cur.ap \in BOOLEAN /\ T!Cur.match \in BOOLEAN
                          /\ T!Cur.mask \in BOOLEAN /\ T!Cur.ts \in BOOLEAN
  BY <1>2, <1>3, RequestTypes
<1>5. /\ phase = "dp" => T!Cur.rnw /\ ~T!Cur.match /\ ~T!Cur.ap /\ ~T!Jtag
      /\ phase = "post" => T!Cur.rnw /\ ~T!Cur.match /\ (T!Cur.ap \/ T!Jtag)
      /\ phase = "write" => ~T!Cur.rnw /\ ~T!Cur.mask
      /\ phase = "post_match" => T!Cur.rnw /\ T!Cur.match
      /\ phase = "match" => T!Cur.rnw
      /\ phase = "prev_post" => T!Cur.rnw /\ ~T!Cur.match /\ IF T!Jtag THEN ir = T!IrOf(T!Cur) ELSE T!Cur.ap
      /\ phase \in {"prev_post", "prev", "last"} => posted = done
  BY <1>2, <1>4 DEF LoopInv, T!Body, T!Normal, InLoop
<1>6. /\ phase \notin {"prev", "last", "check"} => T!Sent = T!Cur /\ ~T!Rdbuff
      /\ phase \in {"prev", "last", "check"} => T!Rdbuff /\ T!Sent.rnw /\ ~T!Sent.ap
  BY DEF T!Sent, T!Rdbuff
<1>7. T!Jtag \in BOOLEAN
  BY DEF T!Jtag
<1>8. phase = "write" <=> ~T!Sent.rnw
  BY <1>1, <1>5, <1>6 DEF T!Wire
<1>9. phase \in {"post", "dp", "write", "prev_post"} => T!Accessed = n
  BY <1>1, <1>5, <1>6, <1>7 DEF T!Accessed, T!Selected
<1>10. a \notin {"OK", "PARITY"} => UNCHANGED << posted, log, unchecked >>
  BY <1>1 DEF T!Target
<1>11. a = "PARITY" => phase # "write" /\ log' = log /\ ~unchecked' /\ unchecked' \in BOOLEAN
  BY Zenon, <1>1, <1>8 DEF T!Target
<1>12. ASSUME a = "OK"
       PROVE  /\ IF phase = "write" THEN log' = Append(log, n) /\ unchecked' ELSE log' = log /\ ~unchecked'
              /\ unchecked' \in BOOLEAN
  <2>1. /\ log' = IF ~T!Sent.rnw THEN Append(log, T!Accessed) ELSE log
        /\ unchecked' = ~T!Sent.rnw
    BY <1>1, <1>12 DEF T!Target
  <2>2. unchecked' \in BOOLEAN
    BY <2>1, Zenon
  <2> QED
    BY Zenon, <1>8, <1>9, <2>1, <2>2
<1>13. ASSUME a = "OK" PROVE phase \in {"prev_post", "post"} => posted' = n
  <2>1. posted' = IF T!Jtag THEN IF T!Sent.rnw THEN T!Accessed ELSE 0
                  ELSE IF T!Sent.ap /\ T!Sent.rnw THEN T!Accessed ELSE posted
    BY <1>1, <1>13 DEF T!Target
  <2> QED
    BY <1>5, <1>6, <1>9, <2>1
<1>14. ASSUME a = "OK" PROVE /\ phase \in {"prev", "last", "prev_post"} => data' = done
                             /\ phase = "dp" => data' = n
  <2>1. phase \in {"prev", "last", "prev_post", "dp"} => T!Receives(a)
    BY <1>8, <1>14, Zenon DEF T!Receives
  <2>2. phase \in {"prev", "last", "prev_post"} => T!Value = posted
    BY <1>5, <1>6 DEF T!Value
  <2>3. phase = "dp" => T!Value = n
    BY <1>5, <1>6, <1>9 DEF T!Value
  <2> QED
    BY <1>1, <1>5, <2>1, <2>2, <2>3
<1>15. ASSUME a = "OK", phase \in {"prev_post", "post", "dp", "write"}
       PROVE  T!Stamp(T!Cur, timestamp') = T!Stamp(T!Cur, n)
  BY <1>1, <1>6, <1>15 DEF T!Stamp
<1> QED
  BY <1>1, <1>3, <1>5, <1>10, <1>11, <1>12, <1>13, <1>14, <1>15 DEF T!Normal, T!Writes

(* What is stored and sent stays, and so does what is known of it. *)
LEMMA StoredKept ==
    ASSUME TransferInv, UNCHANGED << list, done, response, response_count, post_read, log >>,
           phase' # "done" => phase # "done"
    PROVE  StoredInv'
BY DEF TransferInv, StoredInv, Posted, T!ToSet, T!Items, T!Before, T!Normal, T!Writes, T!WrittenUpTo, T!WritesUpTo

(* The loop stays at its request. *)
LEMMA SameRequest ==
    ASSUME UNCHANGED << list, debug_port, done >>
    PROVE  /\ T!Cur' = T!Cur /\ T!Jtag' = T!Jtag
           /\ T!Normal(T!Cur)' = T!Normal(T!Cur) /\ T!Body(T!Cur)' = T!Body(T!Cur)
           /\ T!IrOf(T!Cur)' = T!IrOf(T!Cur)
           /\ T!RequestBytes(done)' = T!RequestBytes(done)
           /\ T!RequestBytes(done + 1)' = T!RequestBytes(done + 1)
           /\ T!RequestBytes(Len(list))' = T!RequestBytes(Len(list))
           /\ T!Items(Len(list))' = T!Items(Len(list)) /\ T!Items(done)' = T!Items(done)
<1>1. T!Cur' = T!Cur /\ T!Jtag' = T!Jtag
  BY DEF T!Cur, T!Jtag
<1>2. /\ T!Normal(T!Cur)' = T!Normal(T!Cur) /\ T!Body(T!Cur)' = T!Body(T!Cur)
      /\ T!IrOf(T!Cur)' = T!IrOf(T!Cur)
  BY <1>1 DEF T!Normal, T!Body, T!IrOf
<1>3. /\ T!RequestBytes(done)' = T!RequestBytes(done)
      /\ T!RequestBytes(done + 1)' = T!RequestBytes(done + 1)
      /\ T!RequestBytes(Len(list))' = T!RequestBytes(Len(list))
  BY Zenon DEF T!RequestBytes, T!HasData
<1>4. T!Items(Len(list))' = T!Items(Len(list)) /\ T!Items(done)' = T!Items(done)
  BY DEF T!Items, T!Normal, T!Writes
<1> QED
  BY <1>1, <1>2, <1>3, <1>4

(* WAIT, and the packet is sent again *)
LEMMA AgainKeeps ==
    ASSUME TransferInv, T!Packet("WAIT"), T!Again("WAIT")
    PROVE  TransferInv'
<1>1. "WAIT" \in T!Ack /\ "WAIT" \notin {"OK", "PARITY"}
  BY DEF T!Ack
<1>2. UNCHANGED << list, debug_port, posted, log, unchecked >> /\ phase \in T!Wire
  <2> DEFINE n == done + 1
  <2> HIDE DEF n
  <2> QED
    BY <1>1, PacketDoes
<1>3. UNCHANGED << phase, done, request, response_count, post_read, check_write, response,
                   response_value, mismatch >>
  BY DEF T!Packet, T!loop
<1>4. phase = "prev_post" => ir' = ir
  BY DEF T!Packet, T!Selected
<1>5. StoredInv'
  BY <1>2, <1>3, StoredKept
<1>6. LoopInv'
  <2>1. LoopInv
    BY DEF TransferInv
  <2>2. phase = "prev_post" /\ (IF T!Jtag THEN ir = T!IrOf(T!Cur) ELSE T!Cur.ap) =>
            IF T!Jtag' THEN ir' = T!IrOf(T!Cur)' ELSE T!Cur'.ap
    BY <1>2, <1>3, <1>4, SameRequest
  <2> QED
    BY <1>2, <1>3, <2>1, <2>2, SameRequest DEF LoopInv
<1>7. TransferTypes'
  BY <1>2, <1>3 DEF TransferInv, TransferTypes
<1> QED
  BY <1>2, <1>3, <1>5, <1>6, <1>7 DEF TransferInv, T!OkIsComplete, T!WritesChecked, T!Wire

(* The packet failed: the rest of the list is canceled, or nothing is left *)
LEMMA FailKeeps ==
    ASSUME TransferInv, NEW a \in T!Ack, T!Packet(a), a # "OK", T!Fails(a)
    PROVE  TransferInv'
<1> DEFINE n == done + 1
<1>1. UNCHANGED << list, debug_port >> /\ log' = log /\ unchecked' \in BOOLEAN /\ phase \in T!Wire
  <2> HIDE DEF n
  <2>1. n = done + 1
    BY DEF n
  <2>2. unchecked \in BOOLEAN
    BY DEF TransferInv, TransferTypes
  <2> QED
    BY <2>1, <2>2, PacketDoes
<1>2. /\ UNCHANGED << done, request, response_count, post_read, check_write, response >>
      /\ response_value' = a /\ mismatch' \in BOOLEAN
      /\ phase' \in {"cancel", "done"}
  BY DEF T!Fails, T!Break, T!End, T!loop, TransferInv, TransferTypes
<1>3. StoredInv'
  BY <1>1, <1>2, StoredKept DEF T!Wire
<1>4. TransferTypes'
  BY <1>1, <1>2 DEF TransferInv, TransferTypes
<1>5. LoopInv'
  BY <1>2 DEF LoopInv, InLoop
<1> QED
  BY <1>1, <1>2, <1>3, <1>4, <1>5 DEF TransferInv, T!OkIsComplete, T!WritesChecked

(* Each call that succeeds *)
LEMMA SuccessKeeps ==
    ASSUME TransferInv, T!Packet("OK"), T!Succeeds(data', timestamp')
    PROVE  TransferInv'
<1>0. PICK n : n = done + 1
  OBVIOUS
<1> DEFINE s == T!Stamp(T!Cur, n)
<1>1. TransferTypes /\ LoopInv /\ StoredInv /\ done \in Nat /\ n \in Nat /\ Len(list) \in Nat
  BY <1>0 DEF TransferInv, TransferTypes
<1>2. /\ UNCHANGED << list, debug_port >> /\ phase \in T!Wire
      /\ IF phase = "write" THEN log' = Append(log, n) /\ unchecked' ELSE log' = log /\ ~unchecked'
      /\ unchecked' \in BOOLEAN
      /\ phase \in {"prev", "last", "prev_post"} => data' = done
      /\ phase \in {"prev_post", "post"} => posted' = n
      /\ phase = "dp" => data' = n
      /\ phase \in {"prev_post", "post", "dp", "write"} => T!Stamp(T!Cur, timestamp') = s
      /\ phase \in InLoop => n \in 1..Len(list) /\ T!Cur = list[n]
      /\ phase \in {"dp", "post"} => T!Normal(T!Cur)
      /\ phase = "write" => T!Writes(T!Cur)
      /\ phase = "post_match" => T!Cur.rnw /\ T!Cur.match
  <2>1. "OK" \in T!Ack
    BY DEF T!Ack
  <2>2. "OK" \in {"OK", "PARITY"} /\ "OK" # "PARITY"
    OBVIOUS
  <2> QED
    BY <1>0, <2>1, <2>2, PacketDoes
<1>3. response_value' = "OK"
  BY DEF T!Succeeds
<1>4. response \in Seq({"d", "t"} \X Nat) /\ Rising(response) /\ log \in Seq(Nat) /\ T!WrittenUpTo(done)
      /\ (phase # "done" /\ ~post_read => T!ToSet(response) = T!Items(done))
  BY Zenon, <1>1 DEF TransferTypes, StoredInv, Rising, Posted
<1>5. /\ T!Items(n) = T!Items(done) \cup Stamps(n) \cup Values(n)
      /\ T!WritesUpTo(n) = T!WritesUpTo(done) \cup IF T!Writes(list[n]) THEN { n } ELSE {}
      /\ T!Items(done) \subseteq {"d", "t"} \X (1..done)
  BY <1>0, <1>1, ItemsNext
<1>6. ~T!Writes(list[n]) /\ log' = log => log' \in Seq(Nat) /\ T!WrittenUpTo(n)'
  <2>1. T!WritesUpTo(n)' = T!WritesUpTo(n)
    BY <1>2 DEF T!WritesUpTo, T!Writes
  <2> SUFFICES ASSUME ~T!Writes(list[n]), log' = log
               PROVE  T!WrittenUpTo(n)' /\ log' \in Seq(Nat)
    OBVIOUS
  <2>2. T!WritesUpTo(n)' = T!WritesUpTo(done)
    BY <1>5, <2>1
  <2> QED
    BY Zenon, <1>4, <2>2 DEF T!WrittenUpTo, T!ToSet
<1>7. ASSUME NEW x, x = << "d", n >>
      PROVE  x \notin T!Items(done) /\ x \notin Stamps(n)
  <2>1. n \notin 1..done
    BY <1>0, <1>1
  <2> QED
    BY <1>5, <1>7, <2>1 DEF Stamps
<1>8. ASSUME phase \in {"prev_post", "post", "dp", "write"}
      PROVE  n \in 1..Len(list) /\ T!Cur = list[n]
  BY <1>2, <1>8 DEF InLoop
<1>9. CASE phase = "prev_post"
  <2> DEFINE q == Append(response, << "d", done >>)
  <2>1. /\ response' = response \o << << "d", done >> >> \o s
        /\ T!NextRequest(TRUE, FALSE) /\ mismatch' = mismatch
    BY Zenon, <1>2, <1>9 DEF T!Succeeds
  <2>2. post_read /\ T!Normal(T!Cur) /\ request = 3 + T!RequestBytes(done)
    BY <1>1, <1>9 DEF LoopInv, InLoop
  <2>3. q \in Seq({"d", "t"} \X Nat) /\ Rising(q) /\ T!ToSet(q) = T!Items(done)
    BY Zenon, <1>9, <2>2, PostedStored
  <2>4. q = response \o << << "d", done >> >>
    <3>1. << "d", done >> \in {"d", "t"} \X Nat
      BY <1>1
    <3> QED
      BY Zenon, <1>4, <3>1, AppendIsConcat
  <2> HIDE DEF q
  <2>5. /\ response' \in Seq({"d", "t"} \X Nat) /\ Rising(response')
        /\ T!ToSet(response') = T!Items(done) \cup Stamps(n)
    BY Zenon, <1>0, <1>1, <1>8, <1>9, <2>1, <2>2, <2>3, <2>4, StampStored
  <2>6. Values(n) = { << "d", n >> } /\ ~T!Writes(list[n]) /\ ~T!HasData(list[n])
    BY <1>8, <1>9, <2>2 DEF Values, T!Normal, T!Writes, T!HasData
  <2>7. T!ToSet(response') = T!Items(n) \ { << "d", n >> }
    BY <1>5, <1>7, <2>5, <2>6
  <2>8. request = 2 + T!RequestBytes(n)
    BY <1>0, <1>1, <2>2, <2>6, BytesNext
  <2> QED
    BY Zenon, <1>0, <1>2, <1>3, <1>6, <1>8, <1>9, <2>1, <2>2, <2>5, <2>6, <2>7, <2>8, NextKeeps DEF InLoop
<1>10. CASE phase = "prev"
  <2>1. response' = Append(response, << "d", done >>) /\ T!Goto(T!Body(T!Cur)) /\ mismatch' = mismatch
    BY <1>2, <1>10 DEF T!Succeeds
  <2>2. post_read /\ request = 3 + T!RequestBytes(done) /\ n \in 1..Len(list) /\ T!Cur = list[n]
    BY <1>1, <1>2, <1>10 DEF LoopInv, InLoop
  <2>3. /\ response' \in Seq({"d", "t"} \X Nat) /\ Rising(response')
        /\ T!ToSet(response') = T!Items(done)
    BY Zenon, <1>10, <2>1, <2>2, PostedStored
  <2>4. /\ phase' = T!Body(T!Cur) /\ ~post_read' /\ post_read' \in BOOLEAN
        /\ UNCHANGED << done, response_count, check_write >>
        /\ request' = request + T!Taken(T!Body(T!Cur), T!Cur)
    BY Zenon, <1>10, <2>1 DEF T!Goto
  <2>5. T!Body(T!Cur) \in {"post_match", "match", "post", "dp", "mask", "write"}
        /\ (T!Body(T!Cur) = "match" => T!Cur.rnw /\ T!Cur.match)
    BY DEF T!Body
  <2>6. request' = 2 + T!RequestBytes(n)
    <3>1. T!Taken(T!Body(T!Cur), T!Cur) = IF T!HasData(list[n]) THEN 4 ELSE 0
      BY <2>2 DEF T!Taken
    <3>2. /\ T!RequestBytes(done) \in Nat
          /\ T!RequestBytes(n) = T!RequestBytes(done) + IF T!HasData(list[n]) THEN 5 ELSE 1
      BY Zenon, <1>0, <1>1, BytesNext
    <3> QED
      BY <2>2, <2>4, <3>1, <3>2
  <2>7. StoredInv'
    <3>1. T!WrittenUpTo(done)' /\ Rising(response)' /\ T!ToSet(response)' = T!ToSet(response')
      BY <1>2, <1>4, <1>10, <2>3, <2>4 DEF T!WrittenUpTo, T!WritesUpTo, Rising, T!Before, T!ToSet
    <3>2. T!Items(done)' = T!Items(done) /\ Posted' = {}
      BY <1>2, <2>4, SameRequest DEF Posted
    <3> QED
      BY <1>1, <2>3, <2>4, <3>1, <3>2 DEF StoredInv, Rising
  <2>8. LoopInv'
    <3>1. done < Len(list)
      BY <1>1, <1>10 DEF LoopInv, InLoop
    <3>2. T!RequestBytes(done + 1)' = T!RequestBytes(n)
      BY <1>0, <1>2, <2>4, SameRequest
    <3> QED
      BY <1>2, <1>10, <2>4, <2>5, <2>6, <3>1, <3>2, SameRequest DEF LoopInv, InLoop
  <2>9. TransferTypes'
    BY <1>1, <1>2, <1>4, <1>10, <2>1, <2>3, <2>4, <2>5 DEF TransferTypes, T!Wire
  <2> QED
    BY <2>4, <2>5, <2>7, <2>8, <2>9 DEF TransferInv, T!OkIsComplete, T!WritesChecked
<1>11. CASE phase = "post_match"
  <2>1. T!Goto("match") /\ UNCHANGED << response, mismatch >>
    BY <1>11 DEF T!Succeeds
  <2>2. ~post_read /\ request = 2 + T!RequestBytes(done + 1) /\ done < Len(list)
    BY <1>1, <1>11 DEF LoopInv, InLoop
  <2>3. /\ phase' = "match" /\ UNCHANGED << done, response_count, check_write >>
        /\ ~post_read' /\ post_read' \in BOOLEAN /\ request' = request + 0
    BY Zenon, <1>11, <2>1, <2>2 DEF T!Goto
  <2>4. StoredInv'
    <3>1. post_read' = post_read
      BY <1>1, <2>2, <2>3 DEF TransferTypes
    <3> QED
      BY <1>2, <1>11, <2>1, <2>3, <3>1, StoredKept
  <2>5. request' = 2 + T!RequestBytes(done + 1)
    BY <1>0, <1>1, <2>2, <2>3, BytesNext
  <2>6. LoopInv'
    BY <1>2, <1>11, <2>2, <2>3, <2>5, SameRequest DEF LoopInv, InLoop
  <2>7. TransferTypes'
    BY <1>1, <1>2, <1>11, <2>1, <2>3 DEF TransferTypes, T!Wire
  <2> QED
    BY <2>3, <2>4, <2>6, <2>7 DEF TransferInv, T!OkIsComplete, T!WritesChecked
<1>12. CASE phase = "match"
  <2>1. response' = response /\ log' = log /\ ~unchecked'
    BY <1>2, <1>12 DEF T!Succeeds
  <2>2. ~post_read /\ request = 2 + T!RequestBytes(n) /\ n \in 1..Len(list) /\ T!Cur = list[n]
        /\ T!Cur.rnw /\ T!Cur.match
    BY <1>0, <1>1, <1>2, <1>12 DEF LoopInv, InLoop
  <2>3. CASE T!NextRequest(post_read, FALSE) /\ UNCHANGED mismatch
    <3>1. T!NextRequest(FALSE, FALSE)
      <4>1. post_read = FALSE
        BY <1>1, <2>2 DEF TransferTypes
      <4> QED
        BY Zenon, <2>3, <4>1
    <3>2. T!ToSet(response') = T!Items(n) /\ ~T!Writes(list[n])
      BY <1>4, <1>5, <1>12, <2>1, <2>2 DEF Stamps, Values, T!Normal, T!Writes
    <3>3. T!ToSet(response') = T!Items(n) \ {}
      BY <3>2
    <3> QED
      BY Zenon, <1>0, <1>2, <1>3, <1>4, <1>6, <1>12, <2>1, <2>2, <2>3, <3>1, <3>2, <3>3, NextKeeps DEF InLoop
  <2>4. CASE phase' = "match" /\ UNCHANGED T!loop /\ UNCHANGED mismatch
    <3>1. StoredInv'
      BY <1>2, <1>12, <2>1, <2>4, StoredKept DEF T!loop
    <3>2. LoopInv'
      BY <1>1, <1>2, <1>12, <2>1, <2>2, <2>4, SameRequest DEF LoopInv, InLoop, T!loop
    <3>3. TransferTypes'
      BY <1>1, <1>2, <2>1, <2>4, <1>12 DEF TransferTypes, T!loop
    <3> QED
      BY <2>4, <3>1, <3>2, <3>3 DEF TransferInv, T!OkIsComplete, T!WritesChecked
  <2>5. CASE mismatch' = TRUE /\ T!Break
    <3>1. phase' = "cancel" /\ UNCHANGED T!loop
      BY <2>5 DEF T!Break
    <3>2. StoredInv'
      BY <1>2, <1>12, <2>1, <3>1, StoredKept DEF T!loop
    <3>3. LoopInv'
      BY <3>1 DEF LoopInv, InLoop
    <3>4. TransferTypes'
      BY <1>1, <1>2, <2>1, <2>5, <3>1 DEF TransferTypes, T!loop
    <3> QED
      BY <1>3, <2>1, <2>5, <3>1, <3>2, <3>3, <3>4 DEF TransferInv, T!OkIsComplete, T!WritesChecked
  <2> QED
    BY Zenon, <1>12, <2>3, <2>4, <2>5 DEF T!Succeeds
<1>13. CASE phase = "post"
  <2>1. response' = response \o s /\ T!NextRequest(TRUE, FALSE) /\ mismatch' = mismatch
    BY Zenon, <1>2, <1>13 DEF T!Succeeds
  <2>2. ~post_read /\ request = 2 + T!RequestBytes(n)
    BY <1>0, <1>1, <1>13 DEF LoopInv, InLoop
  <2>3. /\ response' \in Seq({"d", "t"} \X Nat) /\ Rising(response')
        /\ T!ToSet(response') = T!Items(done) \cup Stamps(n)
    BY Zenon, <1>0, <1>1, <1>2, <1>4, <1>8, <1>13, <2>1, <2>2, StampStored
  <2>4. Values(n) = { << "d", n >> } /\ ~T!Writes(list[n]) /\ T!Normal(list[n])
    BY <1>2, <1>8, <1>13 DEF Values, T!Normal, T!Writes
  <2>5. T!ToSet(response') = T!Items(n) \ { << "d", n >> }
    BY <1>5, <1>7, <2>3, <2>4
  <2> QED
    BY Zenon, <1>0, <1>2, <1>3, <1>6, <1>13, <2>1, <2>2, <2>3, <2>4, <2>5, NextKeeps DEF InLoop
<1>14. CASE phase = "dp"
  <2> DEFINE q == response \o s
  <2>1. /\ response' = response \o s \o << << "d", n >> >>
        /\ T!NextRequest(post_read, FALSE) /\ mismatch' = mismatch
    BY Zenon, <1>2, <1>14 DEF T!Succeeds
  <2>2. ~post_read /\ request = 2 + T!RequestBytes(n) /\ T!Normal(list[n])
    BY <1>0, <1>1, <1>2, <1>8, <1>14 DEF LoopInv, InLoop
  <2>3. q \in Seq({"d", "t"} \X Nat) /\ Rising(q) /\ T!ToSet(q) = T!Items(done) \cup Stamps(n)
    BY <1>0, <1>1, <1>4, <1>8, <1>14, <2>2, StampStored
  <2> HIDE DEF q
  <2>4. /\ response' \in Seq({"d", "t"} \X Nat) /\ Rising(response')
        /\ T!ToSet(response') = T!ToSet(q) \cup { << "d", n >> }
    <3>1. response' = q \o << << "d", n >> >>
      BY <2>1 DEF q
    <3> QED
      BY Zenon, <1>0, <1>1, <1>8, <1>14, <2>3, <3>1, ValueStored
  <2>5. Values(n) = { << "d", n >> } /\ ~T!Writes(list[n])
    BY <2>2 DEF Values, T!Normal, T!Writes
  <2>6. T!ToSet(response') = T!Items(n) \ {}
    BY <1>5, <2>3, <2>4, <2>5
  <2>7. T!NextRequest(FALSE, FALSE)
    <3>1. post_read = FALSE
      BY <1>1, <2>2 DEF TransferTypes
    <3> QED
      BY Zenon, <2>1, <3>1
  <2> QED
    BY Zenon, <1>0, <1>2, <1>3, <1>6, <1>14, <2>1, <2>2, <2>4, <2>5, <2>6, <2>7, NextKeeps DEF InLoop
<1>15. CASE phase = "write"
  <2>1. response' = response \o s /\ T!NextRequest(post_read, TRUE) /\ mismatch' = mismatch
    BY Zenon, <1>2, <1>15 DEF T!Succeeds
  <2>2. ~post_read /\ request = 2 + T!RequestBytes(n) /\ T!Writes(list[n])
    BY <1>0, <1>1, <1>2, <1>8, <1>15 DEF LoopInv, InLoop
  <2>3. /\ response' \in Seq({"d", "t"} \X Nat) /\ Rising(response')
        /\ T!ToSet(response') = T!Items(done) \cup Stamps(n)
    BY <1>0, <1>1, <1>4, <1>8, <1>15, <2>1, <2>2, StampStored
  <2>4. Values(n) = {}
    BY <2>2 DEF Values, T!Normal, T!Writes
  <2>5. T!ToSet(response') = T!Items(n) \ {}
    BY <1>5, <2>3, <2>4
  <2>6. log' \in Seq(Nat) /\ T!WrittenUpTo(n)'
    BY Zenon, <1>0, <1>1, <1>2, <1>4, <1>15, <2>2, WriteAppended
  <2>7. T!NextRequest(FALSE, TRUE)
    <3>1. post_read = FALSE
      BY <1>1, <2>2 DEF TransferTypes
    <3> QED
      BY Zenon, <2>1, <3>1
  <2> QED
    BY Zenon, <1>0, <1>2, <1>3, <1>15, <2>1, <2>2, <2>3, <2>5, <2>6, <2>7, NextKeeps DEF InLoop
<1>16. CASE phase = "last"
  <2>1. response' = Append(response, << "d", done >>) /\ T!End /\ mismatch' = mismatch
    BY <1>2, <1>16 DEF T!Succeeds
  <2>2. post_read /\ done = Len(list) /\ request = 2 + T!RequestBytes(Len(list))
    BY <1>1, <1>16 DEF LoopInv, InLoop
  <2>3. /\ response' \in Seq({"d", "t"} \X Nat) /\ Rising(response')
        /\ T!ToSet(response') = T!Items(done)
    BY Zenon, <1>16, <2>1, <2>2, PostedStored
  <2>4. phase' = "done" /\ UNCHANGED T!loop /\ log' = log
    BY <1>2, <1>16, <2>1 DEF T!End
  <2>5. /\ T!WrittenUpTo(done)' /\ Rising(response)' /\ T!ToSet(response)' = T!ToSet(response')
        /\ T!WrittenUpTo(Len(list))'
    <3>1. Rising(response)' /\ T!ToSet(response)' = T!ToSet(response')
      BY <2>3 DEF Rising, T!Before, T!ToSet
    <3>2. done' = done /\ list' = list /\ log' = log
      BY <1>2, <2>4 DEF T!loop
    <3>3. T!WritesUpTo(done)' = T!WritesUpTo(done) /\ T!WritesUpTo(Len(list))' = T!WritesUpTo(done)
      BY <2>2, <3>2 DEF T!WritesUpTo, T!Writes
    <3> QED
      BY <1>4, <3>1, <3>2, <3>3 DEF T!WrittenUpTo, T!ToSet
  <2>6. StoredInv'
    <3>1. T!Items(done)' = T!Items(done) /\ T!Normal(list[done])' = T!Normal(list[done])
      BY <1>2, <2>4, SameRequest DEF T!loop, T!Normal
    <3> QED
      BY <1>1, <1>2, <2>3, <2>4, <2>5, <3>1 DEF StoredInv, Rising, T!loop
  <2>7. T!OkIsComplete'
    <3>1. response_count = done
      BY <1>1 DEF StoredInv
    <3> QED
      BY <1>2, <2>2, <2>3, <2>4, <2>5, <3>1, SameRequest DEF T!OkIsComplete, T!loop
  <2>8. TransferTypes' /\ LoopInv'
    BY <1>1, <1>2, <2>1, <2>3, <2>4 DEF TransferTypes, T!loop, LoopInv, InLoop
  <2> QED
    BY <1>2, <1>16, <2>4, <2>6, <2>7, <2>8 DEF TransferInv, T!WritesChecked
<1>17. CASE phase = "check"
  <2>1. T!End /\ UNCHANGED << response, mismatch >>
    BY <1>17 DEF T!Succeeds
  <2>2. ~post_read /\ done = Len(list) /\ request = 2 + T!RequestBytes(Len(list))
    BY <1>1, <1>17 DEF LoopInv, InLoop
  <2>3. phase' = "done" /\ UNCHANGED T!loop /\ log' = log
    BY <1>2, <1>17, <2>1 DEF T!End
  <2>4. StoredInv'
    BY <1>2, <1>17, <2>1, <2>3, StoredKept DEF T!loop
  <2>5. T!OkIsComplete'
    <3>1. response_count = done /\ T!ToSet(response') = T!Items(done)
      BY <1>1, <1>4, <1>17, <2>1, <2>2 DEF StoredInv
    <3>2. T!WrittenUpTo(Len(list))' /\ T!ToSet(response)' = T!ToSet(response')
      BY <1>2, <1>4, <2>2, <2>3 DEF T!WrittenUpTo, T!WritesUpTo, T!ToSet
    <3> QED
      BY <1>2, <2>2, <2>3, <3>1, <3>2, SameRequest DEF T!OkIsComplete, T!loop
  <2>6. TransferTypes' /\ LoopInv'
    BY <1>1, <1>2, <2>1, <2>3 DEF TransferTypes, T!loop, LoopInv, InLoop
  <2> QED
    BY <1>2, <1>17, <2>3, <2>4, <2>5, <2>6 DEF TransferInv, T!WritesChecked
<1> QED
  BY <1>2, <1>9, <1>10, <1>11, <1>12, <1>13, <1>14, <1>15, <1>16, <1>17 DEF T!Wire

LEMMA MaskKeeps ==
    ASSUME TransferInv, T!WriteMask
    PROVE  TransferInv'
<1>1. PICK n : n = done + 1
  OBVIOUS
<1>2. /\ UNCHANGED << list, debug_port, mismatch, response, log, unchecked >> /\ response_value' = "OK"
      /\ phase = "mask" /\ T!NextRequest(post_read, check_write)
  BY DEF T!WriteMask, T!given, T!target
<1>3. TransferTypes /\ LoopInv /\ StoredInv /\ done \in Nat
  BY DEF TransferInv, TransferTypes
<1>4. /\ ~post_read /\ request = 2 + T!RequestBytes(n) /\ n \in 1..Len(list) /\ T!Cur = list[n]
      /\ phase = T!Body(list[n]) /\ (unchecked => check_write)
  BY <1>1, <1>2, <1>3 DEF LoopInv, InLoop, TransferTypes, T!Cur
<1>5. ~T!Normal(list[n]) /\ ~T!Writes(list[n])
  <2>1. ~list[n].rnw /\ list[n].mask
    BY <1>2, <1>4 DEF T!Body
  <2> QED
    BY <2>1 DEF T!Normal, T!Writes
<1>6. T!Items(n) = T!Items(done) /\ T!WritesUpTo(n) = T!WritesUpTo(done)
  <2>1. /\ T!Items(n) = T!Items(done) \cup Stamps(n) \cup Values(n)
        /\ T!WritesUpTo(n) = T!WritesUpTo(done) \cup IF T!Writes(list[n]) THEN { n } ELSE {}
    BY <1>1, <1>3, ItemsNext
  <2> QED
    BY <1>5, <2>1 DEF Stamps, Values
<1>7. Rising(response') /\ T!ToSet(response') = T!Items(n) \ {} /\ response' \in Seq({"d", "t"} \X Nat)
  <2>1. T!ToSet(response) = T!Items(done)
    BY Zenon, <1>2, <1>3, <1>4 DEF StoredInv, Posted
  <2> QED
    BY <1>2, <1>3, <1>6, <2>1 DEF StoredInv, Rising, TransferTypes
<1>8. log' \in Seq(Nat) /\ T!WrittenUpTo(n)'
  <2>1. T!WritesUpTo(n)' = T!WritesUpTo(done)
    BY <1>2, <1>6 DEF T!WritesUpTo
  <2> QED
    BY <1>2, <1>3, <2>1 DEF StoredInv, T!WrittenUpTo, T!ToSet, TransferTypes
<1>9. T!NextRequest(FALSE, check_write) /\ check_write \in BOOLEAN /\ unchecked' \in BOOLEAN
  <2>1. post_read = FALSE
    BY <1>3, <1>4 DEF TransferTypes
  <2> QED
    BY Zenon, <1>2, <1>3, <2>1 DEF TransferTypes
<1> QED
  BY Zenon, <1>1, <1>2, <1>4, <1>7, <1>8, <1>9, NextKeeps DEF InLoop

LEMMA CancelKeeps ==
    ASSUME TransferInv, T!CanceledRequest
    PROVE  TransferInv'
<1>1. /\ UNCHANGED << list, debug_port, done, response_count, post_read, check_write, response,
                      response_value, mismatch, posted, log, unchecked >>
      /\ phase = "cancel" /\ phase' \in {"cancel", "done"}
  BY DEF T!CanceledRequest, T!given, T!target
<1>2. StoredInv'
  BY <1>1, StoredKept
<1>3. TransferTypes' /\ LoopInv'
  BY <1>1 DEF TransferInv, TransferTypes, LoopInv, InLoop
<1> QED
  BY <1>1, <1>2, <1>3 DEF TransferInv, T!OkIsComplete, T!WritesChecked

LEMMA BytesNone ==
    T!RequestBytes(0) = 0
<1>1. { i \in 1..0 : T!HasData(list[i]) } = {}
  OBVIOUS
<1>2. Cardinality({}) = 0
  BY FS_EmptySet
<1>3. \A S : T!Cardinality(S) = Cardinality(S)
  BY Zenon DEF T!Cardinality, Cardinality
<1> QED
  BY <1>1, <1>2, <1>3 DEF T!RequestBytes

LEMMA BeginKeeps ==
    ASSUME TransferInv, T!DAP_Transfer
    PROVE  TransferInv'
<1>1. /\ UNCHANGED << list, debug_port, done, response_count, post_read, check_write, response,
                      response_value, mismatch, posted, log, unchecked >>
      /\ phase = "start"
      /\ \/ phase' = "done"
         \/ list # << >> /\ phase' = T!Body(list[1]) /\ request' = 3 + T!Taken(phase', list[1])
  BY DEF T!DAP_Transfer, T!Begin, T!NoDevice, T!DAP_Dummy_Transfer, T!given, T!target
<1>2. /\ done = 0 /\ ~post_read /\ ~check_write /\ ~unchecked /\ response_value = "NONE"
      /\ TransferTypes
  BY <1>1 DEF TransferInv
<1>3. StoredInv'
  BY <1>1, StoredKept
<1>4. CASE phase' = "done"
  <2>1. TransferTypes' /\ LoopInv'
    BY <1>1, <1>2, <1>4 DEF TransferTypes, LoopInv, InLoop
  <2> QED
    BY <1>1, <1>2, <1>3, <1>4, <2>1 DEF TransferInv, T!OkIsComplete, T!WritesChecked
<1>5. CASE list # << >> /\ phase' = T!Body(list[1]) /\ request' = 3 + T!Taken(phase', list[1])
  <2>1. list \in Seq(Requests) /\ Len(list) \in Nat /\ Len(list) > 0
    BY <1>2, <1>5 DEF TransferTypes
  <2>2. T!Cur = list[1]
    BY <1>2 DEF T!Cur
  <2>3. T!Body(list[1]) \in {"post_match", "match", "post", "dp", "mask", "write"}
        /\ (T!Body(list[1]) = "match" => list[1].rnw /\ list[1].match)
    BY DEF T!Body
  <2>4. request' = 2 + T!RequestBytes(done + 1)
    <3>1. T!Taken(phase', list[1]) = IF T!HasData(list[1]) THEN 4 ELSE 0
      BY <1>5 DEF T!Taken
    <3>2. /\ T!RequestBytes(0) \in Nat
          /\ T!RequestBytes(0 + 1) = T!RequestBytes(0) + IF T!HasData(list[0 + 1]) THEN 5 ELSE 1
      BY BytesNext
    <3>3. 0 + 1 = 1
      OBVIOUS
    <3> QED
      BY <1>2, <1>5, <3>1, <3>2, <3>3, BytesNone
  <2>5. LoopInv'
    BY <1>1, <1>2, <1>5, <2>1, <2>2, <2>3, <2>4, SameRequest DEF LoopInv, InLoop
  <2>6. TransferTypes'
    BY <1>1, <1>2, <1>5, <2>3 DEF TransferTypes, T!Wire
  <2> QED
    BY <1>3, <1>5, <2>3, <2>5, <2>6 DEF TransferInv, T!OkIsComplete, T!WritesChecked
<1> QED
  BY <1>1, <1>4, <1>5

LEMMA TransferInit ==
    Init => TransferInv
<1> SUFFICES ASSUME T!Init PROVE TransferInv
  BY DEF Init
<1>1. list \in Seq(Requests)
  <2>1. PICK m \in 0..MaxRequests : list \in [1..m -> Requests]
    BY DEF T!Init, T!BoundedSeq, T!SeqOf
  <2>2. m \in Nat
    BY PartsAssumption DEF T!TransferAssumption
  <2> QED
    BY <2>1, <2>2
<1>2. /\ phase = "start" /\ done = 0 /\ response = << >> /\ response_count = 0 /\ log = << >>
      /\ response_value = "NONE"
      /\ post_read = FALSE /\ check_write = FALSE /\ unchecked = FALSE /\ mismatch = FALSE
  BY DEF T!Init
<1>3. response \in Seq({"d", "t"} \X Nat) /\ log \in Seq(Nat)
  BY <1>2, EmptySeq, Zenon
<1>4. TransferTypes
  <2>1. Len(list) \in Nat
    BY <1>1
  <2>2. done \in 0..Len(list)
    BY <1>2, <2>1
  <2>3. phase \in T!Wire \cup {"start", "mask", "cancel", "done"}
    BY <1>2
  <2> QED
    BY <1>1, <1>2, <1>3, <2>2, <2>3, Zenon DEF TransferTypes
<1>5. T!Items(0) = {} /\ T!WritesUpTo(0) = {}
  BY DEF T!Items, T!WritesUpTo
<1>6. StoredInv
  <2>1. T!ToSet(response) = {} /\ T!ToSet(log) = {}
    BY <1>2 DEF T!ToSet
  <2>2. Posted = {} /\ Len(response) = 0 /\ Len(log) = 0
    BY <1>2 DEF Posted
  <2>3. T!WrittenUpTo(done)
    BY <1>2, <1>5, <2>1, <2>2 DEF T!WrittenUpTo
  <2>4. \A i, j \in 1..Len(response) : i < j => T!Before(response[i], response[j])
    BY <2>2
  <2> QED
    BY Zenon, <1>2, <1>5, <2>1, <2>2, <2>3, <2>4 DEF StoredInv
<1> QED
  BY <1>2, <1>4, <1>6 DEF TransferInv, LoopInv, InLoop, T!OkIsComplete, T!WritesChecked

LEMMA TransferStep ==
    ASSUME TransferInv, [Next]_vars
    PROVE  TransferInv'
<1>1. UNCHANGED transfer \/ T!Next
  BY DEF Next, vars
<1>2. CASE UNCHANGED transfer \/ T!Answered
  <2>1. UNCHANGED << list, debug_port, done, request, response_count, post_read, check_write, response,
                     response_value, mismatch, posted, log, unchecked, phase, ir >>
    BY <1>2 DEF T!Answered, T!vars, T!given, T!loop, T!target, transfer
  <2>2. StoredInv'
    BY <2>1, StoredKept
  <2>3. LoopInv'
    BY <2>1, SameRequest DEF TransferInv, LoopInv
  <2>4. TransferTypes' /\ T!WritesChecked'
    BY <2>1 DEF TransferInv, TransferTypes, T!WritesChecked
  <2>5. T!OkIsComplete'
    BY <2>1, SameRequest DEF TransferInv, T!OkIsComplete, T!WrittenUpTo, T!WritesUpTo, T!Writes, T!ToSet
  <2> QED
    BY <2>1, <2>2, <2>3, <2>4, <2>5 DEF TransferInv
<1>3. CASE \E a \in T!Ack : T!Packet(a)
  <2>1. PICK a \in T!Ack : T!Packet(a)
    BY <1>3
  <2>2. CASE T!Again(a)
    BY <2>1, <2>2, AgainKeeps DEF T!Again
  <2>3. CASE ~T!Again(a) /\ a # "OK"
    BY <2>1, <2>3, FailKeeps DEF T!Packet
  <2>4. CASE ~T!Again(a) /\ a = "OK"
    BY <2>1, <2>4, SuccessKeeps DEF T!Packet
  <2> QED
    BY <2>2, <2>3, <2>4
<1> QED
  BY <1>1, <1>2, <1>3, BeginKeeps, MaskKeeps, CancelKeeps DEF T!Next

(* What the invariant says of every state is what is said of the answer. *)
LEMMA TransferSound ==
    TransferInv => TransferTrue
<1> SUFFICES ASSUME TransferInv PROVE T!ResponseInOrder /\ T!CountIsTrue
  BY DEF TransferTrue, T!TransferTrue, TransferInv
<1> DEFINE e == << "d", done >>
<1>1. /\ TransferTypes /\ StoredInv /\ done \in Nat /\ Len(list) \in Nat /\ done <= Len(list)
      /\ T!ToSet(response) \subseteq T!Items(done)
      /\ \A x \in T!Items(done) \ T!ToSet(response) : x = e
  BY DEF TransferInv, TransferTypes, StoredInv
<1>2. T!Items(done) \subseteq {"d", "t"} \X (1..done)
  BY <1>1, ItemsNext
<1>3. T!Items(done) \subseteq T!Items(Len(list))
  <2>1. \A i \in 1..done : i \in 1..Len(list)
    BY <1>1
  <2> QED
    BY <2>1 DEF T!Items
<1>4. ASSUME NEW x \in T!Items(Len(list)) \ T!ToSet(response), NEW i \in 1..Len(response)
      PROVE  T!Before(response[i], x)
  <2>1. response[i] \in T!ToSet(response)
    BY <1>1 DEF TransferTypes, T!ToSet
  <2>2. PICK k \in {"d", "t"}, j \in 1..done : response[i] = << k, j >>
    BY <1>1, <1>2, <2>1
  <2>3. x \in {"d", "t"} \X (1..Len(list))
    BY <1>1, ItemsNext
  <2>4. PICK kx \in {"d", "t"}, jx \in 1..Len(list) : x = << kx, jx >>
    BY <2>3
  <2>5. CASE x \in T!Items(done)
    <3>1. x = e /\ response[i] # x
      BY <1>1, <1>4, <2>1, <2>5
    <3>2. j = done => k = "t"
      BY <2>2, <3>1
    <3>3. j < done \/ j = done
      BY <1>1
    <3> QED
      BY <2>2, <3>1, <3>2, <3>3 DEF T!Before
  <2>6. CASE x \notin T!Items(done)
    <3>1. jx \notin 1..done
      <4>1. x \in T!Items(Len(list))
        BY <1>4
      <4> QED
        BY <2>4, <2>6, <4>1 DEF T!Items
    <3>2. j < jx
      BY <1>1, <3>1
    <3> QED
      BY <2>2, <2>4, <3>2 DEF T!Before
  <2> QED
    BY <2>5, <2>6
<1>5. T!ResponseInOrder
  BY <1>1, <1>3, <1>4 DEF T!ResponseInOrder, StoredInv
<1>6. T!CountIsTrue
  BY <1>1 DEF T!CountIsTrue, StoredInv
<1> QED
  BY <1>5, <1>6

(* What DAP_SWD_Transfer and DAP_JTAG_Transfer answer to a list is what    *)
(* happened: the values and time stamps of the response are those of the   *)
(* requests in their order, the count is of the requests the target took,  *)
(* OK means all of them, and the last write was checked -- whatever the    *)
(* length of the list, the retry counts, the port, and how the target      *)
(* acknowledges each packet.                                               *)
THEOREM TransfersTrue == Spec => []TransferTrue
<1>1. Init => TransferInv
  BY TransferInit
<1>2. TransferInv /\ [Next]_vars => TransferInv'
  BY TransferStep
<1>3. TransferInv => TransferTrue
  BY TransferSound
<1> QED
  BY <1>1, <1>2, <1>3, PTL DEF Spec

----------------------------------------------------------------------------
(* DAP_SWJ_Clock, DAP_SWJ_Pins, DAP_Connect                                *)

(* What JtagHasPins needs: DAP_SWJ_Pins gives the pins to SPI when that is *)
(* the engine of SWD, so it must not be while a slow JTAG session has them *)
SlowJtag == connected = "JTAG" /\ clocked /\ clock < 10000000

ModeInv == Mode!TypeOK /\ Mode!SessionSound /\ (SlowJtag => SWD_TransferSpeed # "SPI")

LEMMA DivUp ==
    ASSUME NEW n \in Nat, NEW d \in Nat \ {0}
    PROVE  ((n + (d - 1)) \div d) \in Nat /\ ((n + (d - 1)) \div d) * d >= n
<1> DEFINE q == (n + (d - 1)) \div d
<1>1. q \in Nat
  OBVIOUS
<1>2. n + (d - 1) < (q + 1) * d
  OBVIOUS
<1> QED
  BY <1>1, <1>2

LEMMA TimesMono ==
    ASSUME NEW a \in Nat, NEW b \in Nat, NEW c \in Nat, a <= b
    PROVE  a * c <= b * c
OBVIOUS

(* The iterations of PIN_DELAY_SLOW are at least one, and make half a      *)
(* clock at least as long as the debugger allows.                          *)
LEMMA DelayLongEnough ==
    ASSUME NEW hz \in Nat \ {0}
    PROVE  /\ Mode!Delay(hz) \in Nat \ {0}
           /\ (Mode!IO_PORT_WRITE_CYCLES + Mode!DELAY_SLOW_CYCLES * Mode!Delay(hz)) * hz
                  >= Mode!BUS_CLOCK_FIXED \div 2
<1> DEFINE bus == Mode!BUS_CLOCK_FIXED \div 2
           half == (bus + (hz - 1)) \div hz
<1>1. bus \in Nat /\ bus > 0
  BY SMT DEF Mode!BUS_CLOCK_FIXED
<1> HIDE DEF bus
<1>2. half \in Nat /\ half * hz >= bus
  BY <1>1, DivUp
<1> HIDE DEF half
<1>3. /\ Mode!Delay(hz) \in Nat \ {0}
      /\ 2 + 3 * Mode!Delay(hz) >= half
  <2>1. Mode!Delay(hz) = IF half > 2 THEN (half - 2 + 3 - 1) \div 3 ELSE 1
    BY SMT DEF Mode!Delay, half, bus, Mode!IO_PORT_WRITE_CYCLES, Mode!DELAY_SLOW_CYCLES
  <2> QED
    BY <1>2, <2>1
<1>4. (2 + 3 * Mode!Delay(hz)) * hz >= half * hz
  <2>1. 2 + 3 * Mode!Delay(hz) \in Nat
    BY <1>3
  <2> QED
    BY <1>2, <1>3, <2>1, TimesMono
<1>5. half * hz \in Int /\ (2 + 3 * Mode!Delay(hz)) * hz \in Int
  BY <1>2, <1>3
<1> QED
  BY <1>1, <1>2, <1>3, <1>4, <1>5, SMT DEF bus, Mode!IO_PORT_WRITE_CYCLES, Mode!DELAY_SLOW_CYCLES

LEMMA CpuClock ==
    Mode!CPU_CLOCK \in {16000000, 160000000, 240000000}
BY SMT DEF Mode!CPU_CLOCK

LEMMA DelayByDefault ==
    Mode!DefaultDelay \in Nat \ {0}
<1>1. \A c \in {16000000, 160000000, 240000000} : ((c \div 2) \div 1000000) - 2 \in Nat \ {0}
  BY SMT
<1> QED
  BY <1>1, CpuClock, SMT DEF Mode!DefaultDelay, Mode!IO_PORT_WRITE_CYCLES

LEMMA ModeInit ==
    Init => ModeInv
<1>1. ASSUME Mode!Init PROVE Mode!TypeOK
  <2>1. clock_delay \in Nat \ {0}
    BY <1>1, DelayByDefault DEF Mode!Init
  <2>2. clock \in Nat /\ fast_clock \in BOOLEAN /\ clocked \in BOOLEAN
    BY Zenon, <1>1 DEF Mode!Init
  <2> QED
    BY <1>1, <2>1, <2>2 DEF Mode!Init, Mode!TypeOK
<1>2. ASSUME Mode!Init PROVE ModeInv
  <2>1. clocked = FALSE /\ clock = 0 /\ nRESET = "released"
    BY <1>2 DEF Mode!Init
  <2> QED
    BY <1>1, <1>2, <2>1, SMT
    DEF ModeInv, SlowJtag, Mode!SessionSound, Mode!SwdEngineHasPins, Mode!JtagHasPins, Mode!ClockNotExceeded,
        Mode!ResetReleased
<1> QED
  BY <1>2 DEF Init

(* A new session, its end, the reset of the target and the pins            *)
LEMMA ModeSession ==
    ASSUME ModeInv,
           \/ \E port \in {"DEFAULT", "SWD", "JTAG", "OTHER"} : Mode!DAP_Connect(port)
           \/ Mode!DAP_Disconnect \/ Mode!DAP_ResetTarget \/ Mode!DAP_Setup
           \/ \E select \in BOOLEAN, bit \in 0..1 : Mode!DAP_SWJ_Pins(select, bit)
    PROVE  ModeInv'
<1> DEFINE Rest == /\ Mode!TypeOK /\ Mode!SwdEngineHasPins /\ Mode!JtagHasPins /\ Mode!ResetReleased
                   /\ SlowJtag => SWD_TransferSpeed # "SPI"
<1> USE DEF Mode!DAP_Data, Mode!SwdPins, Mode!PORT_SWD_SETUP, Mode!DAP_SPI_Deinit, Mode!DAP_SPI_Init,
            Mode!PORT_JTAG_SETUP, Mode!PORT_OFF, Mode!PIN_nRESET_OUT, Mode!Restore,
            Mode!TypeOK, Mode!SwdEngineHasPins, Mode!JtagHasPins, Mode!ResetReleased, SlowJtag
<1>0. Rest /\ Mode!ClockNotExceeded
  BY SMT DEF ModeInv, Mode!SessionSound
<1>1. UNCHANGED chip /\ (clock' = 0 \/ UNCHANGED << clock, fast_clock, clock_delay >>)
  BY SMT DEF Mode!DAP_Connect, Mode!DAP_Disconnect, Mode!DAP_ResetTarget, Mode!DAP_Setup, Mode!DAP_SWJ_Pins
<1>2. Mode!ClockNotExceeded'
  BY <1>0, <1>1, SMT
  DEF Mode!ClockNotExceeded, Mode!BUS_CLOCK_FIXED, Mode!IO_PORT_WRITE_CYCLES, Mode!DELAY_SLOW_CYCLES
<1>3. CASE \E port \in {"DEFAULT", "SWD", "JTAG", "OTHER"} : Mode!DAP_Connect(port)
  <2> PICK port \in {"DEFAULT", "SWD", "JTAG", "OTHER"} : Mode!DAP_Connect(port)
    BY <1>3
  <2>2. /\ clocked' \in BOOLEAN /\ (clocked' => clocked /\ port = "OTHER")
        /\ lastCommand' = "Connect" /\ UNCHANGED << chip, fast_clock, clock_delay, SWD_TransferSpeed, clock >>
    BY Zenon DEF Mode!DAP_Connect
  <2>3. ASSUME port = "OTHER" PROVE Rest'
    <3>1. UNCHANGED << connected, pins, nRESET >>
      BY <2>3 DEF Mode!DAP_Connect
    <3> QED
      BY <1>0, <2>2, <3>1, SMT
  <2>4. ASSUME port # "OTHER" PROVE Rest'
    <3>1. connected' \in {"SWD", "JTAG"} /\ pins' \in {pins, "GPIO"} /\ nRESET' \in {nRESET, "released"}
      BY <2>4 DEF Mode!DAP_Connect
    <3> QED
      BY <1>0, <2>2, <2>4, <3>1, SMT
  <2>1. Rest'
    BY <2>3, <2>4, SMT
  <2> QED
    BY <1>2, <2>1, SMT DEF ModeInv, Mode!SessionSound
<1>4. CASE Mode!DAP_Disconnect
  <2>1. Rest'
    BY <1>0, <1>4, SMT DEF Mode!DAP_Disconnect
  <2> QED
    BY <1>2, <2>1, SMT DEF ModeInv, Mode!SessionSound
<1>5. CASE Mode!DAP_ResetTarget
  <2>1. Rest'
    BY <1>0, <1>5, SMT DEF Mode!DAP_ResetTarget
  <2> QED
    BY <1>2, <2>1, SMT DEF ModeInv, Mode!SessionSound
<1>6. CASE Mode!DAP_Setup
  <2>2. /\ connected' = "DISABLED" /\ fast_clock' \in BOOLEAN /\ clock' = 0
        /\ clocked' \in BOOLEAN /\ ~clocked'
        /\ lastCommand' = "Setup" /\ nRESET' = "released" /\ UNCHANGED << chip, SWD_TransferSpeed, pins >>
        /\ clock_delay' \in Nat \ {0}
    BY Zenon, <1>6, DelayByDefault DEF Mode!DAP_Setup
  <2>1. Rest'
    BY <1>0, <2>2, SMT
  <2> QED
    BY <1>2, <2>1, SMT DEF ModeInv, Mode!SessionSound
<1>7. CASE \E select \in BOOLEAN, bit \in 0..1 : Mode!DAP_SWJ_Pins(select, bit)
  <2>1. Rest'
    BY <1>0, <1>7, SMT DEF Mode!DAP_SWJ_Pins
  <2> QED
    BY <1>2, <2>1, SMT DEF ModeInv, Mode!SessionSound
<1> QED
  BY <1>3, <1>4, <1>5, <1>6, <1>7

LEMMA ModeClock ==
    ASSUME ModeInv, NEW hz \in Clocks, Mode!DAP_SWJ_Clock(hz)
    PROVE  ModeInv'
<1> USE DEF Mode!DAP_Data, Mode!DAP_SPI_Deinit, Mode!DAP_SPI_Init, Mode!Engine, Mode!Fastest, Mode!Fast,
            Mode!Slow
<1>0. hz \in Nat
  BY PartsAssumption, SMT DEF Mode!ModeAssumption
<1>1. UNCHANGED << chip, connected, nRESET >> /\ lastCommand' = "SWJ_Clock"
  BY SMT DEF Mode!DAP_SWJ_Clock
<1>2. \/ UNCHANGED << SWD_TransferSpeed, pins, fast_clock, clock_delay, clock, clocked >>
      \/ /\ hz > 0 /\ clock' = hz /\ clocked' = TRUE
         /\ fast_clock' = TRUE /\ clock_delay' = 1
         /\ \/ connected # "JTAG" /\ pins' = "SPI" /\ SWD_TransferSpeed' = "SPI"
            \/ SWD_TransferSpeed' = "GPIO_fast" /\ pins' = "GPIO"
            \/ /\ SWD_TransferSpeed' = "GPIO_fast" /\ pins' = pins
               /\ connected = "JTAG" /\ hz >= 10000000
      \/ /\ hz > 0 /\ clock' = hz /\ clocked' = TRUE
         /\ fast_clock' = FALSE /\ clock_delay' = Mode!Delay(hz)
         /\ pins' = "GPIO" /\ SWD_TransferSpeed' = "GPIO_normal"
  BY SMT DEF Mode!DAP_SWJ_Clock
<1>3. hz > 0 => /\ Mode!Delay(hz) \in Nat \ {0}
                /\ (2 + 3 * Mode!Delay(hz)) * hz >= Mode!BUS_CLOCK_FIXED \div 2
  BY <1>0, DelayLongEnough, SMT DEF Mode!IO_PORT_WRITE_CYCLES, Mode!DELAY_SLOW_CYCLES
<1>4. /\ Mode!TypeOK /\ Mode!SwdEngineHasPins /\ Mode!JtagHasPins /\ Mode!ClockNotExceeded
      /\ SlowJtag => SWD_TransferSpeed # "SPI"
  BY SMT DEF ModeInv, Mode!SessionSound
<1>5. Mode!TypeOK'
  <2>1. /\ SWD_TransferSpeed' \in {"SPI", "GPIO_fast", "GPIO_normal"}
        /\ pins' \in {"BOOT", "GPIO", "SPI"} /\ clock' \in Nat
    BY <1>0, <1>2, <1>4, SMT DEF Mode!TypeOK
  <2>2. clock_delay' \in Nat \ {0}
    BY <1>2, <1>3, <1>4, SMT DEF Mode!TypeOK
  <2>3. fast_clock' \in BOOLEAN /\ clocked' \in BOOLEAN
    <3>1. fast_clock \in BOOLEAN /\ clocked \in BOOLEAN
      BY <1>4, SMT DEF Mode!TypeOK
    <3>2. /\ fast_clock' = fast_clock \/ fast_clock' = TRUE \/ fast_clock' = FALSE
          /\ clocked' = clocked \/ clocked' = TRUE
      BY <1>2, SMT
    <3> QED
      BY <3>1, <3>2, Zenon
  <2> QED
    BY <1>1, <1>4, <2>1, <2>2, <2>3, SMT DEF Mode!TypeOK
<1>6. Mode!ClockNotExceeded'
  <2>1. Mode!BUS_CLOCK_FIXED' = Mode!BUS_CLOCK_FIXED
    BY <1>1, SMT DEF Mode!BUS_CLOCK_FIXED
  <2> QED
    BY <1>2, <1>3, <1>4, <2>1, SMT
    DEF Mode!ClockNotExceeded, Mode!IO_PORT_WRITE_CYCLES, Mode!DELAY_SLOW_CYCLES
<1>7. /\ Mode!SwdEngineHasPins' /\ Mode!JtagHasPins' /\ Mode!ResetReleased'
      /\ SlowJtag' => SWD_TransferSpeed' # "SPI"
  BY <1>0, <1>1, <1>2, <1>4, SMT
  DEF SlowJtag, Mode!SwdEngineHasPins, Mode!JtagHasPins, Mode!ResetReleased
<1> QED
  BY <1>5, <1>6, <1>7, SMT DEF ModeInv, Mode!SessionSound

LEMMA ModeStep ==
    ASSUME ModeInv, [Next]_vars
    PROVE  ModeInv'
<1>1. UNCHANGED mode \/ Mode!Next
  BY DEF Next, vars
<1>2. CASE UNCHANGED mode
  BY <1>2, SMT
  DEF mode, ModeInv, SlowJtag, Mode!TypeOK, Mode!SessionSound, Mode!SwdEngineHasPins, Mode!JtagHasPins,
      Mode!ClockNotExceeded, Mode!ResetReleased, Mode!BUS_CLOCK_FIXED
<1>3. CASE Mode!Next
  BY <1>3, ModeSession, ModeClock DEF Mode!Next
<1> QED
  BY <1>1, <1>2, <1>3

(* A session finds what it needs whatever the ones before it left: the     *)
(* engine that DAP_SWJ_Clock chose has the pins, and DAP_Disconnect leaves *)
(* no target in reset, for every clock and on every chip; and where the    *)
(* pins are clocked with a delay, which is not so with fast_clock, the     *)
(* delay loop is never faster than the clock asked for.                    *)
THEOREM SessionsSound == Spec => []SessionSound
<1>1. Init => ModeInv
  BY ModeInit
<1>2. ModeInv /\ [Next]_vars => ModeInv'
  BY ModeStep
<1>3. ModeInv => SessionSound
  BY DEF ModeInv, SessionSound
<1> QED
  BY <1>1, <1>2, <1>3, PTL DEF Spec

----------------------------------------------------------------------------
(* SWD_Transfer() through the pins and through SPI                         *)

(* The settings are those a debugger and a target can have.                *)
WireInv ==
    /\ wireChip \in {"ESP8266", "ESP32", "ESP32C3", "ESP32S3"} /\ engine \in Wire!Speeds
    /\ turnaround \in 1..4 /\ data_phase \in BOOLEAN /\ idle_cycles \in 0..255
    /\ target_turnaround \in 1..4 /\ orundetect \in BOOLEAN /\ in_step \in BOOLEAN

Letters == {"d", "0", "1", "Z", "T", "t"}

(* Clock by clock: the target hears data where it listens, and where it    *)
(* drives the line the probe does nothing but what beside says.            *)
Fits(h, t, beside) ==
    /\ h \in Seq(Letters) /\ t \in Seq(Letters) /\ Len(h) = Len(t)
    /\ \A i \in 1..Len(t) : t[i] = "d" => h[i] \in {"d", "0"}
    /\ \A i \in 1..Len(t) : t[i] = "T" => h[i] \in beside

(* Clocks in which no target sees a start bit                              *)
IdleClocks(r) == r \in Seq(Letters) /\ \A i \in 1..Len(r) : r[i] \in {"0", "Z"}

LEMMA Join ==
    ASSUME NEW s \in Seq(Letters), NEW t \in Seq(Letters)
    PROVE  /\ s \o t \in Seq(Letters)
           /\ Len(s) \in Nat /\ Len(t) \in Nat /\ Len(s \o t) = Len(s) + Len(t)
           /\ \A i \in 1..(Len(s) + Len(t)) : (s \o t)[i] = IF i <= Len(s) THEN s[i] ELSE t[i - Len(s)]
BY ConcatProperties

LEMMA Regroup ==
    ASSUME NEW s \in Seq(Letters), NEW t \in Seq(Letters), NEW u \in Seq(Letters)
    PROVE  (s \o t) \o u = s \o (t \o u)
BY ConcatAssociative

LEMMA RepSeq ==
    ASSUME NEW n \in Nat, NEW x \in Letters
    PROVE  /\ Wire!Rep(n, x) \in Seq(Letters) /\ Len(Wire!Rep(n, x)) = n
           /\ \A i \in 1..n : Wire!Rep(n, x)[i] = x
<1>1. Wire!Rep(n, x) \in [1..n -> Letters] /\ \A i \in 1..n : Wire!Rep(n, x)[i] = x
  BY DEF Wire!Rep
<1>2. Wire!Rep(n, x) \in Seq(Letters)
  BY <1>1, SeqDef, Zenon
<1>3. Len(Wire!Rep(n, x)) = n
  <2>1. DOMAIN Wire!Rep(n, x) = 1..n
    BY <1>1
  <2>2. DOMAIN Wire!Rep(n, x) = 1..Len(Wire!Rep(n, x)) /\ Len(Wire!Rep(n, x)) \in Nat
    BY <1>2, LenProperties
  <2> QED
    BY <2>1, <2>2
<1> QED
  BY <1>1, <1>2, <1>3

LEMMA RepFits ==
    ASSUME NEW n \in Nat, NEW x \in Letters, NEW y \in Letters, NEW beside,
           y = "d" => x \in {"d", "0"}, y = "T" => x \in beside
    PROVE  Fits(Wire!Rep(n, x), Wire!Rep(n, y), beside)
BY Zenon, RepSeq DEF Fits

LEMMA RepSplit ==
    ASSUME NEW m \in Nat, NEW n \in Nat, NEW x \in Letters
    PROVE  Wire!Rep(m + n, x) = Wire!Rep(m, x) \o Wire!Rep(n, x)
<1> DEFINE s == Wire!Rep(m, x)
           t == Wire!Rep(n, x)
           u == Wire!Rep(m + n, x)
<1>s. s \in Seq(Letters) /\ Len(s) = m /\ \A i \in 1..m : s[i] = x
  BY RepSeq
<1>t. t \in Seq(Letters) /\ Len(t) = n /\ \A i \in 1..n : t[i] = x
  BY RepSeq
<1>u. u \in Seq(Letters) /\ Len(u) = m + n /\ \A i \in 1..(m + n) : u[i] = x
  <2>1. m + n \in Nat
    OBVIOUS
  <2> QED
    BY <2>1, RepSeq
<1> HIDE DEF s, t, u
<1>1. /\ s \in Seq(Letters) /\ Len(s) = m /\ \A i \in 1..m : s[i] = x
      /\ t \in Seq(Letters) /\ Len(t) = n /\ \A i \in 1..n : t[i] = x
      /\ u \in Seq(Letters) /\ Len(u) = m + n /\ \A i \in 1..(m + n) : u[i] = x
  BY <1>s, <1>t, <1>u
<1>2. /\ s \o t \in Seq(Letters) /\ Len(s \o t) = m + n
      /\ \A i \in 1..(m + n) : (s \o t)[i] = IF i <= m THEN s[i] ELSE t[i - m]
  BY <1>1, Join
<1>3. \A i \in 1..(m + n) : (s \o t)[i] = u[i]
  <2> TAKE i \in 1..(m + n)
  <2>1. u[i] = x /\ (i <= m => s[i] = x) /\ (~(i <= m) => i - m \in 1..n /\ t[i - m] = x)
    BY <1>1
  <2> QED
    BY <1>2, <2>1
<1>4. u = s \o t
  <2>1. Len(u) = Len(s \o t) /\ \A i \in 1..Len(u) : u[i] = (s \o t)[i]
    BY <1>1, <1>2, <1>3
  <2> QED
    BY <1>1, <1>2, <2>1, SeqEqual
<1> QED
  BY <1>4 DEF s, t, u

LEMMA EmptyFits ==
    ASSUME NEW beside
    PROVE  Fits(<< >>, << >>, beside) /\ IdleClocks(<< >>) /\ << >> \in Seq(Letters) /\ Len(<< >>) = 0
<1>1. << >> \in Seq(Letters) /\ Len(<< >>) = 0
  BY EmptySeq
<1> QED
  BY <1>1 DEF Fits, IdleClocks

LEMMA ConcatFits ==
    ASSUME NEW beside, NEW g, NEW s, NEW h, NEW t,
           Fits(g, s, beside), Fits(h, t, beside)
    PROVE  Fits(g \o h, s \o t, beside)
<1>1. /\ g \in Seq(Letters) /\ h \in Seq(Letters) /\ s \in Seq(Letters) /\ t \in Seq(Letters)
      /\ Len(g) = Len(s) /\ Len(h) = Len(t) /\ Len(s) \in Nat /\ Len(t) \in Nat
  BY DEF Fits
<1>2. /\ s \o t \in Seq(Letters) /\ Len(s \o t) = Len(s) + Len(t)
      /\ \A i \in 1..(Len(s) + Len(t)) : (s \o t)[i] = IF i <= Len(s) THEN s[i] ELSE t[i - Len(s)]
  BY <1>1, Join
<1>3. /\ g \o h \in Seq(Letters) /\ Len(g \o h) = Len(s) + Len(t)
      /\ \A i \in 1..(Len(s) + Len(t)) : (g \o h)[i] = IF i <= Len(s) THEN g[i] ELSE h[i - Len(s)]
  <2>1. /\ g \o h \in Seq(Letters) /\ Len(g \o h) = Len(g) + Len(h)
        /\ \A i \in 1..(Len(g) + Len(h)) : (g \o h)[i] = IF i <= Len(g) THEN g[i] ELSE h[i - Len(g)]
    BY Zenon, <1>1, Join
  <2> QED
    BY <1>1, <2>1
<1>4. ASSUME NEW i \in 1..(Len(s) + Len(t))
      PROVE  /\ (s \o t)[i] = "d" => (g \o h)[i] \in {"d", "0"}
             /\ (s \o t)[i] = "T" => (g \o h)[i] \in beside
  <2>1. CASE i <= Len(s)
    <3>1. i \in 1..Len(s) /\ (s \o t)[i] = s[i] /\ (g \o h)[i] = g[i]
      BY <1>1, <1>2, <1>3, <2>1
    <3> QED
      BY <3>1 DEF Fits
  <2>2. CASE ~(i <= Len(s))
    <3>1. i - Len(s) \in 1..Len(t) /\ (s \o t)[i] = t[i - Len(s)] /\ (g \o h)[i] = h[i - Len(s)]
      BY <1>1, <1>2, <1>3, <2>2
    <3> QED
      BY <3>1 DEF Fits
  <2> QED
    BY Zenon, <2>1, <2>2
<1> QED
  BY <1>2, <1>3, <1>4 DEF Fits

LEMMA ConcatIdle ==
    ASSUME NEW q, NEW r, IdleClocks(q), IdleClocks(r)
    PROVE  IdleClocks(q \o r) /\ Len(q \o r) = Len(q) + Len(r)
<1>1. /\ q \in Seq(Letters) /\ r \in Seq(Letters) /\ Len(q) \in Nat /\ Len(r) \in Nat
  BY DEF IdleClocks
<1>2. /\ q \o r \in Seq(Letters) /\ Len(q \o r) = Len(q) + Len(r)
      /\ \A i \in 1..(Len(q) + Len(r)) : (q \o r)[i] = IF i <= Len(q) THEN q[i] ELSE r[i - Len(q)]
  BY <1>1, Join
<1>3. ASSUME NEW i \in 1..(Len(q) + Len(r)) PROVE (q \o r)[i] \in {"0", "Z"}
  <2>1. CASE i <= Len(q)
    BY <1>1, <1>2, <2>1 DEF IdleClocks
  <2>2. CASE ~(i <= Len(q))
    BY <1>1, <1>2, <2>2, i - Len(q) \in 1..Len(r) DEF IdleClocks
  <2> QED
    BY <2>1, <2>2
<1> QED
  BY <1>2, <1>3 DEF IdleClocks

(* The target takes the packet, and rest is what comes after it.           *)
Counted(h, t, rest) ==
    Wire!Follows(h, t) /\ Len(h) = Len(t) + Len(rest) /\ Len(rest) \in Nat /\ Len(t) \in Nat

(* A packet in its parts: start, acknowledge, data, and the clocks after it *)
LEMMA PacketFits ==
    ASSUME NEW beside, NEW h0, NEW t0, NEW h1, NEW t1, NEW h2, NEW t2, NEW r,
           Fits(h0, t0, beside), Fits(h1, t1, beside), Fits(h2, t2, beside), IdleClocks(r),
           NEW h, NEW t, h = (h0 \o h1) \o (h2 \o r), t = t0 \o (t1 \o t2)
    PROVE  /\ Counted(h, t, r)
           /\ beside = {"Z"} => ~Wire!Clash(h, t)
<1> DEFINE g == (h0 \o h1) \o h2
           s == (t0 \o t1) \o t2
<1>1. Fits(g, s, beside)
  BY ConcatFits
<1>2. /\ h0 \in Seq(Letters) /\ h1 \in Seq(Letters) /\ h2 \in Seq(Letters) /\ r \in Seq(Letters)
      /\ t0 \in Seq(Letters) /\ t1 \in Seq(Letters) /\ t2 \in Seq(Letters)
  BY DEF Fits, IdleClocks
<1>3. (h0 \o h1) \o (h2 \o r) = g \o r
  <2>1. h0 \o h1 \in Seq(Letters)
    BY <1>2, Join
  <2> QED
    BY <1>2, <2>1, Regroup, Zenon
<1>4. t0 \o (t1 \o t2) = s
  <2>1. (t0 \o t1) \o t2 = t0 \o (t1 \o t2)
    <3>1. t0 \in Seq(Letters) /\ t1 \in Seq(Letters) /\ t2 \in Seq(Letters)
      BY <1>2
    <3> QED
      BY <3>1, Regroup, Zenon
  <2> QED
    BY <2>1
<1> HIDE DEF g, s
<1>5. /\ g \in Seq(Letters) /\ s \in Seq(Letters) /\ Len(g) = Len(s) /\ Len(s) \in Nat
      /\ Len(r) \in Nat
  BY <1>1, <1>2 DEF Fits
<1>6. /\ Len(g \o r) = Len(s) + Len(r)
      /\ \A i \in 1..(Len(s) + Len(r)) : (g \o r)[i] = IF i <= Len(s) THEN g[i] ELSE r[i - Len(s)]
  <2>1. /\ Len(g \o r) = Len(g) + Len(r)
        /\ \A i \in 1..(Len(g) + Len(r)) : (g \o r)[i] = IF i <= Len(g) THEN g[i] ELSE r[i - Len(g)]
    BY Zenon, <1>2, <1>5, Join
  <2> QED
    BY <1>5, <2>1
<1>7. \A i \in 1..Len(s) : i \in 1..(Len(s) + Len(r)) /\ (g \o r)[i] = g[i]
  BY <1>5, <1>6
<1>8. \A i \in (Len(s) + 1)..(Len(s) + Len(r)) : (g \o r)[i] \in {"0", "Z"}
  <2> TAKE i \in (Len(s) + 1)..(Len(s) + Len(r))
  <2>1. i - Len(s) \in 1..Len(r) /\ (g \o r)[i] = r[i - Len(s)]
    BY <1>5, <1>6
  <2> QED
    BY <2>1 DEF IdleClocks
<1>9. Wire!Follows(g \o r, s)
  BY <1>1, <1>5, <1>6, <1>7, <1>8 DEF Fits, Wire!Follows
<1>10. beside = {"Z"} => ~Wire!Clash(g \o r, s)
  BY <1>1, <1>5, <1>6, <1>7 DEF Fits, Wire!Clash
<1> QED
  BY <1>3, <1>4, <1>5, <1>6, <1>9, <1>10 DEF Counted

(* Start and turnaround, then the acknowledge, through the pins            *)
LEMMA GpioStart ==
    ASSUME WireInv, NEW beside, target_turnaround = turnaround,
           Wire!Released \in beside
    PROVE  /\ Fits(Wire!Rep(8, "d") \o Wire!GpioTurnaround,
                   Wire!Rep(8, "d") \o Wire!Rep(target_turnaround, "t"), beside)
           /\ Fits(Wire!GpioTurnaround, Wire!Rep(target_turnaround, "t"), beside)
           /\ \A n \in Nat : Fits(Wire!Rep(n, Wire!Released), Wire!Rep(n, "T"), beside)
           /\ Wire!Released \in Letters
<1>1. Wire!Released \in Letters /\ Wire!Released # "d" 
  BY DEF Wire!Released, Letters
<1>2. turnaround \in Nat
  BY DEF WireInv
<1>3. Fits(Wire!GpioTurnaround, Wire!Rep(target_turnaround, "t"), beside)
  BY <1>1, <1>2, RepFits DEF Wire!GpioTurnaround, Letters
<1>4. Fits(Wire!Rep(8, "d"), Wire!Rep(8, "d"), beside)
  BY RepFits DEF Letters
<1>5. \A n \in Nat : Fits(Wire!Rep(n, Wire!Released), Wire!Rep(n, "T"), beside)
  BY <1>1, RepFits DEF Letters
<1> QED
  BY <1>1, <1>3, <1>4, <1>5, ConcatFits

(* SWD_TransferSlow() and its kin know a parity error by the data only     *)
HostAck(ack) == IF ack = "PARITY" THEN "OK" ELSE ack

LEMMA GpioPacket ==
    ASSUME WireInv, ~Wire!UsesSpi, Wire!Agreed, NEW rnw \in BOOLEAN, NEW beside,
           Wire!Released \in beside,
           NEW ack \in {"OK", "WAIT", "FAULT", "PARITY"}
    PROVE  /\ Wire!Follows(Wire!Host(rnw, HostAck(ack)), Wire!Target(rnw, ack))
           /\ beside = {"Z"} => ~Wire!Clash(Wire!Host(rnw, HostAck(ack)), Wire!Target(rnw, ack))
           /\ ack = "OK" => Len(Wire!Host(rnw, HostAck(ack))) - Len(Wire!Target(rnw, ack)) = idle_cycles
<1> DEFINE trn == Wire!Rep(target_turnaround, "t")
           start == Wire!Rep(8, "d") \o Wire!GpioTurnaround
           heard == Wire!Rep(8, "d") \o trn
           read == Wire!Rep(33, Wire!Released)
           idle == Wire!Rep(idle_cycles, "0")
           h == Wire!Host(rnw, HostAck(ack))
           t == Wire!Target(rnw, ack)
<1>1. target_turnaround = turnaround /\ orundetect = data_phase
  BY DEF Wire!Agreed
<1>2. /\ Fits(start, heard, beside) /\ Fits(Wire!GpioTurnaround, trn, beside)
      /\ Fits(Wire!Rep(3, Wire!Released), Wire!Rep(3, "T"), beside)
      /\ Fits(read, Wire!Rep(33, "T"), beside)
      /\ Fits(<< >>, << >>, beside)
      /\ Wire!Released \in Letters
  BY <1>1, GpioStart, EmptyFits
<1>3. Fits(Wire!Rep(33, "d"), Wire!Rep(33, "d"), beside) /\ Fits(Wire!Rep(33, "0"), Wire!Rep(33, "d"), beside)
  BY RepFits DEF Letters
<1>4. Fits(Wire!Rep(0, Wire!Released), << >>, beside) /\ Fits(Wire!Rep(0, "0"), << >>, beside)
  <2>1. ASSUME NEW x \in Letters PROVE Fits(Wire!Rep(0, x), << >>, beside)
    <3>1. Wire!Rep(0, x) \in Seq(Letters) /\ Len(Wire!Rep(0, x)) = 0
      BY RepSeq
    <3>2. << >> \in Seq(Letters) /\ Len(<< >>) = 0
      BY EmptySeq
    <3> QED
      BY <3>1, <3>2 DEF Fits
  <2>2. "0" \in Letters
    BY DEF Letters
  <2> QED
    BY <1>2, <2>1, <2>2
<1>5. IdleClocks(idle) /\ Len(idle) = idle_cycles /\ IdleClocks(<< >>) /\ Len(<< >>) = 0
  BY RepSeq, EmptyFits DEF IdleClocks, WireInv, Letters
<1> HIDE DEF trn, start, heard, read, idle
<1>6. \E h2, t2 : /\ Fits(h2, t2, beside)
                  /\ t = heard \o (Wire!Rep(3, "T") \o t2)
                  /\ h = (start \o Wire!Rep(3, Wire!Released))
                           \o IF Wire!Failed(ack) THEN h2 ELSE h2 \o idle
  <2> DEFINE X(d, e) == IF rnw THEN d \o Wire!GpioTurnaround ELSE Wire!GpioTurnaround \o e
             Y(d, e) == IF rnw THEN d \o trn ELSE trn \o e
  <2>1. ASSUME NEW d, NEW e, NEW d1, NEW e1, Fits(d, d1, beside), Fits(e, e1, beside)
        PROVE  Fits(X(d, e), Y(d1, e1), beside)
    BY <1>2, <2>1, ConcatFits
  <2>2. CASE ~Wire!Failed(ack)
    <3>1. t = heard \o (Wire!Rep(3, "T") \o Y(Wire!Rep(33, "T"), Wire!Rep(33, "d")))
      BY Zenon, <2>2 DEF Wire!Target, heard, trn
    <3>2. HostAck(ack) = "OK"
      BY <2>2 DEF HostAck, Wire!Failed
    <3>3. h = (start \o Wire!Rep(3, Wire!Released)) \o (X(read, Wire!Rep(33, "d")) \o idle)
      BY Zenon, <3>2 DEF Wire!Host, Wire!Gpio, Wire!GpioTransferred, Wire!Failed, start, read, idle
    <3> HIDE DEF X, Y
    <3> QED
      BY Zenon, <1>2, <1>3, <2>1, <2>2, <3>1, <3>3
  <2>3. CASE Wire!Failed(ack) /\ data_phase
    <3>1. t = heard \o (Wire!Rep(3, "T") \o Y(Wire!Rep(33, "T"), Wire!Rep(33, "d")))
      BY Zenon, <1>1, <2>3 DEF Wire!Target, Wire!Failed, heard, trn
    <3>2. HostAck(ack) = ack /\ ack # "NOACK"
      BY <2>3 DEF HostAck, Wire!Failed
    <3>3. h = (start \o Wire!Rep(3, Wire!Released)) \o X(read, Wire!Rep(33, "0"))
      BY Zenon, <2>3, <3>2 DEF Wire!Host, Wire!Gpio, Wire!GpioFailed, start, read
    <3> HIDE DEF X, Y
    <3> QED
      BY Zenon, <1>2, <1>3, <2>1, <2>3, <3>1, <3>3
  <2>4. CASE Wire!Failed(ack) /\ ~data_phase
    <3>1. t = heard \o (Wire!Rep(3, "T") \o Y(<< >>, << >>))
      BY Zenon, <1>1, <2>4 DEF Wire!Target, Wire!Failed, heard, trn
    <3>2. HostAck(ack) = ack /\ ack # "NOACK"
      BY <2>4 DEF HostAck, Wire!Failed
    <3>3. h = (start \o Wire!Rep(3, Wire!Released)) \o X(Wire!Rep(0, Wire!Released), Wire!Rep(0, "0"))
      BY Zenon, <2>4, <3>2 DEF Wire!Host, Wire!Gpio, Wire!GpioFailed, start
    <3> HIDE DEF X, Y
    <3> QED
      BY Zenon, <1>4, <2>1, <2>4, <3>1, <3>3
  <2> QED
    BY Zenon, <2>2, <2>3, <2>4
<1> HIDE DEF h, t
<1>7. PICK h2, t2 : /\ Fits(h2, t2, beside)
                    /\ t = heard \o (Wire!Rep(3, "T") \o t2)
                    /\ h = (start \o Wire!Rep(3, Wire!Released))
                             \o IF Wire!Failed(ack) THEN h2 ELSE h2 \o idle
  BY Zenon, <1>6
<1>8. CASE Wire!Failed(ack)
  <2>1. h2 \o << >> = h2
    BY <1>7, ConcatEmptySeq DEF Fits
  <2>2. h = (start \o Wire!Rep(3, Wire!Released)) \o (h2 \o << >>)
    BY <1>7, <1>8, <2>1
  <2>3. Wire!Follows(h, t) /\ (beside = {"Z"} => ~Wire!Clash(h, t))
    <3>1. Fits(start, heard, beside) /\ Fits(Wire!Rep(3, Wire!Released), Wire!Rep(3, "T"), beside)
      BY <1>2
    <3>2. Fits(h2, t2, beside) /\ IdleClocks(<< >>) /\ t = heard \o (Wire!Rep(3, "T") \o t2)
      BY <1>5, <1>7
    <3>3. Counted(h, t, << >>) /\ (beside = {"Z"} => ~Wire!Clash(h, t))
      BY Zenon, <2>2, <3>1, <3>2, PacketFits
    <3> QED
      BY <3>3 DEF Counted
  <2> QED
    BY <1>8, <2>3 DEF h, t, Wire!Failed
<1>9. CASE ~Wire!Failed(ack)
  <2>1. h = (start \o Wire!Rep(3, Wire!Released)) \o (h2 \o idle)
    BY <1>7, <1>9
  <2>2. /\ Wire!Follows(h, t) /\ (beside = {"Z"} => ~Wire!Clash(h, t))
        /\ Len(h) = Len(t) + Len(idle) /\ Len(idle) \in Nat /\ Len(t) \in Nat
    <3>1. Fits(start, heard, beside) /\ Fits(Wire!Rep(3, Wire!Released), Wire!Rep(3, "T"), beside)
      BY <1>2
    <3>2. Fits(h2, t2, beside) /\ IdleClocks(idle) /\ t = heard \o (Wire!Rep(3, "T") \o t2)
      BY <1>5, <1>7
    <3>3. Counted(h, t, idle) /\ (beside = {"Z"} => ~Wire!Clash(h, t))
      BY Zenon, <2>1, <3>1, <3>2, PacketFits
    <3> QED
      BY <3>3 DEF Counted
  <2> QED
    BY <1>5, <2>2 DEF h, t
<1> QED
  BY <1>8, <1>9

(* Through SPI: one turnaround clock, and idle clocks of whatever level    *)
LEMMA SpiRead ==
    ASSUME WireInv, Wire!UsesSpi, Wire!Agreed, NEW ack \in {"OK", "WAIT", "FAULT", "PARITY"}
    PROVE  /\ Wire!Follows(Wire!Host(TRUE, HostAck(ack)), Wire!Target(TRUE, ack))
           /\ ~Wire!Clash(Wire!Host(TRUE, HostAck(ack)), Wire!Target(TRUE, ack))
<1> DEFINE beside == {"Z"}
           level == IF Wire!Late THEN "0" ELSE "Z"
           start == Wire!Rep(8, "d") \o Wire!Rep(1, level)
           heard == Wire!Rep(8, "d") \o Wire!Rep(1, "t")
           h == Wire!Host(TRUE, HostAck(ack))
           t == Wire!Target(TRUE, ack)
<1>1. target_turnaround = 1 /\ ~orundetect
  BY DEF Wire!Agreed
<1>l. level \in Letters
  BY DEF Letters
<1>2. Fits(Wire!Rep(8, "d"), Wire!Rep(8, "d"), beside) /\ Fits(Wire!Rep(3, "Z"), Wire!Rep(3, "T"), beside)
  BY RepFits DEF Letters
<1>3. ASSUME NEW x \in Letters PROVE Fits(Wire!Rep(1, x), Wire!Rep(1, "t"), beside)
  BY RepFits DEF Letters
<1>4. Fits(start, heard, beside)
  BY <1>2, <1>3, <1>l, ConcatFits
<1>5. IdleClocks(<< >>)
  BY EmptyFits
<1>6. \E h2, t2 : /\ Fits(h2, t2, beside)
                  /\ t = heard \o (Wire!Rep(3, "T") \o t2)
                  /\ h = (start \o Wire!Rep(3, "Z")) \o h2
  <2>1. CASE ~Wire!Failed(ack)
    <3>1. t = heard \o (Wire!Rep(3, "T") \o (Wire!Rep(33, "T") \o Wire!Rep(1, "t")))
      BY Zenon, <1>1, <2>1 DEF Wire!Target
    <3>2. HostAck(ack) = "OK"
      BY <2>1 DEF HostAck, Wire!Failed
    <3>3. h = (start \o Wire!Rep(3, "Z")) \o Wire!Rep(34, "Z")
      BY <3>2 DEF Wire!Host, Wire!Spi, Wire!SpiHeader, Wire!SpiRead, Wire!DAP_SPI_Read_Data, Wire!Failed
    <3>4. Wire!Rep(34, "Z") = Wire!Rep(33, "Z") \o Wire!Rep(1, "Z")
      <4>1. "Z" \in Letters
        BY DEF Letters
      <4>2. Wire!Rep(33 + 1, "Z") = Wire!Rep(33, "Z") \o Wire!Rep(1, "Z")
        BY Zenon, <4>1, RepSplit
      <4> QED
        BY <4>2
    <3>5. Fits(Wire!Rep(33, "Z") \o Wire!Rep(1, "Z"), Wire!Rep(33, "T") \o Wire!Rep(1, "t"), beside)
      <4>1. Fits(Wire!Rep(33, "Z"), Wire!Rep(33, "T"), beside) /\ Fits(Wire!Rep(1, "Z"), Wire!Rep(1, "t"), beside)
        BY RepFits DEF Letters
      <4> QED
        BY <4>1, ConcatFits
    <3> QED
      BY Zenon, <3>1, <3>3, <3>4, <3>5
  <2>2. CASE Wire!Failed(ack)
    <3>1. t = heard \o (Wire!Rep(3, "T") \o (<< >> \o Wire!Rep(1, "t")))
      BY Zenon, <1>1, <2>2 DEF Wire!Target, Wire!Failed
    <3>2. << >> \o Wire!Rep(1, "t") = Wire!Rep(1, "t")
      <4>1. Wire!Rep(1, "t") \in Seq(Letters)
        BY RepSeq DEF Letters
      <4> QED
        BY <4>1, ConcatEmptySeq
    <3>3. PICK x \in {"0", "Z"} : h = (start \o Wire!Rep(3, "Z")) \o Wire!Rep(1, x)
      <4>1. HostAck(ack) = ack /\ ack # "NOACK"
        BY <2>2 DEF HostAck, Wire!Failed
      <4> QED
        BY Zenon, <2>2, <4>1
        DEF Wire!Host, Wire!Spi, Wire!SpiHeader, Wire!SpiRead, Wire!DAP_SPI_Fast_Cycle,
            Wire!DAP_SPI_Generate_Cycle
    <3>4. Fits(Wire!Rep(1, x), Wire!Rep(1, "t"), beside)
      BY <1>3 DEF Letters
    <3> QED
      BY Zenon, <3>1, <3>2, <3>3, <3>4
  <2> QED
    BY Zenon, <2>1, <2>2
<1> HIDE DEF h, t, start, heard, beside
<1>7. PICK h2, t2 : /\ Fits(h2, t2, beside)
                    /\ t = heard \o (Wire!Rep(3, "T") \o t2)
                    /\ h = (start \o Wire!Rep(3, "Z")) \o h2
  BY Zenon, <1>6
<1>8. h = (start \o Wire!Rep(3, "Z")) \o (h2 \o << >>)
  <2>1. h2 \o << >> = h2
    BY <1>7, ConcatEmptySeq DEF Fits
  <2> QED
    BY <1>7, <2>1
<1>9. Wire!Follows(h, t) /\ (beside = {"Z"} => ~Wire!Clash(h, t))
  <2>1. Fits(start, heard, beside) /\ Fits(Wire!Rep(3, "Z"), Wire!Rep(3, "T"), beside)
    BY <1>2, <1>4
  <2>2. Fits(h2, t2, beside) /\ IdleClocks(<< >>) /\ t = heard \o (Wire!Rep(3, "T") \o t2)
    BY <1>5, <1>7
  <2>3. Counted(h, t, << >>) /\ (beside = {"Z"} => ~Wire!Clash(h, t))
    BY Zenon, <1>8, <2>1, <2>2, PacketFits
  <2> QED
    BY <2>3 DEF Counted
<1> QED
  BY Zenon, <1>9 DEF h, t, beside

LEMMA SpiWrite ==
    ASSUME WireInv, Wire!UsesSpi, Wire!Agreed, NEW ack \in {"OK", "WAIT", "FAULT"}
    PROVE  /\ Wire!Follows(Wire!Host(FALSE, ack), Wire!Target(FALSE, ack))
           /\ ~Wire!Clash(Wire!Host(FALSE, ack), Wire!Target(FALSE, ack))
           /\ ack = "OK" => Len(Wire!Host(FALSE, ack)) - Len(Wire!Target(FALSE, ack)) >= idle_cycles
<1> DEFINE beside == {"Z"}
           level == IF Wire!Late THEN "0" ELSE "Z"
           start == Wire!Rep(8, "d") \o Wire!Rep(1, level)
           heard == Wire!Rep(8, "d") \o Wire!Rep(1, "t")
           answer == Wire!Rep(3, "T") \o Wire!Rep(1, "t")
           late == Wire!Rep(IF Wire!Late THEN 1 ELSE 0, "0")
           idle == Wire!DAP_SPI_Generate_Cycle(idle_cycles)
           rest == late \o idle
           h == Wire!Host(FALSE, ack)
           t == Wire!Target(FALSE, ack)
<1>1. target_turnaround = 1 /\ ~orundetect
  BY DEF Wire!Agreed
<1>2. /\ Fits(Wire!Rep(8, "d"), Wire!Rep(8, "d"), beside)
      /\ Fits(Wire!Rep(33, "d"), Wire!Rep(33, "d"), beside)
  BY RepFits DEF Letters
<1>3. ASSUME NEW x \in Letters PROVE Fits(Wire!Rep(1, x), Wire!Rep(1, "t"), beside)
  BY RepFits DEF Letters
<1>4. Fits(start, heard, beside)
  BY <1>2, <1>3, ConcatFits DEF Letters
<1>5. Fits(Wire!Rep(4, "Z"), answer, beside)
  <2>1. Fits(Wire!Rep(3, "Z"), Wire!Rep(3, "T"), beside)
    BY RepFits DEF Letters
  <2>2. Wire!Rep(4, "Z") = Wire!Rep(3, "Z") \o Wire!Rep(1, "Z")
    <3>1. "Z" \in Letters
      BY DEF Letters
    <3>2. Wire!Rep(3 + 1, "Z") = Wire!Rep(3, "Z") \o Wire!Rep(1, "Z")
      BY Zenon, <3>1, RepSplit
    <3> QED
      BY <3>2
  <2>4. Fits(Wire!Rep(1, "Z"), Wire!Rep(1, "t"), beside)
    BY <1>3 DEF Letters
  <2>3. Fits(Wire!Rep(3, "Z") \o Wire!Rep(1, "Z"), answer, beside)
    BY <2>1, <2>4, ConcatFits
  <2> QED
    BY Zenon, <2>2, <2>3
<1>6. IdleClocks(late) /\ IdleClocks(idle) /\ Len(idle) = idle_cycles /\ Len(late) \in Nat
  <2>1. ASSUME NEW n \in Nat, NEW x \in {"0", "Z"}
        PROVE  IdleClocks(Wire!Rep(n, x)) /\ Len(Wire!Rep(n, x)) = n
    BY RepSeq DEF IdleClocks, Letters
  <2>2. idle_cycles \in Nat
    BY DEF WireInv
  <2> QED
    BY <2>1, <2>2 DEF Wire!DAP_SPI_Generate_Cycle
<1>7. IdleClocks(rest) /\ Len(rest) \in Nat /\ Len(rest) >= idle_cycles
  <2>1. IdleClocks(rest) /\ Len(rest) = Len(late) + Len(idle)
    BY <1>6, ConcatIdle
  <2> HIDE DEF rest, late, idle
  <2> QED
    BY <1>6, <2>1 DEF WireInv
<1>8. IdleClocks(<< >>) /\ Fits(<< >>, << >>, beside)
  BY EmptyFits
<1>9. /\ Wire!Rep(3, "T") \in Seq(Letters) /\ Wire!Rep(1, "t") \in Seq(Letters)
      /\ Wire!Rep(33, "d") \in Seq(Letters) /\ late \in Seq(Letters) /\ idle \in Seq(Letters)
      /\ << >> \in Seq(Letters)
  BY <1>6, RepSeq, EmptySeq DEF Letters, IdleClocks
<1>10. CASE ack = "OK"
  <2>1. t = heard \o (Wire!Rep(3, "T") \o (Wire!Rep(1, "t") \o Wire!Rep(33, "d")))
    BY Zenon, <1>1, <1>10 DEF Wire!Target, Wire!Failed
  <2>2. answer \o Wire!Rep(33, "d") = Wire!Rep(3, "T") \o (Wire!Rep(1, "t") \o Wire!Rep(33, "d"))
    BY <1>9, Regroup
  <2>3. h = (start \o Wire!Rep(4, "Z")) \o ((Wire!Rep(33, "d") \o late) \o idle)
    BY Zenon, <1>10
    DEF Wire!Host, Wire!Spi, Wire!SpiHeader, Wire!SpiWrite, Wire!DAP_SPI_Write_Data, Wire!Failed
  <2>4. (Wire!Rep(33, "d") \o late) \o idle = Wire!Rep(33, "d") \o rest
    <3> HIDE DEF beside, start, heard, answer, late, idle, h, t
    <3> QED
      BY <1>9, Regroup
  <2> HIDE DEF beside, start, heard, answer, late, idle, rest, h, t
  <2>5. h = (start \o Wire!Rep(4, "Z")) \o (Wire!Rep(33, "d") \o rest)
    BY Zenon, <2>3, <2>4
  <2>6. t = heard \o (answer \o Wire!Rep(33, "d"))
    BY Zenon, <2>1, <2>2
  <2>7. Fits(Wire!Rep(33, "d"), Wire!Rep(33, "d"), beside)
    BY <1>2
  <2>8. Counted(h, t, rest) /\ (beside = {"Z"} => ~Wire!Clash(h, t))
    BY Zenon, <1>4, <1>5, <1>7, <2>5, <2>6, <2>7, PacketFits
  <2>9. Wire!Follows(h, t) /\ Len(h) - Len(t) >= idle_cycles
    BY <1>7, <2>8 DEF Counted, WireInv
  <2> QED
    BY Zenon, <2>8, <2>9 DEF beside, h, t
<1>11. CASE ack # "OK"
  <2>1. t = heard \o (Wire!Rep(3, "T") \o (Wire!Rep(1, "t") \o << >>))
    BY Zenon, <1>1, <1>11 DEF Wire!Target, Wire!Failed
  <2>2. answer \o << >> = Wire!Rep(3, "T") \o (Wire!Rep(1, "t") \o << >>)
    BY <1>9, Regroup
  <2>3. h = (start \o Wire!Rep(4, "Z")) \o << >>
    BY Zenon, <1>11 DEF Wire!Host, Wire!Spi, Wire!SpiHeader, Wire!SpiWrite, Wire!Failed
  <2>4. << >> \o << >> = << >>
    BY <1>9, ConcatEmptySeq
  <2> HIDE DEF beside, start, heard, answer, late, idle, rest, h, t
  <2>5. h = (start \o Wire!Rep(4, "Z")) \o (<< >> \o << >>) /\ t = heard \o (answer \o << >>)
    BY Zenon, <2>1, <2>2, <2>3, <2>4
  <2>6. Counted(h, t, << >>) /\ (beside = {"Z"} => ~Wire!Clash(h, t))
    BY Zenon, <1>4, <1>5, <1>8, <2>5, PacketFits
  <2> QED
    BY Zenon, <1>11, <2>6 DEF beside, h, t, Counted
<1> QED
  BY Zenon, <1>10, <1>11

(* A target that does not answer drives nothing.                           *)
LEMMA NoAnswer ==
    ASSUME WireInv, NEW rnw, NEW h
    PROVE  ~Wire!Clash(h, Wire!Target(rnw, "NOACK"))
<1> DEFINE s == Wire!Rep(8, "d")
           trn == Wire!Rep(target_turnaround, "t")
<1>1. /\ s \in Seq(Letters) /\ \A i \in 1..Len(s) : s[i] # "T"
      /\ trn \in Seq(Letters) /\ \A i \in 1..Len(trn) : trn[i] # "T"
  BY RepSeq DEF WireInv, Letters
<1>2. Wire!Target(rnw, "NOACK") = (s \o trn) \o << >>
  BY DEF Wire!Target
<1> HIDE DEF s, trn
<1>3. /\ s \o trn \in Seq(Letters) /\ Len(s) \in Nat /\ Len(trn) \in Nat
      /\ Len(s \o trn) = Len(s) + Len(trn)
      /\ \A i \in 1..(Len(s) + Len(trn)) : (s \o trn)[i] = IF i <= Len(s) THEN s[i] ELSE trn[i - Len(s)]
  BY <1>1, Join
<1>4. (s \o trn) \o << >> = s \o trn
  BY <1>3, ConcatEmptySeq
<1>5. ASSUME NEW i \in 1..(Len(s) + Len(trn)) PROVE (s \o trn)[i] # "T"
  <2>1. CASE i <= Len(s)
    BY <1>1, <1>3, <2>1
  <2>2. CASE ~(i <= Len(s))
    BY <1>1, <1>3, <2>2, i - Len(s) \in 1..Len(trn)
  <2> QED
    BY <2>1, <2>2
<1>6. ASSUME NEW i \in 1..Len(h), i <= Len(s \o trn) PROVE (s \o trn)[i] # "T"
  BY <1>3, <1>5, <1>6
<1> QED
  BY Zenon, <1>2, <1>4, <1>6 DEF Wire!Clash

(* Where the debugger asks for it the pins give a failed packet its data   *)
LEMMA FailedLength ==
    ASSUME WireInv, ~Wire!UsesSpi, data_phase, NEW rnw \in BOOLEAN, NEW ack \in {"WAIT", "FAULT"}
    PROVE  Len(Wire!Host(rnw, ack)) >= 44
<1> DEFINE start == Wire!Rep(8, "d")
           trn == Wire!GpioTurnaround
           listen == Wire!Rep(3, Wire!Released)
           d == Wire!Rep(33, Wire!Released)
           e == Wire!Rep(33, "0")
<1>0. Wire!Released \in Letters /\ turnaround \in Nat
  BY DEF Wire!Released, Letters, WireInv
<1>1. start \in Seq(Letters) /\ Len(start) = 8
  BY Zenon, RepSeq DEF Letters
<1>2. trn \in Seq(Letters) /\ Len(trn) = turnaround
  BY <1>0, RepSeq DEF Wire!GpioTurnaround
<1>l. listen \in Seq(Letters) /\ Len(listen) = 3
  BY Zenon, <1>0, RepSeq
<1>d. d \in Seq(Letters) /\ Len(d) = 33
  BY Zenon, <1>0, RepSeq
<1>e. e \in Seq(Letters) /\ Len(e) = 33
  BY Zenon, RepSeq DEF Letters
<1>3. Wire!Host(rnw, ack) = ((start \o trn) \o listen) \o IF rnw THEN d \o trn ELSE trn \o e
  BY Zenon DEF Wire!Host, Wire!Gpio, Wire!GpioFailed, Wire!Failed
<1> HIDE DEF start, trn, listen, d, e
<1>4. start \o trn \in Seq(Letters) /\ Len(start \o trn) = 8 + turnaround
  BY Zenon, <1>1, <1>2, Join
<1>5. /\ (start \o trn) \o listen \in Seq(Letters)
      /\ Len((start \o trn) \o listen) = 8 + turnaround + 3
  BY Zenon, <1>l, <1>4, Join
<1>6. d \o trn \in Seq(Letters) /\ Len(d \o trn) = 33 + turnaround
  BY Zenon, <1>2, <1>d, Join
<1>9. trn \o e \in Seq(Letters) /\ Len(trn \o e) = turnaround + 33
  <2>1. trn \o e \in Seq(Letters) /\ Len(trn \o e) = Len(trn) + Len(e)
    BY Zenon, <1>2, <1>e, Join
  <2> QED
    BY <1>2, <1>e, <2>1
<1>7. CASE rnw
  <2>1. Len(Wire!Host(rnw, ack)) = (8 + turnaround + 3) + (33 + turnaround)
    BY <1>3, <1>5, <1>6, <1>7, Join
  <2> QED
    BY <1>0, <2>1
<1>8. CASE ~rnw
  <2>1. Len(Wire!Host(rnw, ack)) = (8 + turnaround + 3) + (turnaround + 33)
    BY <1>3, <1>5, <1>9, <1>8, Join
  <2> QED
    BY <1>0, <2>1
<1> QED
  BY <1>7, <1>8

(* One packet is sound on the wire                                         *)
LEMMA PacketSound ==
    ASSUME WireInv, NEW rnw \in BOOLEAN, NEW ack \in {"OK", "WAIT", "FAULT", "PARITY", "NOACK"},
           NEW trn, NEW orun, Wire!SWD_Transfer(rnw, ack, trn, orun)
    PROVE  Wire!StaysInStep /\ Wire!NoClash /\ Wire!IdleCycles /\ Wire!DataPhase /\ Wire!SequenceClocks
<1> DEFINE h == Wire!Host(rnw, HostAck(ack))
           t == Wire!Target(rnw, ack)
<1>1. /\ lastCall'.call = "packet" /\ lastCall'.rnw = rnw /\ lastCall'.ack = ack
      /\ lastCall'.clocks = Len(h) /\ lastCall'.idle = Len(h) - Len(t)
      /\ lastCall'.clash = (in_step /\ Wire!Clash(h, t))
      /\ in_step' = (in_step /\ ack # "NOACK" /\ Wire!Follows(h, t))
      /\ ack = "PARITY" => rnw
  BY DEF Wire!SWD_Transfer, Wire!Quiet, HostAck
<1> HIDE DEF h, t
<1>2. Wire!SequenceClocks
  BY <1>1 DEF Wire!SequenceClocks
<1>3. Wire!DataPhase
  BY <1>1, FailedLength DEF Wire!DataPhase, Wire!Failed, h, HostAck
<1>4. Wire!Agreed /\ ack # "NOACK" => Wire!Follows(h, t)
  <2> SUFFICES ASSUME Wire!Agreed, ack # "NOACK" PROVE Wire!Follows(h, t)
    OBVIOUS
  <2>1. CASE ~Wire!UsesSpi
    BY Zenon, <2>1, GpioPacket DEF h, t
  <2>2. CASE Wire!UsesSpi /\ rnw
    BY Zenon, <2>2, SpiRead DEF h, t
  <2>3. CASE Wire!UsesSpi /\ ~rnw
    BY Zenon, <1>1, <2>3, SpiWrite DEF h, t, HostAck
  <2> QED
    BY <2>1, <2>2, <2>3
<1>5. Wire!NoClash
  <2> SUFFICES ASSUME Wire!Agreed, wireChip = "ESP32S3" => Wire!UsesSpi PROVE ~Wire!Clash(h, t)
    BY Zenon, <1>1 DEF Wire!NoClash
  <2>1. CASE ack = "NOACK"
    BY <2>1, NoAnswer DEF t
  <2>2. CASE ack # "NOACK" /\ ~Wire!UsesSpi
    <3>1. Wire!Released \in {"Z"}
      BY <2>2 DEF Wire!Released
    <3> QED
      BY Zenon, <2>2, <3>1, GpioPacket DEF h, t
  <2>3. CASE ack # "NOACK" /\ Wire!UsesSpi /\ rnw
    BY Zenon, <2>3, SpiRead DEF h, t
  <2>4. CASE ack # "NOACK" /\ Wire!UsesSpi /\ ~rnw
    BY Zenon, <1>1, <2>4, SpiWrite DEF h, t, HostAck
  <2> QED
    BY <2>1, <2>2, <2>3, <2>4
<1>6. Wire!IdleCycles
  <2> SUFFICES ASSUME Wire!Agreed, ack = "OK", Wire!UsesSpi => ~rnw PROVE Len(h) - Len(t) >= idle_cycles
    BY <1>1 DEF Wire!IdleCycles
  <2>1. CASE ~Wire!UsesSpi
    <3>1. Len(h) - Len(t) = idle_cycles
      BY Zenon, <2>1, GpioPacket DEF h, t
    <3> QED
      BY <3>1 DEF WireInv
  <2>2. CASE Wire!UsesSpi
    BY Zenon, <2>2, SpiWrite DEF h, t, HostAck
  <2> QED
    BY <2>1, <2>2
<1> QED
  BY Zenon, <1>1, <1>2, <1>3, <1>4, <1>5, <1>6 DEF Wire!StaysInStep

LEMMA WireStep ==
    ASSUME WireInv, [Next]_vars
    PROVE  /\ WireInv'
           /\ [Wire!StaysInStep /\ Wire!NoClash /\ Wire!IdleCycles /\ Wire!DataPhase /\
               Wire!SequenceClocks]_(Wire!vars)
<1>1. UNCHANGED wire \/ Wire!Next
  BY DEF Next, vars
<1>a. Idles \subseteq 0..255 /\ Turnarounds \subseteq 1..4 /\ Counts \subseteq 1..256
  BY PartsAssumption DEF Wire!WireAssumption
<1>2. CASE UNCHANGED wire
  BY <1>2 DEF wire, WireInv, Wire!vars, Wire!settings, Wire!target
<1>3. ASSUME NEW rnw \in BOOLEAN, NEW ack \in {"OK", "WAIT", "FAULT", "PARITY", "NOACK"},
             NEW trn \in Turnarounds, NEW orun \in BOOLEAN, Wire!SWD_Transfer(rnw, ack, trn, orun)
      PROVE  WireInv'
  BY <1>3, <1>a DEF Wire!SWD_Transfer, WireInv, Wire!settings
<1>4. ASSUME \/ \E n \in Counts, din \in BOOLEAN : Wire!SWD_Sequence(n, din)
             \/ \E n \in Counts : Wire!SWJ_Sequence(n)
             \/ \E value \in 0..7 : Wire!DAP_SWD_Configure(value)
             \/ \E idle \in Idles : Wire!DAP_TransferConfigure(idle)
             \/ Wire!ChangeSpeed
      PROVE  /\ WireInv' /\ lastCall'.call # "packet" /\ lastCall'.clash = FALSE
             /\ Wire!SequenceClocks
  <2>1. CASE \E n \in Counts, din \in BOOLEAN : Wire!SWD_Sequence(n, din)
    <3>1. PICK n \in Counts, din \in BOOLEAN : Wire!SWD_Sequence(n, din)
      BY <2>1
    <3>2. /\ lastCall'.call = (IF din THEN "capture" ELSE "drive") /\ lastCall'.asked = n
          /\ lastCall'.kept = (IF din /\ Wire!UsesSpi THEN Wire!Kept(n) ELSE ((n - 1) % 8) + 1)
          /\ lastCall'.clash = FALSE
      BY <3>1 DEF Wire!SWD_Sequence, Wire!Quiet
    <3>3. n \in Nat /\ n > 0
      BY <1>a
    <3>4. n % 8 \notin {0, 1} => Wire!Kept(n) = ((n - 1) % 8) + 1
      BY <3>3 DEF Wire!Kept
    <3>5. Wire!SequenceClocks
      BY <3>2, <3>4 DEF Wire!SequenceClocks
    <3>6. WireInv'
      BY Zenon, <3>1 DEF Wire!SWD_Sequence, WireInv, Wire!settings, Wire!target
    <3> QED
      BY <3>2, <3>5, <3>6
  <2>2. CASE \E n \in Counts : Wire!SWJ_Sequence(n)
    BY <1>a, <2>2 DEF Wire!SWJ_Sequence, Wire!Quiet, Wire!SequenceClocks, WireInv, Wire!settings
  <2>3. CASE \E value \in 0..7 : Wire!DAP_SWD_Configure(value)
    BY <2>3 DEF Wire!DAP_SWD_Configure, Wire!Turnaround, Wire!Quiet, Wire!SequenceClocks, WireInv, Wire!target
  <2>4. CASE \/ \E idle \in Idles : Wire!DAP_TransferConfigure(idle)
             \/ Wire!ChangeSpeed
    BY <1>a, <2>4 DEF Wire!DAP_TransferConfigure, Wire!ChangeSpeed, Wire!Quiet, Wire!SequenceClocks, WireInv,
                      Wire!target
  <2> QED
    BY Zenon, <1>4, <2>1, <2>2, <2>3, <2>4
<1>5. ASSUME Wire!Next
      PROVE  /\ WireInv' /\ Wire!StaysInStep /\ Wire!NoClash /\ Wire!IdleCycles /\ Wire!DataPhase
             /\ Wire!SequenceClocks
  <2>1. CASE \E rnw \in BOOLEAN, ack \in {"OK", "WAIT", "FAULT", "PARITY", "NOACK"},
                trn \in Turnarounds, orun \in BOOLEAN : Wire!SWD_Transfer(rnw, ack, trn, orun)
    BY <1>3, <2>1, PacketSound
  <2>2. CASE ~\E rnw \in BOOLEAN, ack \in {"OK", "WAIT", "FAULT", "PARITY", "NOACK"},
                 trn \in Turnarounds, orun \in BOOLEAN : Wire!SWD_Transfer(rnw, ack, trn, orun)
    <3>1. /\ WireInv' /\ lastCall'.call # "packet" /\ lastCall'.clash = FALSE
          /\ Wire!SequenceClocks
      BY Zenon, <1>4, <1>5, <2>2 DEF Wire!Next
    <3> QED
      BY <3>1 DEF Wire!StaysInStep, Wire!NoClash, Wire!IdleCycles, Wire!DataPhase
  <2> QED
    BY <2>1, <2>2
<1> QED
  BY <1>1, <1>2, <1>5

(* Whatever failed before, on every chip and with every setting on which   *)
(* probe and target agree: a packet the target takes leaves it where the   *)
(* next one starts; probe and target never drive SWDIO in the same clock,  *)
(* unless the probe is an ESP32-S3 without SPI, whose pins cannot be       *)
(* released; the idle cycles and data phases asked for are on the line     *)
(* where the engine is not SPI; and a sequence has its clocks and a        *)
(* capture its bits, but for sequences of 256 bits and captures of certain *)
(* lengths by SPI (SequenceClocks).                                        *)
THEOREM WiresSound == Spec => WireSound
<1>1. Init => WireInv
  <2>1. Chips \subseteq {"ESP8266", "ESP32", "ESP32C3", "ESP32S3"}
    BY PartsAssumption DEF Wire!WireAssumption
  <2>2. ASSUME Wire!Init PROVE WireInv
    <3>1. /\ wireChip \in {"ESP8266", "ESP32", "ESP32C3", "ESP32S3"} /\ engine \in Wire!Speeds
          /\ data_phase \in BOOLEAN /\ orundetect \in BOOLEAN /\ in_step \in BOOLEAN
      BY Zenon, <2>1, <2>2 DEF Wire!Init, Wire!Speeds
    <3>2. turnaround \in 1..4 /\ idle_cycles \in 0..255 /\ target_turnaround \in 1..4
      BY <2>2 DEF Wire!Init
    <3> QED
      BY <3>1, <3>2 DEF WireInv
  <2> QED
    BY <2>2 DEF Init
<1>2. WireInv /\ [Next]_vars => WireInv' /\
        [Wire!StaysInStep /\ Wire!NoClash /\ Wire!IdleCycles /\ Wire!DataPhase /\
         Wire!SequenceClocks]_(Wire!vars)
  BY WireStep
<1> QED
  BY <1>1, <1>2, PTL DEF Spec, WireSound, Wire!WireSound

----------------------------------------------------------------------------
(* DAP_ExecuteCommand                                                      *)

LEMMA SumIs ==
    ASSUME NEW q, q \in Seq(Nat)
    PROVE  \E s : SumsOf(s, q, Len(q)) /\ C!Sum(q) = s[Len(q)]
<1> DEFINE at == CHOOSE f : f = [n \in 0..Len(q) |-> IF n = 0 THEN 0 ELSE f[n - 1] + q[n]]
<1>1. Len(q) \in Nat /\ \A i \in 1..Len(q) : q[i] \in Nat
  OBVIOUS
<1>2. SumsOf(at, q, Len(q))
  BY <1>1, RecursiveSums
<1>3. C!Sum(q) = at[Len(q)]
  BY DEF C!Sum
<1> HIDE DEF at
<1> QED BY <1>2, <1>3

(* The sum of the first numbers.                                           *)
LEMMA FirstSums ==
    ASSUME NEW N \in Nat, NEW d, \A i \in 1..N : d[i] \in Nat, NEW s, SumsOf(s, d, N), NEW k \in 0..N
    PROVE  C!Sum([j \in 1..k |-> d[j]]) = s[k]
<1> DEFINE q == [j \in 1..k |-> d[j]]
<1>1. k \in Nat /\ q \in Seq(Nat) /\ Len(q) = k /\ \A i \in 1..k : d[i] = q[i]
  <2>1. k \in Nat /\ \A i \in 1..k : d[i] \in Nat
    OBVIOUS
  <2>2. q \in [1..k -> Nat]
    BY <2>1
  <2>3. q \in Seq(Nat) /\ DOMAIN q = 1..k
    BY <2>1, <2>2
  <2>4. Len(q) = k
    BY <2>1, <2>3
  <2> QED BY <2>1, <2>3, <2>4
<1> HIDE DEF q
<1>2. PICK t : SumsOf(t, q, k) /\ C!Sum(q) = t[k]
  BY <1>1, SumIs
<1>3. \A n \in 0..k : s[n] = t[n]
  BY ONLY <1>1, <1>2, SumsUnique, N \in Nat, SumsOf(s, d, N), k \in 0..N
<1> QED BY <1>1, <1>2, <1>3 DEF q

(* One number more.                                                        *)
LEMMA SumOfNext ==
    ASSUME NEW n \in Nat, NEW d, \A i \in 1..n + 1 : d[i] \in Nat
    PROVE  /\ C!Sum([j \in 1..n |-> d[j]]) \in Nat
           /\ C!Sum([j \in 1..n + 1 |-> d[j]]) = C!Sum([j \in 1..n |-> d[j]]) + d[n + 1]
<1>1. PICK s : SumsOf(s, d, n + 1)
  <2>1. n + 1 \in Nat
    OBVIOUS
  <2> QED BY <2>1, SumsExist
<1>2. n + 1 \in Nat /\ n \in 0..n + 1 /\ n + 1 \in 0..n + 1 /\ n + 1 \in 1..n + 1 /\ (n + 1) - 1 = n
  OBVIOUS
<1>3. C!Sum([j \in 1..n |-> d[j]]) = s[n]
  BY <1>1, <1>2, FirstSums
<1>4. C!Sum([j \in 1..n + 1 |-> d[j]]) = s[n + 1]
  BY <1>1, <1>2, FirstSums
<1>5. s[n] \in Nat /\ s[n + 1] = s[n] + d[n + 1]
  BY <1>1, <1>2 DEF SumsOf
<1> QED BY <1>3, <1>4, <1>5

LEMMA SumOfNone ==
    ASSUME NEW d PROVE C!Sum([j \in 1..0 |-> d[j]]) = 0
<1> DEFINE q == [j \in 1..0 |-> d[j]]
<1>1. q \in Seq(Nat) /\ Len(q) = 0
  OBVIOUS
<1> HIDE DEF q
<1>2. PICK s : SumsOf(s, q, 0) /\ C!Sum(q) = s[0]
  BY Zenon, <1>1, SumIs
<1> QED BY <1>2 DEF SumsOf, q

Table(f, n) == f \in [1..n -> Nat]

LEMMA Tables ==
    ASSUME NEW n \in Nat, NEW f, Table(f, n)
    PROVE  f \in Seq(Nat) /\ DOMAIN f = 1..n
BY DEF Table

(* A number is one more than two others, n times.                          *)
LEMMA SumOfThree ==
    ASSUME NEW n \in Nat, NEW d, NEW e, NEW g, Table(d, n), Table(e, n), Table(g, n),
           \A i \in 1..n : d[i] = 1 + e[i] + g[i]
    PROVE  C!Sum(d) = n + C!Sum(e) + C!Sum(g)
<1>1. /\ d \in Seq(Nat) /\ e \in Seq(Nat) /\ g \in Seq(Nat)
      /\ Len(d) = n /\ Len(e) = n /\ Len(g) = n
  <2>1. ASSUME NEW f, Table(f, n) PROVE f \in Seq(Nat) /\ Len(f) = n
    BY <2>1, Tables
  <2> QED BY <2>1
<1>2. PICK s : SumsOf(s, d, n) /\ C!Sum(d) = s[n]
  BY Zenon, <1>1, SumIs
<1>3. PICK t : SumsOf(t, e, n) /\ C!Sum(e) = t[n]
  BY Zenon, <1>1, SumIs
<1>4. PICK u : SumsOf(u, g, n) /\ C!Sum(g) = u[n]
  BY <1>1, SumIs
<1>5. \A i \in 1..n : e[i] \in Nat /\ g[i] \in Nat /\ d[i] = 1 + e[i] + g[i]
  BY DEF Table
<1>6. s[n] = n + t[n] + u[n]
  BY ONLY <1>2, <1>3, <1>4, <1>5, n \in Nat, SumsAdd
<1> QED BY <1>2, <1>3, <1>4, <1>6

LEMMA SumOfZeros ==
    ASSUME NEW n \in Nat PROVE C!Sum([j \in 1..n |-> 0]) = 0
<1> DEFINE q == [j \in 1..n |-> 0]
           z == [j \in 0..n |-> 0]
<1>1. q \in Seq(Nat) /\ Len(q) = n /\ SumsOf(z, q, n) /\ z[n] = 0
  BY DEF SumsOf
<1> HIDE DEF q, z
<1>2. PICK s : SumsOf(s, q, n) /\ C!Sum(q) = s[n]
  BY <1>1, SumIs
<1>3. \A k \in 0..n : s[k] = z[k]
  <2>1. n \in 0..n /\ \A i \in 1..n : q[i] = q[i]
    OBVIOUS
  <2> QED BY ONLY <1>1, <1>2, <2>1, n \in Nat, SumsUnique
<1> QED BY <1>1, <1>2, <1>3 DEF q

(* What a sequence of clocks takes in a request or an answer.              *)
LEMMA BytesOfClocks ==
    ASSUME NEW k \in 0..64 PROVE C!SequenceBytes(k) \in Nat
<1>1. CASE k = 0
  BY <1>1 DEF C!SequenceBytes
<1>2. CASE k # 0
  BY <1>2 DEF C!SequenceBytes
<1> QED BY <1>1, <1>2

LEMMA SequencesTaken ==
    ASSUME NEW c, C!Sequenced(c)
    PROVE  /\ C!OnlySent(c) \in Nat /\ C!Captured(c) \in Nat /\ Len(c.seqs) \in Nat
           /\ C!DAP_SWD_Sequence(c)
                = C!Pack(1 + (Len(c.seqs) + C!OnlySent(c)), 1 + C!Captured(c))
           /\ C!DAP_JTAG_Sequence(c)
                = C!Pack(1 + (Len(c.seqs) + C!OnlySent(c) + C!Captured(c)), 1 + C!Captured(c))
<1> DEFINE n == Len(c.seqs)
           size(j) == C!SequenceBytes(c.seqs[j].clocks)
           e == [ j \in DOMAIN c.seqs |-> IF c.seqs[j].capture THEN 0 ELSE size(j) ]
           g == [ j \in DOMAIN c.seqs |-> IF c.seqs[j].capture THEN size(j) ELSE 0 ]
           d == [ j \in DOMAIN c.seqs |-> 1 + size(j) ]
           d2 == [ j \in DOMAIN c.seqs |-> IF c.seqs[j].capture THEN 1 ELSE 1 + size(j) ]
           z == [ j \in 1..n |-> 0 ]
<1>1. c.seqs \in Seq([ clocks : 0..64, capture : BOOLEAN ])
  BY DEF C!Sequenced
<1>2. n \in Nat /\ DOMAIN c.seqs = 1..n
  BY <1>1
<1>3. \A j \in 1..n : size(j) \in Nat /\ c.seqs[j].capture \in BOOLEAN
  <2>1. ASSUME NEW j \in 1..n PROVE c.seqs[j].clocks \in 0..64 /\ c.seqs[j].capture \in BOOLEAN
    <3>1. c.seqs[j] \in [ clocks : 0..64, capture : BOOLEAN ]
      BY Zenon, <1>1, ElementOfSeq
    <3> QED BY <3>1
  <2> QED BY Zenon, <2>1, BytesOfClocks
<1> HIDE DEF n, size
<1>4. Table(e, n) /\ Table(g, n) /\ Table(z, n) /\ Table(d, n) /\ Table(d2, n)
  <2>1. e \in [1..n -> Nat] /\ g \in [1..n -> Nat] /\ z \in [1..n -> Nat]
    BY <1>2, <1>3
  <2>2. d \in [1..n -> Nat]
    <3>1. \A j \in 1..n : 1 + size(j) \in Nat
      BY <1>3
    <3> QED BY <3>1, <1>2
  <2>3. d2 \in [1..n -> Nat]
    <3>1. \A j \in 1..n : 1 + size(j) \in Nat
      BY <1>3
    <3> QED BY <3>1, <1>2
  <2> QED BY <1>2, <2>1, <2>2, <2>3 DEF Table
<1>5. \A j \in 1..n : d[j] = 1 + e[j] + g[j] /\ d2[j] = 1 + e[j] + z[j]
  <2>1. ASSUME NEW j \in 1..n PROVE d[j] = 1 + e[j] + g[j] /\ d2[j] = 1 + e[j] + z[j]
    <3>1. CASE c.seqs[j].capture = TRUE
      <4>1. d[j] = 1 + size(j) /\ d2[j] = 1 /\ e[j] = 0 /\ g[j] = size(j) /\ z[j] = 0
        BY <1>2, <3>1
      <4> HIDE DEF e, g, d, d2, z
      <4> QED BY <4>1, <1>3
    <3>2. CASE c.seqs[j].capture = FALSE
      <4>1. d[j] = 1 + size(j) /\ d2[j] = 1 + size(j) /\ e[j] = size(j) /\ g[j] = 0 /\ z[j] = 0
        BY <1>2, <3>2
      <4> HIDE DEF e, g, d, d2, z
      <4> QED BY <4>1, <1>3
    <3> QED BY Zenon, <3>1, <3>2, <1>3
  <2> QED BY Zenon, <2>1
<1>7. C!OnlySent(c) = C!Sum(e) /\ C!Captured(c) = C!Sum(g)
  BY DEF C!OnlySent, C!Captured, size
<1>8. C!Sum(z) = 0
  BY <1>2, SumOfZeros
<1> HIDE DEF e, g, d, d2, z
<1>9. C!Sum(e) \in Nat /\ C!Sum(g) \in Nat
  <2>1. ASSUME NEW q, q \in Seq(Nat) PROVE C!Sum(q) \in Nat
    <3>1. PICK s : SumsOf(s, q, Len(q)) /\ C!Sum(q) = s[Len(q)]
      BY <2>1, SumIs
    <3> QED BY <2>1, <3>1 DEF SumsOf
  <2> QED BY <2>1, <1>2, <1>4, Tables
<1>10. C!Sum(d) = n + C!Sum(e) + C!Sum(g)
  <2>1. \A j \in 1..n : d[j] = 1 + e[j] + g[j]
    BY <1>5
  <2>2. n \in Nat
    BY <1>2
  <2>3. Table(d, n) /\ Table(e, n) /\ Table(g, n)
    BY <1>4
  <2> QED BY ONLY <2>1, <2>2, <2>3, SumOfThree
<1>11. C!Sum(d2) = n + C!Sum(e) + C!Sum(z)
  <2>1. \A j \in 1..n : d2[j] = 1 + e[j] + z[j]
    BY <1>5
  <2>2. n \in Nat
    BY <1>2
  <2>3. Table(d2, n) /\ Table(e, n) /\ Table(z, n)
    BY <1>4
  <2> QED BY ONLY <2>1, <2>2, <2>3, SumOfThree
<1>12. C!Sum(d2) = n + C!Sum(e)
  BY ONLY <1>2, <1>8, <1>9, <1>11
<1>13. C!DAP_SWD_Sequence(c) = C!Pack(1 + C!Sum(d2), 1 + C!Sum(g))
  BY DEF C!DAP_SWD_Sequence, d2, g, size
<1>14. C!DAP_JTAG_Sequence(c) = C!Pack(1 + C!Sum(d), 1 + C!Sum(g))
  BY DEF C!DAP_JTAG_Sequence, d, g, size
<1> QED BY <1>2, <1>7, <1>9, <1>10, <1>12, <1>13, <1>14 DEF n

LEMMA Packing ==
    ASSUME NEW t \in Nat, NEW g \in Nat, g < 65536
    PROVE  /\ C!Pack(t, g) \in Nat
           /\ C!Taken(C!Pack(t, g)) = t /\ C!Given(C!Pack(t, g)) = g
           /\ \A t2, g2 \in Nat : C!Pack(t, g) + C!Pack(t2, g2) = C!Pack(t + t2, g + g2)
<1> USE DEF C!Pack, C!Taken, C!Given, C!Half
<1>1. g \in Nat /\ g < 65536 /\ C!Pack(t, g) = t * 65536 + g /\ C!Pack(t, g) \in Nat
  OBVIOUS
<1>2. C!Pack(t, g) \div 65536 = t
  BY <1>1
<1>3. C!Pack(t, g) % 65536 = g
  <2>1. \A x \in Nat : x = 65536 * (x \div 65536) + (x % 65536) /\ (x % 65536) \in Nat
    OBVIOUS
  <2>2. C!Pack(t, g) = 65536 * (C!Pack(t, g) \div 65536) + (C!Pack(t, g) % 65536) /\ (C!Pack(t, g) % 65536) \in Nat
    BY <1>1, <2>1
  <2> QED BY ONLY <1>1, <1>2, <2>2, t \in Nat
<1>4. ASSUME NEW t2 \in Nat, NEW g2 \in Nat
      PROVE  C!Pack(t, g) + C!Pack(t2, g2) = C!Pack(t + t2, g + g2)
  BY <1>1
<1> QED BY <1>1, <1>2, <1>3, <1>4

(* A handler takes what the debugger wrote and answers as much as it       *)
(* expects, if its length can be told at all.                              *)
Packet == C!DAP_PACKET_SIZE
HandledAs(n, t, g, c) ==
    /\ t \in 0..Packet /\ g \in 0..Packet /\ n = C!Pack(t, g)
    /\ ~C!Opaque(c) => t = c.bytes /\ (c.id \in { "Info", "Vendor0" } \/ g \in C!Expected(c))

CommandTypes ==
    listPort \in { "DISABLED", "SWD", "JTAG" } /\ count \in 0..8

Names == DOMAIN C!Fixed \cup
    { "SWJ_Sequence", "JTAG_Configure", "SWD_Sequence", "JTAG_Sequence", "Transfer",
      "TransferBlock", "Unknown", "Vendor8", "Invalid" }

LEMMA HandledSo ==
    ASSUME NEW n, NEW c, NEW t \in Nat, NEW g \in Nat, HandledAs(n, t, g, c)
    PROVE  \E t2, g2 \in Nat : HandledAs(n, t2, g2, c)
OBVIOUS

LEMMA FixedNames ==
    /\ DOMAIN C!Fixed = { "Info", "HostStatus", "Delay", "Connect", "Disconnect", "ResetTarget",
           "SWJ_Pins", "SWJ_Clock", "SWD_Configure", "TransferConfigure", "WriteABORT",
           "JTAG_IDCODE", "Vendor0" }
    /\ C!Fixed["Info"] = 2 /\ C!Fixed["HostStatus"] = 3 /\ C!Fixed["Delay"] = 3
    /\ C!Fixed["Connect"] = 2 /\ C!Fixed["Disconnect"] = 1 /\ C!Fixed["ResetTarget"] = 1
    /\ C!Fixed["SWJ_Pins"] = 7 /\ C!Fixed["SWJ_Clock"] = 5 /\ C!Fixed["SWD_Configure"] = 2
    /\ C!Fixed["TransferConfigure"] = 6 /\ C!Fixed["WriteABORT"] = 6
    /\ C!Fixed["JTAG_IDCODE"] = 2 /\ C!Fixed["Vendor0"] = 1
BY DEF C!Fixed

LEMMA FixedHandled ==
    ASSUME NEW c, c.id \in DOMAIN C!Fixed, c.bytes = C!Fixed[c.id], CommandTypes,
           NEW n \in C!DAP_ProcessCommand(c)
    PROVE  \E t, g \in Nat : HandledAs(n, t, g, c)
<1> USE DEF HandledAs, Packet, C!DAP_PACKET_SIZE, C!Pack, C!Half
<1>1. CASE c.id = "Info"
  <2>1. n = C!Pack(2, 2 + C!DAP_Info(c)) /\ c.bytes = 2
    BY <1>1, FixedNames DEF C!DAP_ProcessCommand
  <2>2. C!DAP_Info(c) \in 0..13
    BY DEF C!DAP_Info
  <2>3. HandledAs(n, 2, 2 + C!DAP_Info(c), c)
    BY <1>1, <2>1, <2>2
  <2> QED BY <2>2, <2>3
<1>2. CASE c.id = "Vendor0"
  <2>1. n = C!Pack(1, 1) /\ c.bytes = 1
    BY <1>2, FixedNames DEF C!DAP_ProcessCommand, C!DAP_ProcessVendorCommand
  <2>2. HandledAs(n, 1, 1, c)
    BY <1>2, <2>1
  <2> QED BY <2>2
<1>3. CASE c.id = "HostStatus" \/ c.id = "Delay"
  <2>1. n = C!Pack(1, 1) + C!Pack(2, 1) /\ c.bytes = 3
    BY <1>3, FixedNames DEF C!DAP_ProcessCommand, C!DAP_HostStatus, C!DAP_Delay
  <2>2. 2 \in C!Expected(c)
    BY <1>3 DEF C!Expected
  <2>3. HandledAs(n, 3, 2, c)
    BY <1>3, <2>1, <2>2
  <2> QED BY <2>3
<1>4. CASE c.id = "WriteABORT"
  <2>1. n = C!Pack(1, 1) + C!Pack(5, 1) /\ c.bytes = 6
    BY <1>4, FixedNames DEF C!DAP_ProcessCommand, C!DAP_WriteAbort
  <2>2. 2 \in C!Expected(c)
    BY <1>4 DEF C!Expected
  <2>3. HandledAs(n, 6, 2, c)
    BY <1>4, <2>1, <2>2
  <2> QED BY <2>3
<1>5. CASE c.id = "JTAG_IDCODE"
  <2>1. c.bytes = 2 /\ (n = C!Pack(1, 1) + C!Pack(1, 5) \/ n = C!Pack(1, 1) + C!Pack(1, 1))
    BY <1>5, FixedNames DEF C!DAP_ProcessCommand, C!DAP_JTAG_IDCode
  <2>2. 2 \in C!Expected(c) /\ 6 \in C!Expected(c)
    BY <1>5 DEF C!Expected
  <2>3. CASE n = C!Pack(1, 1) + C!Pack(1, 5)
    <3>1. HandledAs(n, 2, 6, c)
      BY <1>5, <2>1, <2>2, <2>3
    <3> QED BY <3>1
  <2>4. CASE n = C!Pack(1, 1) + C!Pack(1, 1)
    <3>1. HandledAs(n, 2, 2, c)
      BY <1>5, <2>1, <2>2, <2>4
    <3> QED BY <3>1
  <2> QED BY <2>1, <2>3, <2>4
<1>6. CASE c.id = "ResetTarget"
  <2>1. n = C!Pack(1, 1) + C!Pack(0, 2) /\ c.bytes = 1
    BY <1>6, FixedNames DEF C!DAP_ProcessCommand, C!Simple
  <2>2. 3 \in C!Expected(c)
    BY <1>6 DEF C!Expected
  <2>3. HandledAs(n, 1, 3, c)
    BY <1>6, <2>1, <2>2
  <2> QED BY <2>3
<1>7. CASE c.id \in { "Connect", "Disconnect", "SWJ_Pins", "SWJ_Clock", "SWD_Configure", "TransferConfigure" }
  <2>1. n = C!Pack(1, 1) + C!Simple[c.id]
    BY <1>7 DEF C!DAP_ProcessCommand
  <2>2. C!Simple[c.id] = C!Pack(c.bytes - 1, 1) /\ c.bytes \in 1..7
    BY <1>7, FixedNames DEF C!Simple
  <2>3. 2 \in C!Expected(c)
    BY <1>7 DEF C!Expected
  <2>4. HandledAs(n, c.bytes, 2, c)
    BY <1>7, <2>1, <2>2, <2>3
  <2> QED BY <2>2, <2>4
<1> QED BY <1>1, <1>2, <1>3, <1>4, <1>5, <1>6, <1>7, FixedNames

LEMMA SequencesHandled ==
    ASSUME NEW c, C!Written(c), c.bytes \in 1..Packet, CommandTypes,
           c.id \in { "SWJ_Sequence", "JTAG_Configure", "SWD_Sequence", "JTAG_Sequence" },
           NEW n \in C!DAP_ProcessCommand(c)
    PROVE  \E t, g \in Nat : HandledAs(n, t, g, c)
<1> USE DEF HandledAs, Packet, C!DAP_PACKET_SIZE, C!Pack, C!Half
<1>1. CASE c.id = "SWJ_Sequence"
  <2>1. c.clocks \in 1..256 /\ c.bytes = 2 + (c.clocks + 7) \div 8
    BY <1>1, FixedNames DEF C!Written
  <2>2. DEFINE r == (c.clocks + 7) \div 8
  <2>3. r \in Nat
    BY <2>1
  <2>4. (IF c.clocks % 256 = 0 THEN 256 ELSE c.clocks) = c.clocks
    BY <2>1
  <2>5. n = C!Pack(1, 1) + C!Pack(r + 1, 1)
    <3>1. n = C!Pack(1, 1) + C!DAP_SWJ_Sequence(c)
      BY <1>1 DEF C!DAP_ProcessCommand
    <3>2. C!DAP_SWJ_Sequence(c) = C!Pack(r + 1, 1)
      BY <2>4 DEF C!DAP_SWJ_Sequence
    <3> QED BY <3>1, <3>2
  <2> HIDE DEF r
  <2>6. n = C!Pack(r + 2, 2) /\ c.bytes = r + 2
    BY <2>1, <2>3, <2>5 DEF r
  <2>7. 2 \in C!Expected(c)
    BY <1>1 DEF C!Expected
  <2>8. HandledAs(n, c.bytes, 2, c)
    BY <2>3, <2>6, <2>7
  <2> HIDE DEF HandledAs
  <2> QED BY <2>3, <2>6, <2>8, HandledSo
<1>2. CASE c.id = "JTAG_Configure"
  <2>1. c.count \in 0..8 /\ c.bytes = 2 + c.count
    BY <1>2, FixedNames DEF C!Written
  <2>2. n = C!Pack(1, 1) + C!Pack(c.count + 1, 1)
    BY <1>2 DEF C!DAP_ProcessCommand, C!DAP_JTAG_Configure
  <2>3. 2 \in C!Expected(c)
    BY <1>2 DEF C!Expected
  <2>4. HandledAs(n, c.bytes, 2, c)
    BY <2>1, <2>2, <2>3
  <2> QED BY <2>1, <2>4
<1>3. ASSUME C!Sequenced(c), C!Expected(c) = { 2 + c.captured }, NEW m \in Nat, c.bytes = 2 + m,
             n = C!Pack(1, 1) + C!Pack(1 + m, 1 + c.captured)
      PROVE  \E t, g \in Nat : HandledAs(n, t, g, c)
  <2>1. c.captured \in Nat /\ 2 + c.captured <= 512
    <3>1. C!Captured(c) \in Nat
      BY <1>3, SequencesTaken
    <3> QED BY <1>3, <3>1 DEF C!Sequenced
  <2>2. n = C!Pack(2 + m, 2 + c.captured)
    BY <1>3, <2>1
  <2>3. HandledAs(n, 2 + m, 2 + c.captured, c)
    BY <1>3, <2>1, <2>2
  <2> HIDE DEF HandledAs
  <2> QED BY <1>3, <2>1, <2>3, HandledSo
<1>4. CASE c.id = "SWD_Sequence"
  <2>1. C!Sequenced(c) /\ c.bytes = 2 + Len(c.seqs) + C!OnlySent(c)
    BY <1>4, FixedNames DEF C!Written
  <2> DEFINE m == Len(c.seqs) + C!OnlySent(c)
  <2>2. C!OnlySent(c) \in Nat /\ Len(c.seqs) \in Nat /\ c.captured = C!Captured(c)
    BY <2>1, SequencesTaken DEF C!Sequenced
  <2>3. n = C!Pack(1, 1) + C!DAP_SWD_Sequence(c)
    BY <1>4 DEF C!DAP_ProcessCommand
  <2>4. C!DAP_SWD_Sequence(c) = C!Pack(1 + m, 1 + C!Captured(c))
    BY <2>1, SequencesTaken
  <2>5. C!Expected(c) = { 2 + c.captured }
    BY <1>4 DEF C!Expected
  <2>6. m \in Nat /\ c.bytes = 2 + m
    BY <2>1, <2>2
  <2> HIDE DEF m
  <2> QED BY <1>3, <2>1, <2>2, <2>3, <2>4, <2>5, <2>6
<1>5. CASE c.id = "JTAG_Sequence"
  <2>1. C!Sequenced(c) /\ c.bytes = 2 + Len(c.seqs) + C!OnlySent(c) + c.captured
    BY <1>5, FixedNames DEF C!Written
  <2> DEFINE m == Len(c.seqs) + C!OnlySent(c) + C!Captured(c)
  <2>2. C!OnlySent(c) \in Nat /\ Len(c.seqs) \in Nat /\ c.captured = C!Captured(c)
        /\ c.captured \in Nat
    BY <2>1, SequencesTaken DEF C!Sequenced
  <2>3. n = C!Pack(1, 1) + C!DAP_JTAG_Sequence(c)
    BY <1>5 DEF C!DAP_ProcessCommand
  <2>4. C!DAP_JTAG_Sequence(c) = C!Pack(1 + m, 1 + C!Captured(c))
    BY <2>1, SequencesTaken
  <2>5. C!Expected(c) = { 2 + c.captured }
    BY <1>5 DEF C!Expected
  <2>6. m \in Nat /\ c.bytes = 2 + m
    <3>1. PICK a \in Nat, b \in Nat, d \in Nat :
            a = Len(c.seqs) /\ b = C!OnlySent(c) /\ d = c.captured /\ d = C!Captured(c)
      BY <2>2
    <3>2. a \in Nat /\ b \in Nat /\ d \in Nat
      OBVIOUS
    <3>3. m = a + b + d /\ c.bytes = 2 + a + b + d
      BY <2>1, <3>1
    <3> HIDE DEF m
    <3> QED BY ONLY <3>2, <3>3
  <2> HIDE DEF m
  <2> QED BY <1>3, <2>1, <2>2, <2>3, <2>4, <2>5, <2>6
<1> QED BY <1>1, <1>2, <1>4, <1>5

LEMMA TransfersHandled ==
    ASSUME NEW c, C!Written(c), c.bytes \in 1..Packet, CommandTypes,
           c.id \in { "Transfer", "TransferBlock" },
           NEW n \in C!DAP_ProcessCommand(c)
    PROVE  \E t, g \in Nat : HandledAs(n, t, g, c)
<1> USE DEF HandledAs, Packet, C!DAP_PACKET_SIZE, C!Pack, C!Half
<1>0. c.reads \in Nat /\ c.writes \in Nat /\ c.device \in Nat /\ 4 + 4 * c.reads <= 512
  BY FixedNames DEF C!Written, C!Transferred
<1>1. CASE c.id = "Transfer"
  <2>1. c.bytes = 3 + c.reads + 5 * c.writes
    BY <1>1, FixedNames DEF C!Written
  <2> DEFINE all == C!RequestBytes(c)
  <2>7. all = 2 + c.reads + 5 * c.writes
    BY DEF C!RequestBytes
  <2>2. PICK k \in C!DAP_Transfer(c) : n = C!Pack(1, 1) + k
    BY <1>1 DEF C!DAP_ProcessCommand
  <2>3. ASSUME NEW r \in 0..c.reads, k = C!Pack(all, 2 + 4 * r)
        PROVE  \E t, g \in Nat : HandledAs(n, t, g, c)
    <3>1. 3 + 4 * r \in C!Expected(c)
      BY <1>1 DEF C!Expected
    <3>2. n = C!Pack(c.bytes, 3 + 4 * r) /\ 3 + 4 * r <= 512 /\ r \in Nat
      <4> HIDE DEF all
      <4> QED BY <1>0, <2>1, <2>2, <2>3, <2>7
    <3>3. HandledAs(n, c.bytes, 3 + 4 * r, c)
      BY <3>1, <3>2
    <3> HIDE DEF HandledAs
    <3> QED BY <1>0, <2>1, <3>2, <3>3, HandledSo
  <2>4. CASE listPort = "DISABLED"
    <3>1. k = C!Pack(all, 2)
      <4>1. k \in C!DAP_Transfer(c)
        BY <2>2
      <4> HIDE DEF C!Pack, C!Half, Packet, HandledAs, C!DAP_PACKET_SIZE
      <4>2. C!DAP_Transfer(c) = { C!Pack(C!RequestBytes(c), 2) }
        BY <2>4 DEF C!DAP_Transfer, C!NoDevice
      <4> QED BY Zenon, <4>1, <4>2
    <3>2. 2 + 4 * 0 = 2 /\ 0 \in 0..c.reads
      BY <1>0
    <3>3. k = C!Pack(all, 2 + 4 * 0)
      <4> HIDE DEF all
      <4> QED BY <3>1, <3>2
    <3> HIDE DEF all
    <3> QED BY <2>3, <3>2, <3>3
  <2>5. CASE listPort # "DISABLED" /\ C!NoDevice(c)
    <3>1. k = C!Pack(1, 2)
      <4> HIDE DEF C!Pack
      <4> QED BY <2>2, <2>5 DEF C!DAP_Transfer
    <3>2. C!Opaque(c)
      BY <1>1, <2>5 DEF C!Opaque
    <3>3. HandledAs(n, 2, 3, c)
      BY <2>2, <3>1, <3>2
    <3> QED BY <3>3
  <2>6. CASE listPort # "DISABLED" /\ ~C!NoDevice(c)
    <3>1. k \in { C!Pack(all, 2 + 4 * r) : r \in { c.reads - 1, c.reads } \ { -1 } }
      BY <2>2, <2>6 DEF C!DAP_Transfer
    <3>3. { c.reads - 1, c.reads } \ { -1 } \subseteq 0..c.reads
      BY <1>0
    <3> HIDE DEF all
    <3>2. PICK r \in 0..c.reads : k = C!Pack(all, 2 + 4 * r)
      BY <3>1, <3>3
    <3> HIDE DEF all
    <3> QED BY <2>3, <3>2
  <2> QED BY <2>4, <2>5, <2>6
<1>2. CASE c.id = "TransferBlock"
  <2>1. c.bytes = 5 + 4 * c.writes
    BY <1>2, FixedNames DEF C!Written
  <2>2. PICK k \in C!DAP_TransferBlock(c) : n = C!Pack(1, 1) + k
    BY <1>2 DEF C!DAP_ProcessCommand
  <2>3. PICK r \in 0..c.reads : k = C!Pack(4 + 4 * c.writes, 3 + 4 * r)
    <3>1. 0 \in 0..c.reads /\ 3 + 4 * 0 = 3
      BY <1>0
    <3>2. k \in { C!Pack(4 + 4 * c.writes, 3) } \cup
               { C!Pack(4 + 4 * c.writes, 3 + 4 * r) : r \in 0..c.reads }
      BY <2>2 DEF C!DAP_TransferBlock
    <3> QED BY <3>1, <3>2
  <2>4. 4 + 4 * r \in C!Expected(c)
    BY <1>2 DEF C!Expected
  <2>5. n = C!Pack(c.bytes, 4 + 4 * r) /\ 4 + 4 * r <= 512 /\ r \in Nat
    BY <1>0, <2>1, <2>2, <2>3
  <2>6. HandledAs(n, c.bytes, 4 + 4 * r, c)
    BY <2>4, <2>5
  <2>7. c.bytes \in Nat /\ 4 + 4 * r \in Nat
    BY <1>0, <2>1, <2>5
  <2> HIDE DEF HandledAs
  <2> QED BY <2>6, <2>7, HandledSo
<1> QED BY <1>1, <1>2

LEMMA Handled ==
    ASSUME NEW c, C!Written(c), c.bytes \in 1..Packet, CommandTypes,
           NEW n \in C!DAP_ProcessCommand(c)
    PROVE  \E t, g \in Nat : HandledAs(n, t, g, c)
<1> USE DEF HandledAs, Packet, C!DAP_PACKET_SIZE, C!Pack, C!Half
<1>1. CASE c.id \in DOMAIN C!Fixed
  <2>1. c.bytes = C!Fixed[c.id]
    BY <1>1, FixedNames DEF C!Written
  <2> HIDE DEF HandledAs, Packet, C!DAP_PACKET_SIZE, C!Pack, C!Half
  <2> QED BY <1>1, <2>1, FixedHandled
<1>2. CASE c.id = "Unknown"
  <2>1. n = C!Pack(1, 1) /\ C!Opaque(c)
    BY <1>2 DEF C!DAP_ProcessCommand, C!Opaque
  <2>2. HandledAs(n, 1, 1, c)
    BY <2>1
  <2> QED BY <2>2
<1>3. CASE c.id = "Vendor8"
  <2>1. n = C!el_vendor_command(c) /\ C!Opaque(c)
    BY <1>3 DEF C!DAP_ProcessCommand, C!DAP_ProcessVendorCommand, C!Opaque
  <2>2. c.inner \in 0..508
    BY <1>3, FixedNames DEF C!Written
  <2>3. n \in { 0, 4, 4 + c.inner }
    BY <2>1, <2>2 DEF C!el_vendor_command
  <2>4. HandledAs(n, 0, n, c) /\ n \in Nat
    BY <2>1, <2>2, <2>3
  <2> QED BY <2>4
<1>4. CASE c.id \notin DOMAIN C!Fixed /\ c.id # "Unknown" /\ c.id # "Vendor8"
  <2>1. c.id \in { "SWJ_Sequence", "JTAG_Configure", "SWD_Sequence", "JTAG_Sequence",
                   "Transfer", "TransferBlock" }
    BY <1>4 DEF C!Written
  <2> HIDE DEF HandledAs, Packet, C!DAP_PACKET_SIZE, C!Pack, C!Half
  <2> QED BY <2>1, SequencesHandled, TransfersHandled
<1> QED BY <1>1, <1>2, <1>3, <1>4

(* A list of transfers that fails takes what it takes, and answers no more *)
(* than what it read.                                                      *)
ExecutedAs(n, t, g, opaque, c) ==
    /\ t \in Nat /\ g \in 0..Packet /\ n = C!Pack(t, g) /\ opaque \in BOOLEAN
    /\ ~opaque => /\ ~C!Opaque(c) /\ t = c.bytes
                  /\ c.id \in { "Info", "Vendor0" } \/ g \in C!Expected(c)

LEMMA FailedTransfer ==
    ASSUME NEW c, C!Written(c), c.id = "Transfer", NEW k \in C!DAP_TransferFailed(c)
    PROVE  \E t, g : ExecutedAs(C!Pack(1, 1) + k, t, g, TRUE, c)
<1>0. c.reads \in Nat /\ c.writes \in Nat /\ 4 + 4 * c.reads <= 512
  BY FixedNames DEF C!Written, C!Transferred, C!DAP_PACKET_SIZE
<1>1. PICK r \in Nat, w \in Nat : r = c.reads /\ w = c.writes /\ 4 + 4 * r <= 512
  BY <1>0
<1>2. \E x \in Int, m \in 0..r : /\ x >= -w
                                /\ k = C!Pack(C!RequestBytes(c) + 1 + 4 * x, 2 + 4 * m)
  BY <1>1 DEF C!DAP_TransferFailed
<1>3. PICK x \in Int, m \in Nat : /\ x >= -w /\ m <= r
                                /\ k = C!Pack(C!RequestBytes(c) + 1 + 4 * x, 2 + 4 * m)
  BY <1>2
<1>4. C!RequestBytes(c) = 2 + r + 5 * w
  BY <1>1 DEF C!RequestBytes
<1>5. PICK t \in Nat, g \in 0..512 : t = 4 + r + 5 * w + 4 * x /\ g = 3 + 4 * m
  <2>1. r \in Nat /\ w \in Nat /\ x \in Int /\ m \in Nat
    OBVIOUS
  <2>2. 4 + r + 5 * w + 4 * x \in Nat /\ 3 + 4 * m \in 0..512
    BY ONLY <1>1, <1>3, <2>1
  <2> QED BY <2>2
<1>6. C!Pack(1, 1) + k = C!Pack(t, g)
  <2>1. r \in Nat /\ w \in Nat /\ x \in Int /\ m \in Nat
    OBVIOUS
  <2> QED BY ONLY <1>3, <1>4, <1>5, <2>1 DEF C!Pack, C!Half
<1>7. t \in Nat /\ g \in 0..Packet
  BY DEF Packet, C!DAP_PACKET_SIZE
<1> QED BY <1>6, <1>7 DEF ExecutedAs

LEMMA CommandExecuted ==
    ASSUME NEW c, C!Written(c), c.bytes \in 1..Packet, CommandTypes, C!DAP_ExecuteCommand(c)
    PROVE  \E n, t, g, opaque : C!Executed(c, n, opaque) /\ ExecutedAs(n, t, g, opaque, c)
<1>1. CASE \E n \in C!DAP_ProcessCommand(c) : C!Executed(c, n, C!Opaque(c))
  <2>1. PICK n \in C!DAP_ProcessCommand(c) : C!Executed(c, n, C!Opaque(c))
    BY Zenon, <1>1
  <2>2. PICK t \in Nat, g \in Nat : HandledAs(n, t, g, c)
    BY Handled
  <2>3. C!Opaque(c) \in BOOLEAN
    BY DEF C!Opaque
  <2>4. ExecutedAs(n, t, g, C!Opaque(c), c)
    BY <2>2, <2>3 DEF HandledAs, ExecutedAs
  <2> QED BY Zenon, <2>1, <2>4
<1>2. CASE c.id = "Transfer" /\ \E k \in C!DAP_TransferFailed(c) : C!Executed(c, C!Pack(1, 1) + k, TRUE)
  <2>1. PICK k \in C!DAP_TransferFailed(c) : C!Executed(c, C!Pack(1, 1) + k, TRUE)
    BY Zenon, <1>2
  <2>2. PICK t, g : ExecutedAs(C!Pack(1, 1) + k, t, g, TRUE, c)
    BY <1>2, FailedTransfer
  <2> QED BY Zenon, <2>1, <2>2
<1> QED BY Zenon, <1>1, <1>2 DEF C!DAP_ExecuteCommand

(* The answers as they are counted.                                        *)
Answered == [ opaque : BOOLEAN, id : Names, at : Nat, len : 0..Packet ]

(* The two sums lie side by side in num, as long as a list of commands is  *)
(* no longer than CommandAssumption has it; and while the length of no     *)
(* command was unknown, each of them is what the debugger expects.         *)
ListCounted ==
    /\ taken \in Nat
    /\ C!Given(num) \in 0..2 + Packet * Len(answers)
    /\ num = C!Pack(taken, C!Given(num))
GivenSoFar == 2 + C!Sum([ j \in 1..Len(answers) |-> answers[j].len ])

CommandInv ==
    /\ CommandTypes
    /\ packet \in Packets \cup { C!None } /\ left \in Nat /\ answers \in Seq(Answered)
    /\ packet = C!None => left = 0 /\ answers = << >>
    /\ left + Len(answers) <= (IF C!InList THEN Len(packet.list) ELSE 1)
    /\ ListCounted
    /\ C!InList /\ C!Clear => C!Given(num) = GivenSoFar
    /\ C!ListInStep

LEMMA OneIn ==
    ASSUME NEW k \in 1..127 PROVE 1 \in 1..k /\ k \in Nat
OBVIOUS

LEMMA PacketFacts ==
    ASSUME NEW p \in Packets, C!CommandAssumption
    PROVE  /\ Len(p.list) \in 1..127 /\ DOMAIN p.list = 1..Len(p.list) /\ p.atomic \in BOOLEAN
           /\ p # C!None
           /\ \A i \in 1..Len(p.list) : C!Written(p.list[i]) /\ p.list[i].bytes \in 1..Packet
                                        /\ p.list[i].id \in Names
<1>1. /\ Len(p.list) \in 1..127 /\ DOMAIN p.list = 1..Len(p.list) /\ p.atomic \in BOOLEAN
      /\ \A i \in 1..Len(p.list) : C!Written(p.list[i]) /\ p.list[i].bytes \in 1..Packet
  <2>1. (C!Half \div C!DAP_PACKET_SIZE) - 1 = 127
    BY DEF C!Half, C!DAP_PACKET_SIZE
  <2>2. /\ p.atomic \in BOOLEAN
        /\ DOMAIN p.list = 1..Len(p.list) /\ Len(p.list) \in 1..(C!Half \div C!DAP_PACKET_SIZE) - 1
        /\ \A i \in DOMAIN p.list : C!Written(p.list[i]) /\ p.list[i].bytes \in 1..C!DAP_PACKET_SIZE
    BY Zenon DEF C!CommandAssumption
  <2> QED BY <2>1, <2>2, Zenon DEF Packet
<1>2. p # C!None
  <2>1. ASSUME p = C!None PROVE FALSE
    <3>1. p.list = << >>
      BY <2>1 DEF C!None
    <3>2. Len(p.list) = 0
      BY <3>1
    <3> QED BY <1>1, <3>2
  <2> QED BY <2>1
<1>3. ASSUME NEW i \in 1..Len(p.list) PROVE p.list[i].id \in Names
  BY <1>1 DEF C!Written, Names
<1> QED BY <1>1, <1>2, <1>3

(* Where the commands of a list begin.                                     *)
LEMMA Starts ==
    ASSUME packet \in Packets, packet.atomic, C!CommandAssumption
    PROVE  /\ C!Start(1) = 2
           /\ \A i \in 1..Len(packet.list) : C!Start(i + 1) = C!Start(i) + packet.list[i].bytes
           /\ \A i \in 1..Len(packet.list) + 1 : C!Start(i) \in Nat
           /\ \A i, j \in 1..Len(packet.list) + 1 : C!Start(i) = C!Start(j) => i = j
<1> DEFINE N == Len(packet.list)
           d == [ i \in 1..N |-> packet.list[i].bytes ]
<1>1. N \in Nat /\ \A i \in 1..N : d[i] \in Nat /\ d[i] > 0 /\ d[i] = packet.list[i].bytes
  <2>1. N \in Nat
    BY PacketFacts
  <2>2. \A i \in 1..N : packet.list[i].bytes \in 1..512
    BY Zenon, PacketFacts DEF Packet, C!DAP_PACKET_SIZE
  <2> HIDE DEF N
  <2>3. ASSUME NEW i \in 1..N PROVE d[i] \in Nat /\ d[i] > 0 /\ d[i] = packet.list[i].bytes
    <3>1. d[i] = packet.list[i].bytes
      OBVIOUS
    <3>2. PICK b \in 1..512 : packet.list[i].bytes = b
      BY <2>2
    <3>3. b \in Nat /\ b > 0
      OBVIOUS
    <3> HIDE DEF d
    <3> QED BY ONLY <3>1, <3>2, <3>3
  <2> HIDE DEF d
  <2> QED BY <2>1, <2>3
<1>2. PICK s : SumsOf(s, d, N)
  <2> HIDE DEF d, N
  <2> QED BY <1>1, SumsExist
<1>3. ASSUME NEW i \in 1..N + 1 PROVE C!Start(i) = 2 + s[i - 1]
  <2>1. i - 1 \in 0..N
    BY <1>1
  <2>2. [ j \in 1..(i - 1) |-> packet.list[j].bytes ] = [ j \in 1..(i - 1) |-> d[j] ]
    BY <1>1, <2>1
  <2>3. C!Sum([ j \in 1..(i - 1) |-> d[j] ]) = s[i - 1]
    <3> HIDE DEF d, N
    <3> QED BY <1>1, <1>2, <2>1, FirstSums
  <2> HIDE DEF d
  <2> QED BY Zenon, <2>2, <2>3 DEF C!Start
<1> HIDE DEF d, N
<1>4. s[0] = 0 /\ (\A i \in 0..N : s[i] \in Nat) /\ (\A i \in 1..N : s[i] = s[i - 1] + d[i])
  BY <1>2 DEF SumsOf
<1>5. \A i, j \in 0..N : i < j => s[i] < s[j]
  BY <1>1, <1>2, SumsRise
<1>6. C!Start(1) = 2
  <2>1. 1 \in 1..N + 1 /\ 1 - 1 = 0
    BY <1>1
  <2>2. C!Start(1) = 2 + s[1 - 1]
    BY <1>3, <2>1
  <2> QED BY ONLY <2>1, <2>2, <1>4
<1>7. ASSUME NEW i \in 1..N PROVE C!Start(i + 1) = C!Start(i) + packet.list[i].bytes
  <2>1. i \in 1..N + 1 /\ i + 1 \in 1..N + 1 /\ (i + 1) - 1 = i /\ i - 1 \in 0..N /\ i \in 0..N
    BY <1>1
  <2>2. C!Start(i + 1) = 2 + s[i] /\ C!Start(i) = 2 + s[i - 1]
    BY <1>3, <2>1
  <2>3. s[i] = s[i - 1] + d[i] /\ d[i] = packet.list[i].bytes /\ d[i] \in Nat
        /\ s[i - 1] \in Nat
    BY <1>1, <1>4, <2>1
  <2> QED BY ONLY <2>2, <2>3
<1>8. ASSUME NEW i \in 1..N + 1 PROVE C!Start(i) \in Nat
  <2>1. i - 1 \in 0..N
    BY <1>1
  <2> QED BY <1>3, <1>4, <2>1
<1>9. ASSUME NEW i \in 1..N + 1, NEW j \in 1..N + 1, C!Start(i) = C!Start(j) PROVE i = j
  <2>1. i - 1 \in 0..N /\ j - 1 \in 0..N
    BY <1>1
  <2>2. 2 + s[i - 1] = 2 + s[j - 1] /\ s[i - 1] \in Nat /\ s[j - 1] \in Nat
    BY <1>3, <1>4, <1>9, <2>1
  <2>3. ~(i - 1 < j - 1) /\ ~(j - 1 < i - 1)
    <3>1. s[i - 1] = s[j - 1]
      BY ONLY <2>2
    <3>2. i - 1 < j - 1 => s[i - 1] < s[j - 1]
      BY <1>5, <2>1
    <3>3. j - 1 < i - 1 => s[j - 1] < s[i - 1]
      BY <1>5, <2>1
    <3> QED BY ONLY <3>1, <3>2, <3>3, <2>2
  <2> QED BY <1>1, <2>1, <2>3
<1> QED BY Zenon, <1>6, <1>7, <1>8, <1>9 DEF N

LEMMA CommandInit == C!CommandAssumption /\ C!Init => CommandInv
<1> SUFFICES ASSUME C!CommandAssumption, C!Init PROVE CommandInv
  OBVIOUS
<1>1. /\ listPort = "DISABLED" /\ count = 0 /\ packet = C!None /\ left = 0
      /\ taken = 0 /\ num = 0 /\ answers = << >>
  BY DEF C!Init
<1>2. answers \in Seq(Answered) /\ Len(answers) = 0
  BY <1>1
<1>3. ~C!InList
  BY <1>1 DEF C!InList, C!None
<1>4. ListCounted
  BY <1>1, <1>2 DEF ListCounted, C!Given, C!Pack, C!Half, Packet, C!DAP_PACKET_SIZE
<1>5. C!ListInStep
  BY <1>3 DEF C!ListInStep, C!InStep, C!AnswersReadable
<1>6. CommandTypes
  BY <1>1 DEF CommandTypes
<1> QED BY <1>1, <1>2, <1>3, <1>4, <1>5, <1>6 DEF CommandInv

(* What a command does to the answers and to the sums.                     *)
LEMMA Executes ==
    ASSUME CommandInv, NEW c, NEW n, NEW t \in Nat, NEW g \in 0..Packet, n = C!Pack(t, g),
           NEW opaque \in BOOLEAN, c.id \in Names \cup { "ExecuteCommands" }, Len(answers) < 127,
           num' = num + n, taken' = taken + C!Taken(n),
           answers' = Append(answers, C!Answer(c, n, opaque))
    PROVE  /\ ListCounted' /\ answers' \in Seq(Answered)
           /\ taken' = taken + t /\ C!Given(num') = C!Given(num) + g
           /\ Len(answers) \in Nat /\ Len(answers') = Len(answers) + 1
           /\ \A i \in 1..Len(answers) : answers'[i] = answers[i]
           /\ answers'[Len(answers) + 1] = C!Answer(c, n, opaque)
           /\ C!Answer(c, n, opaque).len = g
<1>1. answers \in Seq(Answered) /\ Len(answers) \in Nat
  BY DEF CommandInv
<1>2. PICK k \in Nat : k = Len(answers) /\ k < 127
  BY <1>1
<1>3. PICK x \in Nat, y \in Nat :
        /\ taken = x /\ C!Given(num) = y /\ y <= 2 + 512 * k
        /\ num = C!Pack(x, y)
  BY <1>2 DEF CommandInv, ListCounted, Packet, C!DAP_PACKET_SIZE
<1>0. k \in Nat /\ x \in Nat /\ y \in Nat /\ t \in Nat /\ g \in Nat
  BY DEF Packet, C!DAP_PACKET_SIZE
<1>4. n = C!Pack(t, g)
  OBVIOUS
<1>14. g <= 512
  BY DEF Packet, C!DAP_PACKET_SIZE
<1>15. y <= 2 + 512 * k
  BY <1>3
<1>16. k < 127
  BY <1>2
<1>6. /\ y < 65536 /\ y + g < 65536 /\ x + t \in Nat /\ y + g \in Nat /\ g < 65536
      /\ y + g <= 2 + 512 * (k + 1)
  BY ONLY <1>0, <1>14, <1>15, <1>16
<1>5. C!Taken(n) = t /\ C!Given(n) = g
  BY <1>0, <1>4, <1>6, Packing
<1>7. num' = C!Pack(x + t, y + g) /\ taken' = x + t
  <2>1. C!Pack(x, y) + C!Pack(t, g) = C!Pack(x + t, y + g)
    BY <1>0, <1>6, Packing
  <2> QED BY <1>3, <1>4, <1>5, <2>1
<1>12. C!Given(C!Pack(x + t, y + g)) = y + g
  BY <1>6, Packing
<1>13. C!Given(num') = y + g
  BY <1>7, <1>12
<1>8. C!Answer(c, n, opaque) \in Answered
  <2>1. C!Answer(c, n, opaque) = [ opaque |-> opaque, id |-> IF c.id \in { "Unknown", "ExecuteCommands" } THEN "Invalid" ELSE c.id,
                           at |-> C!Given(num), len |-> C!Given(n) ]
    BY DEF C!Answer
  <2>3. (IF c.id \in { "Unknown", "ExecuteCommands" } THEN "Invalid" ELSE c.id) \in Names
    BY DEF Names
  <2>4. C!Given(num) \in Nat /\ C!Given(n) \in 0..Packet
    <3>1. g \in 0..512
      BY ONLY <1>0, <1>14
    <3> QED BY <1>3, <1>5, <3>1 DEF Packet, C!DAP_PACKET_SIZE
  <2> QED BY <2>1, <2>3, <2>4 DEF Answered
<1>9. /\ answers' \in Seq(Answered) /\ Len(answers') = Len(answers) + 1
      /\ \A i \in 1..Len(answers) : answers'[i] = answers[i]
      /\ answers'[Len(answers) + 1] = C!Answer(c, n, opaque)
  BY <1>1, <1>8, AppendProperties
<1>10. ListCounted'
  <2>1. num' = C!Pack(taken', C!Given(num'))
    BY <1>7, <1>13
  <2>2. x + t \in Nat /\ y + g \in 0..2 + 512 * (k + 1)
    BY ONLY <1>0, <1>6
  <2>3. Len(answers') = k + 1
    BY <1>2, <1>9
  <2> QED BY <1>7, <1>13, <2>1, <2>2, <2>3 DEF ListCounted, Packet, C!DAP_PACKET_SIZE
<1>11. C!Answer(c, n, opaque).len = g
  BY <1>5 DEF C!Answer
<1> QED BY <1>1, <1>3, <1>7, <1>9, <1>10, <1>11, <1>13

(* The next command of a list, in step if the others were.                 *)
LEMMA ExecuteListed ==
    ASSUME CommandInv, C!CommandAssumption, C!InList, left > 0, left' = left - 1,
           UNCHANGED << route, packet >>,
           NEW i \in C!Here, C!DAP_ExecuteCommand(packet.list[i])
    PROVE  CommandInv'
<1> DEFINE c == packet.list[i]
           N == Len(packet.list)
<1>1. packet \in Packets /\ packet.atomic
  BY DEF CommandInv, C!InList
<1>2. N \in 1..127 /\ DOMAIN packet.list = 1..N /\ i \in 1..N /\ C!Start(i) = taken
  BY <1>1, PacketFacts DEF C!Here
<1>3. C!Written(c) /\ c.bytes \in 1..Packet /\ c.id \in Names
  BY <1>1, <1>2, PacketFacts
<1>4. PICK k \in Nat : k = Len(answers)
  BY DEF CommandInv
<1>5. CommandTypes /\ answers \in Seq(Answered) /\ left \in Nat /\ left + k <= N /\ DOMAIN answers = 1..k
  BY <1>4 DEF CommandInv
<1>6. k < 127 /\ k + 1 \in 1..N /\ k \in 0..N /\ left' \in Nat /\ left' + (k + 1) <= N
  <2>1. left > 0 /\ left' = left - 1 /\ k \in Nat
    OBVIOUS
  <2> HIDE DEF N
  <2> QED BY ONLY <1>2, <1>5, <2>1
<1>8. PICK n, t, g, opaque : C!Executed(c, n, opaque) /\ ExecutedAs(n, t, g, opaque, c)
  <2>1. C!DAP_ExecuteCommand(c)
    OBVIOUS
  <2> HIDE DEF c
  <2> QED BY <1>3, <1>5, <2>1, CommandExecuted
<1> HIDE DEF c, N
<1>7. /\ num' = num + n /\ taken' = taken + C!Taken(n)
      /\ answers' = Append(answers, C!Answer(c, n, opaque)) /\ C!Effect(c)
  BY Zenon, <1>8 DEF C!Executed
<1>19. t \in Nat /\ g \in 0..Packet /\ n = C!Pack(t, g) /\ opaque \in BOOLEAN
  BY Zenon, <1>8 DEF ExecutedAs
<1>9. /\ ListCounted' /\ answers' \in Seq(Answered)
      /\ taken' = taken + t /\ C!Given(num') = C!Given(num) + g
      /\ Len(answers') = k + 1
      /\ \A j \in 1..k : answers'[j] = answers[j]
      /\ answers'[k + 1] = C!Answer(c, n, opaque) /\ C!Answer(c, n, opaque).len = g
  BY <1>3, <1>4, <1>6, <1>7, <1>19, Executes
<1>10. CommandTypes'
  BY Zenon, <1>3, <1>5, <1>7, FixedNames DEF CommandTypes, C!Effect, C!Written
<1>11. C!InList' /\ packet' = packet
  BY DEF C!InList
<1>12. DOMAIN answers' = 1..k + 1 /\ \A j \in 1..k + 1 : answers'[j].len \in Nat
  <2>1. ASSUME NEW j \in 1..k + 1 PROVE answers'[j].len \in Nat
    <3>1. answers'[j] \in Answered
      BY <1>9, ElementOfSeq
    <3> QED BY <3>1 DEF Answered, Packet, C!DAP_PACKET_SIZE
  <2> QED BY <1>9, <2>1
<1>13. ASSUME C!Clear'
       PROVE  /\ C!Clear /\ ~C!Opaque(c) /\ i = k + 1 /\ c.id = C!Answer(c, n, opaque).id
              /\ t = c.bytes /\ (c.id \in { "Info", "Vendor0" } \/ g \in C!Expected(c))
  <2>1. \A j \in 1..k + 1 : ~answers'[j].opaque
    BY <1>12, <1>13 DEF C!Clear
  <2>2. \A j \in 1..k : ~answers[j].opaque
    <3>1. \A j \in 1..k : j \in 1..k + 1
      OBVIOUS
    <3> QED BY <1>9, <2>1, <3>1
  <2>3. C!Clear
    BY <1>5, <2>2 DEF C!Clear
  <2>4. ~C!Opaque(c)
    <3>1. C!Answer(c, n, opaque).opaque = opaque
      BY DEF C!Answer
    <3>2. k + 1 \in 1..k + 1
      OBVIOUS
    <3>3. ~opaque
      BY <1>9, <2>1, <3>1, <3>2
    <3> QED BY <1>8, <3>3 DEF ExecutedAs
  <2>7. t = c.bytes /\ (c.id \in { "Info", "Vendor0" } \/ g \in C!Expected(c))
    <3>1. C!Answer(c, n, opaque).opaque = opaque
      BY DEF C!Answer
    <3>2. k + 1 \in 1..k + 1
      OBVIOUS
    <3>3. ~opaque
      BY <1>9, <2>1, <3>1, <3>2
    <3> QED BY <1>8, <3>3 DEF ExecutedAs
  <2>5. i = k + 1
    <3>1. taken = C!Start(k + 1)
      BY <1>4, <2>3 DEF CommandInv, C!ListInStep, C!InStep
    <3>2. i \in 1..N + 1 /\ k + 1 \in 1..N + 1
      <4>1. N \in Nat /\ i \in 1..N
        BY <1>2, OneIn, Zenon
      <4>2. k + 1 \in 1..N
        BY <1>6
      <4> QED BY ONLY <4>1, <4>2
    <3> QED BY Zenon, <1>1, <1>2, <3>1, <3>2, Starts DEF N
  <2>6. c.id = C!Answer(c, n, opaque).id
    <3>1. c.id # "Unknown" /\ c.id # "ExecuteCommands"
      BY <1>3, <2>4, FixedNames DEF C!Opaque, Names
    <3> QED BY <3>1 DEF C!Answer
  <2> QED BY <2>3, <2>4, <2>5, <2>6, <2>7
<1>14. C!InStep'
  <2>1. SUFFICES ASSUME C!Clear'
        PROVE  /\ taken' = C!Start(Len(answers) + 1)'
               /\ \A j \in 1..k + 1 :
                    /\ answers'[j].id = packet'.list[j].id
                    /\ answers'[j].at = 2 + C!Sum([ m \in 1..(j - 1) |-> answers'[m].len ])
    BY Zenon, <1>12 DEF C!InStep
  <2>2. /\ taken = C!Start(k + 1)
        /\ \A j \in 1..k :
             /\ answers[j].id = packet.list[j].id
             /\ answers[j].at = 2 + C!Sum([ m \in 1..(j - 1) |-> answers[m].len ])
    BY Zenon, <1>4, <1>5, <1>13, <2>1 DEF CommandInv, C!ListInStep, C!InStep
  <2>3. taken' = C!Start(Len(answers) + 1)'
    <3>1. C!Start((k + 1) + 1) = C!Start(k + 1) + c.bytes
      BY Zenon, <1>1, <1>6, <1>13, <2>1, Starts DEF N, c
    <3>2. C!Start(Len(answers) + 1)' = C!Start((k + 1) + 1)
      BY <1>9, <1>11 DEF C!Start
    <3> QED BY <1>9, <1>13, <2>1, <2>2, <3>1, <3>2
  <2>4. ASSUME NEW j \in 1..k
        PROVE  /\ answers'[j].id = packet'.list[j].id
               /\ answers'[j].at = 2 + C!Sum([ m \in 1..(j - 1) |-> answers'[m].len ])
    <3>1. \A m \in 1..(j - 1) : m \in 1..k
      OBVIOUS
    <3>2. [ m \in 1..(j - 1) |-> answers'[m].len ] = [ m \in 1..(j - 1) |-> answers[m].len ]
      BY <1>9, <3>1
    <3> QED BY Zenon, <1>9, <1>11, <2>2, <3>2
  <2>5. /\ answers'[k + 1].id = packet'.list[k + 1].id
        /\ answers'[k + 1].at = 2 + C!Sum([ m \in 1..((k + 1) - 1) |-> answers'[m].len ])
    <3>1. [ m \in 1..((k + 1) - 1) |-> answers'[m].len ] = [ m \in 1..k |-> answers[m].len ]
      BY <1>9
    <3>2. C!Given(num) = 2 + C!Sum([ m \in 1..k |-> answers[m].len ])
      BY <1>4, <1>13, <2>1 DEF CommandInv, GivenSoFar
    <3>3. C!Answer(c, n, opaque).at = C!Given(num)
      BY DEF C!Answer
    <3>4. answers'[k + 1].id = packet'.list[k + 1].id
      BY <1>9, <1>11, <1>13, <2>1 DEF c
    <3> QED BY <1>9, <3>1, <3>2, <3>3, <3>4
  <2>6. \A j \in 1..k + 1 : j \in 1..k \/ j = k + 1
    OBVIOUS
  <2> QED BY Zenon, <2>3, <2>4, <2>5, <2>6
<1>15. C!Clear' => C!Given(num') = GivenSoFar'
  <2>1. SUFFICES ASSUME C!Clear' PROVE C!Given(num') = GivenSoFar'
    OBVIOUS
  <2> DEFINE d == [ m \in 1..k + 1 |-> answers'[m].len ]
  <2>2. /\ \A m \in 1..k + 1 : d[m] \in Nat
        /\ [ m \in 1..k + 1 |-> d[m] ] = [ m \in 1..k + 1 |-> answers'[m].len ]
        /\ [ m \in 1..k |-> d[m] ] = [ m \in 1..k |-> answers[m].len ]
        /\ d[k + 1] = g
    <3>1. k + 1 \in 1..k + 1 /\ \A m \in 1..k : m \in 1..k + 1
      OBVIOUS
    <3> QED BY <1>9, <1>12, <3>1
  <2> HIDE DEF d
  <2>3. /\ C!Sum([ m \in 1..k |-> d[m] ]) \in Nat
        /\ C!Sum([ m \in 1..k + 1 |-> d[m] ]) = C!Sum([ m \in 1..k |-> d[m] ]) + d[k + 1]
    BY Zenon, <2>2, SumOfNext
  <2>4. C!Given(num) = 2 + C!Sum([ m \in 1..k |-> answers[m].len ])
    BY <1>4, <1>13, <2>1 DEF CommandInv, GivenSoFar
  <2>5. GivenSoFar' = 2 + C!Sum([ m \in 1..k + 1 |-> answers'[m].len ])
    BY <1>9 DEF GivenSoFar
  <2>6. PICK a \in Nat : a = C!Sum([ m \in 1..k |-> d[m] ])
    BY Zenon, <2>3
  <2>7. C!Given(num') = (2 + a) + g /\ GivenSoFar' = 2 + (a + g)
    BY Zenon, <1>9, <2>2, <2>3, <2>4, <2>5, <2>6
  <2>8. a \in Nat /\ g \in Nat
    BY <1>19 DEF Packet, C!DAP_PACKET_SIZE
  <2> QED BY ONLY <2>7, <2>8
<1>16. C!AnswersReadable'
  <2>1. SUFFICES ASSUME C!Clear', NEW j \in 1..k + 1
        PROVE  packet.list[j].id \in { "Info", "Vendor0" } \/ answers'[j].len \in C!Expected(packet.list[j])
    BY Zenon, <1>11, <1>12 DEF C!AnswersReadable, C!Expected
  <2>2. CASE j \in 1..k
    BY Zenon, <1>5, <1>9, <1>13, <2>1, <2>2 DEF CommandInv, C!ListInStep, C!AnswersReadable
  <2>3. CASE j = k + 1
    BY <1>9, <1>13, <2>1, <2>3 DEF c
  <2> QED BY <2>2, <2>3
<1>17. left' + Len(answers') <= (IF C!InList' THEN Len(packet'.list) ELSE 1)
  BY <1>6, <1>9, <1>11 DEF N
<1>18. packet' # C!None
  BY <1>1, <1>11, PacketFacts
<1> QED BY <1>1, <1>6, <1>9, <1>10, <1>11, <1>14, <1>15, <1>16, <1>17, <1>18 DEF CommandInv, C!ListInStep

(* What comes without a list, or is not taken for one, is one command.     *)
LEMMA ExecuteOne ==
    ASSUME CommandInv, C!CommandAssumption, ~C!InList, left > 0, left' = left - 1,
           UNCHANGED << route, packet >>, C!DAP_ExecuteCommand(C!First)
    PROVE  CommandInv'
<1> DEFINE c == C!First
<1>1. CommandTypes /\ answers \in Seq(Answered) /\ left \in Nat /\ packet \in Packets
      /\ packet # C!None
  <2>1. packet # C!None
    BY DEF CommandInv
  <2> QED BY <2>1 DEF CommandInv
<1>2. Len(answers) = 0 /\ left' = 0
  <2>1. Len(answers) \in Nat /\ left \in Nat /\ left + Len(answers) <= 1 /\ left > 0 /\ left' = left - 1
    BY <1>1 DEF CommandInv
  <2> QED BY ONLY <2>1
<1>4. /\ c.id \in Names \cup { "ExecuteCommands" } /\ CommandTypes'
      /\ \E n, t, g, opaque : /\ t \in Nat /\ g \in 0..Packet /\ n = C!Pack(t, g)
                              /\ opaque \in BOOLEAN /\ C!Executed(c, n, opaque)
  <2>1. CASE packet.atomic
    <3>1. c.id = "ExecuteCommands"
      BY <2>1 DEF C!First
    <3>5. C!DAP_ExecuteCommand(c)
      OBVIOUS
    <3> HIDE DEF c
    <3>6. PICK n \in C!DAP_ProcessCommand(c) : C!Executed(c, n, C!Opaque(c))
      <4>1. c.id # "Transfer"
        BY <3>1
      <4> QED BY Zenon, <3>5, <4>1 DEF C!DAP_ExecuteCommand
    <3>2. n = C!Pack(1, 1)
      BY <3>1 DEF C!DAP_ProcessCommand
    <3>7. C!Opaque(c) \in BOOLEAN
      BY DEF C!Opaque
    <3>3. 1 \in 0..Packet
      BY DEF Packet, C!DAP_PACKET_SIZE
    <3>4. CommandTypes'
      BY <1>1, <3>6, <3>1 DEF CommandTypes, C!Effect, C!Executed
    <3>8. 1 \in Nat
      OBVIOUS
    <3> QED BY Zenon, <3>1, <3>2, <3>3, <3>4, <3>6, <3>7, <3>8
  <2>2. CASE ~packet.atomic
    <3>1. c = packet.list[1]
      BY <2>2 DEF C!First
    <3>2. C!Written(c) /\ c.bytes \in 1..Packet /\ c.id \in Names
      <4>1. 1 \in 1..Len(packet.list)
        <5>1. Len(packet.list) \in 1..127
          BY <1>1, PacketFacts
        <5> QED BY ONLY Zenon, <5>1, OneIn
      <4> QED BY <1>1, <3>1, <4>1, PacketFacts
    <3>5. C!DAP_ExecuteCommand(c)
      OBVIOUS
    <3> HIDE DEF c
    <3>3. PICK n, t, g, opaque : C!Executed(c, n, opaque) /\ ExecutedAs(n, t, g, opaque, c)
      BY <1>1, <3>2, <3>5, CommandExecuted
    <3>4. CommandTypes'
      BY Zenon, <1>1, <3>3, <3>2, FixedNames DEF CommandTypes, C!Effect, C!Written, C!Executed
    <3> QED BY Zenon, <3>2, <3>3, <3>4 DEF ExecutedAs
  <2> QED BY <2>1, <2>2
<1>5. PICK n, t, g, opaque : /\ t \in Nat /\ g \in 0..Packet /\ n = C!Pack(t, g)
                            /\ opaque \in BOOLEAN /\ C!Executed(c, n, opaque)
  BY Zenon, <1>4
<1> HIDE DEF c
<1>3. /\ num' = num + n /\ taken' = taken + C!Taken(n)
      /\ answers' = Append(answers, C!Answer(c, n, opaque))
  BY Zenon, <1>5 DEF C!Executed
<1>6. ListCounted' /\ answers' \in Seq(Answered) /\ Len(answers') = 0 + 1
  BY <1>2, <1>3, <1>4, <1>5, Executes
<1>7. ~C!InList'
  BY DEF C!InList
<1>8. C!ListInStep'
  BY <1>7 DEF C!ListInStep, C!InStep, C!AnswersReadable
<1> QED BY <1>1, <1>2, <1>4, <1>6, <1>7, <1>8 DEF CommandInv

LEMMA CommandStep ==
    ASSUME CommandInv, C!CommandAssumption, C!Next
    PROVE  CommandInv'
<1>1. CASE C!Receive
  <2>1. PICK p \in Packets, r \in { "USBIP", "elaphureLink" } :
          /\ packet' = p /\ route' = r
          /\ IF p.atomic /\ r = "elaphureLink"
             THEN left' = Len(p.list) /\ taken' = 2 /\ num' = C!Pack(2, 2)
             ELSE left' = 1 /\ taken' = 0 /\ num' = 0
    BY <1>1 DEF C!Receive
  <2>2. CommandTypes' /\ answers' = << >> /\ answers' \in Seq(Answered) /\ Len(answers') = 0
    BY <1>1 DEF C!Receive, CommandInv, CommandTypes
  <2>3. Len(p.list) \in 1..127 /\ p # C!None
    BY PacketFacts
  <2>4. left' \in Nat /\ left' + 0 <= (IF C!InList' THEN Len(packet'.list) ELSE 1)
    BY <2>1, <2>3 DEF C!InList
  <2>5. ListCounted' /\ (C!InList' => C!Given(num') = 2 /\ taken' = 2)
    BY <2>1, <2>2 DEF ListCounted, C!InList, C!Pack, C!Given, C!Half, Packet, C!DAP_PACKET_SIZE
  <2>6. DOMAIN answers' = {} /\ \A d : [ j \in 1..0 |-> d[j] ] = << >>
    BY <2>2
  <2>7. C!InList' => GivenSoFar' = 2
    <3>1. [ j \in 1..Len(answers') |-> answers'[j].len ] = [ j \in 1..0 |-> answers'[j] ]
      BY <2>2
    <3> QED BY <3>1, SumOfNone DEF GivenSoFar
  <2>8. C!InList' => C!Start(1)' = 2
    <3>1. [ j \in 1..(1 - 1) |-> packet'.list[j].bytes ] = [ j \in 1..0 |-> packet'.list[j] ]
      OBVIOUS
    <3> QED BY <3>1, SumOfNone DEF C!Start, C!InList
  <2>9. C!ListInStep'
    <3>1. C!InList' => taken' = C!Start(Len(answers) + 1)'
      <4>1. Len(answers') + 1 = 1
        BY <2>2
      <4> QED BY <2>2, <2>5, <2>8, <4>1
    <3> QED BY <2>6, <3>1 DEF C!ListInStep, C!InStep, C!AnswersReadable
  <2> QED BY <2>1, <2>2, <2>3, <2>4, <2>5, <2>7, <2>9 DEF CommandInv
<1>2. CASE C!Reply
  <2>1. /\ packet' = C!None /\ route' = "USBIP" /\ left' = 0 /\ taken' = 0 /\ num' = 0
        /\ answers' = << >> /\ CommandTypes'
    BY <1>2 DEF C!Reply, C!Idle, CommandInv, CommandTypes
  <2>2. answers' \in Seq(Answered) /\ Len(answers') = 0
    BY <2>1
  <2>3. ~C!InList'
    BY <2>1 DEF C!InList, C!None
  <2>4. ListCounted'
    BY <2>1, <2>2 DEF ListCounted, C!Given, C!Pack, C!Half, Packet, C!DAP_PACKET_SIZE
  <2>5. C!ListInStep'
    BY <2>3 DEF C!ListInStep, C!InStep, C!AnswersReadable
  <2> QED BY <2>1, <2>2, <2>3, <2>4, <2>5 DEF CommandInv
<1>3. CASE C!Execute
  <2>1. left > 0 /\ left' = left - 1 /\ UNCHANGED << route, packet >>
    BY <1>3 DEF C!Execute
  <2>2. CASE C!InList
    BY <1>3, <2>1, <2>2, ExecuteListed DEF C!Execute
  <2>3. CASE ~C!InList
    BY <1>3, <2>1, <2>3, ExecuteOne DEF C!Execute
  <2> QED BY <2>2, <2>3
<1>4. CASE C!Misread
  <2>1. left' = 0 /\ UNCHANGED << listPort, count, route, packet, taken, num, answers >>
    BY <1>4 DEF C!Misread
  <2>2. left' + Len(answers') <= (IF C!InList THEN Len(packet.list) ELSE 1)
    <3>1. PICK m : m = (IF C!InList THEN Len(packet.list) ELSE 1)
      BY Zenon
    <3>2. m \in Nat
      BY <3>1, PacketFacts DEF CommandInv, C!None, C!InList
    <3>3. left \in Nat /\ Len(answers) \in Nat /\ left + Len(answers) <= m
      BY <3>1 DEF CommandInv
    <3>4. Len(answers) <= m
      BY ONLY <3>2, <3>3
    <3> QED BY <2>1, <3>1, <3>3, <3>4
  <2>3. packet # C!None
    BY <1>4 DEF C!Misread, CommandInv
  <2>4. C!ListInStep' /\ (C!InList' <=> C!InList) /\ (C!Clear' <=> C!Clear) /\ GivenSoFar' = GivenSoFar
    BY Zenon, <2>1 DEF CommandInv, C!ListInStep, C!InStep, C!AnswersReadable, C!InList, C!Clear, C!Start, GivenSoFar, C!Expected
  <2>5. ListCounted' /\ CommandTypes'
    BY <2>1 DEF CommandInv, ListCounted, CommandTypes
  <2> QED BY <2>1, <2>2, <2>3, <2>4, <2>5 DEF CommandInv
<1> QED BY <1>1, <1>2, <1>3, <1>4 DEF C!Next

LEMMA CommandsSafe == Spec => []CommandInv
<1>1. C!CommandAssumption
  BY PartsAssumption DEF PartsAssumption
<1>2. Init => CommandInv
  BY <1>1, CommandInit DEF Init
<1>3. CommandInv /\ [Next]_vars => CommandInv'
  <2>1. SUFFICES ASSUME CommandInv, [Next]_vars PROVE CommandInv'
    OBVIOUS
  <2>2. CASE UNCHANGED commands
    <3>1. UNCHANGED << listPort, count, route, packet, left, taken, num, answers >>
      BY <2>2 DEF commands
    <3>2. C!ListInStep' /\ (C!InList' <=> C!InList) /\ (C!Clear' <=> C!Clear) /\ GivenSoFar' = GivenSoFar
      BY Zenon, <2>1, <3>1 DEF CommandInv, C!ListInStep, C!InStep, C!AnswersReadable, C!InList, C!Clear, C!Start, GivenSoFar, C!Expected
    <3> QED BY <2>1, <3>1, <3>2 DEF CommandInv, ListCounted, CommandTypes
  <2>3. CASE C!Next
    BY <1>1, <2>1, <2>3, CommandStep
  <2> QED BY <2>1, <2>2, <2>3 DEF Next, vars
<1> QED BY <1>2, <1>3, PTL DEF Spec

(* Whatever commands a debugger puts into a list, as long as it writes each *)
(* as the protocol says, the program executes each of them once, in order  *)
(* and from its first byte on, and the debugger finds each answer where the *)
(* one before it ends and as long as it expects, up to the first list of   *)
(* transfers that fails before its end, the first for a JTAG device that   *)
(* is not there, and the first command of unknown length or of elaphureLink *)
(* itself.  For lists of any mix, with sequences and transfers of any      *)
(* length that fits a packet.                                              *)
THEOREM ListsInStep == Spec => []ListInStep
<1>1. CommandInv => ListInStep
  BY DEF CommandInv, ListInStep
<1> QED BY <1>1, CommandsSafe, PTL

----------------------------------------------------------------------------
(* JTAG scans.  Where a device has its bits is the sum of the lengths      *)
(* before it.                                                              *)

LEMMA BeforeAre ==
    ASSUME NEW N \in Nat, NEW d, NEW s, SumsOf(s, d, N), NEW k \in 1..N + 1
    PROVE  Jtag!Before(d, k) = s[k - 1]
<1> DEFINE F(at) == [n \in 1..k |-> IF n = 1 THEN 0 ELSE at[n - 1] + d[n - 1]]
           g == [n \in 1..k |-> s[n - 1]]
           c == CHOOSE at : at = F(at)
<1>1. g = F(g)
  <2>1. ASSUME NEW n \in 1..k PROVE g[n] = F(g)[n]
    <3>1. CASE n = 1
      BY <3>1 DEF SumsOf
    <3>2. CASE n # 1
      <4>1. n - 1 \in 1..k /\ n - 1 \in 1..N
        BY <3>2
      <4>2. s[n - 1] = s[(n - 1) - 1] + d[n - 1]
        BY <4>1 DEF SumsOf
      <4> QED BY <3>2, <4>1, <4>2
    <3> QED BY <3>1, <3>2
  <2> QED BY Zenon, <2>1
<1>2. c = F(c)
  <2>1. \E at : at = F(at)
    BY Zenon, <1>1
  <2> HIDE DEF F
  <2> QED BY <2>1
<1>3. Jtag!Before(d, k) = c[k]
  BY DEF Jtag!Before
<1>4. c = [n \in 1..k |-> IF n = 1 THEN 0 ELSE c[n - 1] + d[n - 1]]
  BY <1>2
<1> HIDE DEF c
<1>5. c[k] = s[k - 1]
  BY <1>4, SumsAre
<1> QED BY <1>3, <1>5

LEMMA BeforeIs ==
    ASSUME NEW N \in Nat, NEW d, \A i \in 1..N : d[i] \in Nat
    PROVE  \E s : SumsOf(s, d, N) /\ \A k \in 1..N + 1 : Jtag!Before(d, k) = s[k - 1]
BY SumsExist, BeforeAre

(* The bits of all devices, one after the other.                           *)
Joining(parts, S, s, N) ==
    /\ N \in Nat \ {0} /\ parts \in Seq(Seq(S)) /\ Len(parts) = N
    /\ SumsOf(s, [i \in 1..N |-> Len(parts[i])], N)

LEMMA JoinedIs ==
    ASSUME NEW parts, NEW S, NEW s, NEW N, Joining(parts, S, s, N)
    PROVE  /\ Jtag!FlattenSeq(parts) \in Seq(S) /\ Len(Jtag!FlattenSeq(parts)) = s[N]
           /\ \A d \in 1..N : \A j \in 1..Len(parts[d]) : Jtag!FlattenSeq(parts)[s[d - 1] + j] = parts[d][j]
<1> DEFINE F(f, n) == [i \in 1..n |-> IF i = 1 THEN parts[i] ELSE f[i - 1] \o parts[i]]
           Good(q, n) == /\ q \in Seq(S) /\ Len(q) = s[n]
                         /\ \A d \in 1..n : \A j \in 1..Len(parts[d]) : q[s[d - 1] + j] = parts[d][j]
           P == { n \in 1..N : \E f : f = F(f, n) }
           c == CHOOSE f : f = F(f, N)
<1>0. /\ N \in Nat \ {0} /\ parts \in Seq(Seq(S)) /\ Len(parts) = N
      /\ SumsOf(s, [i \in 1..N |-> Len(parts[i])], N)
  BY DEF Joining
<1> USE <1>0
<1>1. ASSUME NEW i \in 1..N
      PROVE  /\ parts[i] \in Seq(S) /\ Len(parts[i]) \in Nat /\ s[i - 1] \in Nat /\ s[i] \in Nat
             /\ s[i] = s[i - 1] + Len(parts[i])
  <2>1. parts[i] \in Seq(S)
    BY ElementOfSeq
  <2>2. i \in 1..N /\ i - 1 \in 0..N /\ i \in 0..N
    OBVIOUS
  <2> QED BY <2>1, <2>2 DEF SumsOf
<1>2. \E f : f = F(f, N)
  <2> DEFINE D == { n \in 0..N - 1 : n + 1 \in P }
  <2>1. 0 \in D
    <3>1. [i \in 1..1 |-> parts[i]] = F([i \in 1..1 |-> parts[i]], 1)
      OBVIOUS
    <3>2. 0 \in 0..N - 1 /\ 0 + 1 = 1 /\ 1 \in 1..N
      OBVIOUS
    <3>3. \E f : f = F(f, 1)
      BY Zenon, <3>1
    <3> HIDE DEF F
    <3> QED BY <3>2, <3>3
  <2>2. ASSUME NEW n \in 0..(N - 1) - 1, n \in D PROVE n + 1 \in D
    <3>1. PICK f : f = F(f, n + 1)
      BY Zenon, <2>2
    <3> DEFINE g == [i \in 1..n + 2 |-> IF i = n + 2 THEN f[n + 1] \o parts[n + 2] ELSE f[i]]
    <3>2. n \in Nat /\ n + 2 \in 1..N /\ n + 1 \in 0..N - 1 /\ (n + 1) + 1 = n + 2
      OBVIOUS
    <3>3. ASSUME NEW i \in 1..n + 2 PROVE g[i] = IF i = 1 THEN parts[i] ELSE g[i - 1] \o parts[i]
      <4>1. CASE i = n + 2
        <5>1. i # 1 /\ i - 1 = n + 1 /\ n + 1 \in 1..n + 2 /\ n + 1 # n + 2
          BY <3>2, <4>1
        <5> QED BY Zenon, <4>1, <5>1
      <4>2. CASE i # n + 2
        <5>1. i \in 1..n + 1 /\ (i # 1 => i - 1 \in 1..n + 1 /\ i - 1 # n + 2 /\ i - 1 \in 1..n + 2)
          BY <3>2, <4>2
        <5>2. f[i] = IF i = 1 THEN parts[i] ELSE f[i - 1] \o parts[i]
          BY Zenon, <3>1, <5>1
        <5> QED BY <4>2, <5>1, <5>2
      <4> QED BY <4>1, <4>2
    <3>4. g = F(g, n + 2)
      <4> HIDE DEF g
      <4>1. g = [i \in 1..n + 2 |-> g[i]]
        BY DEF g
      <4> QED BY Zenon, <3>3, <4>1
    <3>5. \E f2 : f2 = F(f2, n + 2)
      BY Zenon, <3>4
    <3> HIDE DEF F, g
    <3> QED BY <3>2, <3>5
  <2>3. 0..N - 1 \subseteq D
    <3>1. N - 1 \in Nat
      OBVIOUS
    <3> HIDE DEF D
    <3> QED BY Zenon, <2>1, <2>2, <3>1, UpTo
  <2>4. N - 1 \in D /\ (N - 1) + 1 = N
    <3>1. N - 1 \in 0..N - 1 /\ (N - 1) + 1 = N
      OBVIOUS
    <3> HIDE DEF D
    <3> QED BY <2>3, <3>1
  <2> HIDE DEF F
  <2> QED BY <2>4
<1>3. c = F(c, N)
  <2> HIDE DEF F
  <2> QED BY <1>2
<1>4. Jtag!FlattenSeq(parts) = c[N]
  BY DEF Jtag!FlattenSeq
<1>5. \A i \in 1..N : c[i] = IF i = 1 THEN parts[i] ELSE c[i - 1] \o parts[i]
  <2> HIDE DEF c
  <2> QED BY Zenon, <1>3
<1> HIDE DEF c
<1>6. Good(c[N], N)
  <2> DEFINE D == { n \in 0..N - 1 : Good(c[n + 1], n + 1) }
  <2>1. 0 \in D
    <3>0. 1 \in 1..N
      OBVIOUS
    <3>1. c[1] = parts[1] /\ 1 \in 1..N
      BY <3>0, <1>5
    <3>2. s[0] = 0 /\ s[1] = s[1 - 1] + Len(parts[1]) /\ Len(parts[1]) \in Nat /\ parts[1] \in Seq(S)
      BY <1>1, <3>1 DEF SumsOf
    <3>3. \A d \in 1..1 : \A j \in 1..Len(parts[d]) : c[1][s[d - 1] + j] = parts[d][j]
      BY <3>1, <3>2
    <3> QED BY <3>1, <3>2, <3>3
  <2>2. ASSUME NEW n \in 0..(N - 1) - 1, n \in D PROVE n + 1 \in D
    <3> DEFINE q == c[n + 1]
               p == parts[n + 2]
    <3>1. n \in Nat /\ n + 2 \in 1..N /\ n + 2 # 1 /\ (n + 2) - 1 = n + 1 /\ (n + 1) + 1 = n + 2 /\ n + 1 \in 0..N - 1
          /\ n + 1 \in 1..N
      OBVIOUS
    <3>2. c[n + 2] = q \o p
      BY Zenon, <1>5, <3>1
    <3>3. q \in Seq(S) /\ Len(q) = s[n + 1]
          /\ \A d \in 1..n + 1 : \A j \in 1..Len(parts[d]) : q[s[d - 1] + j] = parts[d][j]
      BY <2>2
    <3>4. p \in Seq(S) /\ Len(p) \in Nat /\ s[n + 2] = s[n + 1] + Len(p) /\ s[n + 1] \in Nat
      BY <1>1, <3>1
    <3> HIDE DEF q, p
    <3>5. /\ q \o p \in Seq(S) /\ Len(q \o p) = Len(q) + Len(p)
          /\ \A i \in 1..Len(q) + Len(p) : (q \o p)[i] = IF i <= Len(q) THEN q[i] ELSE p[i - Len(q)]
      BY Zenon, <3>3, <3>4, ConcatProperties
    <3>6. ASSUME NEW d \in 1..n + 2, NEW j \in 1..Len(parts[d]) PROVE (q \o p)[s[d - 1] + j] = parts[d][j]
      <4>1. CASE d = n + 2
        <5>1. s[d - 1] = Len(q) /\ parts[d] = p
          BY Zenon, <3>1, <3>3, <4>1 DEF p
        <5>2. j \in 1..Len(p)
          BY <5>1
        <5>3. Len(q) + j \in 1..Len(q) + Len(p) /\ ~(Len(q) + j <= Len(q)) /\ (Len(q) + j) - Len(q) = j
          <6>1. Len(q) \in Nat /\ Len(p) \in Nat /\ j \in 1..Len(p)
            BY <3>3, <3>4, <5>2
          <6> QED BY ONLY <6>1
        <5> QED BY <3>5, <5>1, <5>3
      <4>2. CASE d # n + 2
        <5>1. d \in 1..n + 1 /\ d \in 1..N /\ d \in 0..N /\ n + 1 \in 0..N /\ d <= n + 1
          BY <3>1, <4>2
        <5>2. s[d] <= s[n + 1]
          <6>1. \A i \in 1..N : [k \in 1..N |-> Len(parts[k])][i] \in Nat
            BY <1>1
          <6>2. N \in Nat
            OBVIOUS
          <6> QED BY Zenon, <5>1, <6>1, <6>2, SumsRise
        <5>3. s[d] = s[d - 1] + Len(parts[d]) /\ s[d - 1] \in Nat /\ Len(parts[d]) \in Nat
          BY <1>1, <5>1
        <5>4. j \in Nat /\ j > 0 /\ j <= Len(parts[d])
          BY <5>3
        <5>5. s[d - 1] + j \in 1..Len(q) + Len(p) /\ s[d - 1] + j <= Len(q)
          <6>1. s[n + 1] = Len(q) /\ s[n + 1] \in Nat /\ Len(p) \in Nat
            BY <3>3, <3>4
          <6> QED BY ONLY <6>1, <5>2, <5>3, <5>4
        <5>6. q[s[d - 1] + j] = parts[d][j]
          BY <3>3, <5>1
        <5> QED BY <3>5, <5>5, <5>6
      <4> QED BY Zenon, <4>1, <4>2
    <3>7. Good(c[n + 2], n + 2)
      BY Zenon, <3>2, <3>3, <3>4, <3>5, <3>6
    <3> HIDE DEF Good
    <3> QED BY <3>1, <3>7
  <2>3. 0..N - 1 \subseteq D
    <3>1. N - 1 \in Nat
      OBVIOUS
    <3> HIDE DEF D
    <3> QED BY Zenon, <2>1, <2>2, <3>1, UpTo
  <2>4. N - 1 \in D /\ (N - 1) + 1 = N
    <3>1. N - 1 \in 0..N - 1 /\ (N - 1) + 1 = N
      OBVIOUS
    <3> HIDE DEF D
    <3> QED BY <2>3, <3>1
  <2> HIDE DEF Good
  <2> QED BY <2>4
<1> QED BY <1>4, <1>6

(* Clocks one after the other.                                             *)
RunOf(r, c, clocks, captured) ==
    r[0] = c /\ \A i \in 1..Len(clocks) : r[i] = Jtag!Clock(r[i - 1], clocks[i], captured)

LEMMA RunIs ==
    ASSUME NEW c, NEW clocks, NEW captured, Len(clocks) \in Nat
    PROVE  \E r : RunOf(r, c, clocks, captured) /\ Jtag!Run(c, clocks, captured) = r[Len(clocks)]
<1> DEFINE N == Len(clocks)
           F(f, n) == [i \in 0..n |-> IF i = 0 THEN c ELSE Jtag!Clock(f[i - 1], clocks[i], captured)]
           P == { n \in 0..N : \E f : f = F(f, n) }
           run == CHOOSE f : f = F(f, N)
<1>0. N \in Nat
  OBVIOUS
<1>1. Jtag!Run(c, clocks, captured) = run[N]
  BY DEF Jtag!Run
<1> HIDE DEF N
<1>2. 0 \in P
  <2>1. [i \in 0..0 |-> c] = F([i \in 0..0 |-> c], 0)
    OBVIOUS
  <2>2. \E f : f = F(f, 0)
    BY Zenon, <2>1
  <2> HIDE DEF F
  <2> QED BY <1>0, <2>2
<1>3. ASSUME NEW n \in 0..N - 1, n \in P PROVE n + 1 \in P
  <2>1. PICK f : f = F(f, n)
    BY <1>3
  <2> DEFINE g == [i \in 0..n + 1 |-> IF i = n + 1 THEN Jtag!Clock(f[n], clocks[n + 1], captured) ELSE f[i]]
  <2>2. n \in Nat /\ n + 1 \in 0..N
    BY <1>0
  <2>3. ASSUME NEW i \in 0..n + 1
        PROVE  g[i] = IF i = 0 THEN c ELSE Jtag!Clock(g[i - 1], clocks[i], captured)
    <3>1. CASE i = n + 1
      <4>1. i # 0 /\ i - 1 = n /\ n \in 0..n + 1 /\ n # n + 1
        BY <2>2, <3>1
      <4> QED BY <3>1, <4>1
    <3>2. CASE i # n + 1
      <4>1. i \in 0..n /\ (i # 0 => i - 1 \in 0..n + 1 /\ i - 1 # n + 1)
        BY <2>2, <3>2
      <4>2. f[i] = IF i = 0 THEN c ELSE Jtag!Clock(f[i - 1], clocks[i], captured)
        BY <2>1, <4>1
      <4> QED BY <3>2, <4>1, <4>2
    <3> QED BY <3>1, <3>2
  <2>4. g = F(g, n + 1)
    <3>1. g = [i \in 0..n + 1 |-> g[i]]
      OBVIOUS
    <3> HIDE DEF g
    <3> QED BY <2>3, <3>1
  <2>5. \E f2 : f2 = F(f2, n + 1)
    BY Zenon, <2>4
  <2> HIDE DEF F, g
  <2> QED BY <2>2, <2>5
<1>4. 0..N \subseteq P
  <2> HIDE DEF P
  <2> QED BY <1>0, <1>2, <1>3, UpTo
<1>5. N \in P
  <2>1. N \in 0..N
    BY <1>0
  <2> HIDE DEF P
  <2> QED BY <1>4, <2>1
<1>6. run = F(run, N)
  <2> HIDE DEF F
  <2> QED BY <1>5
<1> HIDE DEF run
<1>7. ASSUME NEW i \in 0..N PROVE run[i] = IF i = 0 THEN c ELSE Jtag!Clock(run[i - 1], clocks[i], captured)
  BY Zenon, <1>6
<1>8. run[0] = c /\ \A i \in 1..N : run[i] = Jtag!Clock(run[i - 1], clocks[i], captured)
  BY <1>0, <1>7
<1> QED BY <1>1, <1>8 DEF RunOf, N

(* What a clock does in each of the states that a scan passes.             *)
Same(c, d) == d.sr = c.sr /\ d.out = c.out /\ d.irs = c.irs /\ d.update = c.update

LEMMA Walks ==
    ASSUME NEW c, NEW captured, NEW b
    PROVE  LET at(m) == Jtag!Clock(c, << m, b >>, captured) IN
           /\ c.tap = "Idle" => at(1).tap = "SelectDR" /\ Same(c, at(1))
           /\ c.tap = "SelectDR" => /\ at(1).tap = "SelectIR" /\ Same(c, at(1))
                                    /\ at(0).tap = "CaptureDR" /\ Same(c, at(0))
           /\ c.tap = "SelectIR" => at(0).tap = "CaptureIR" /\ Same(c, at(0))
           /\ c.tap \in { "Exit1DR", "Exit1IR" } =>
                 /\ at(1).tap = (IF c.tap = "Exit1DR" THEN "UpdateDR" ELSE "UpdateIR")
                 /\ at(1).sr = c.sr /\ at(1).out = c.out
           /\ c.tap \in { "UpdateDR", "UpdateIR" } => at(0).tap = "Idle" /\ Same(c, at(0))
<1> DEFINE at(m) == Jtag!Clock(c, << m, b >>, captured)
           next(m) == Jtag!TapNext[c.tap][m + 1]
<1>1. ASSUME NEW m \in { 0, 1 }, c.tap \notin { "ShiftDR", "ShiftIR", "CaptureDR", "CaptureIR" }
      PROVE  /\ at(m).tap = next(m) /\ at(m).sr = c.sr /\ at(m).out = c.out
             /\ next(m) \notin { "UpdateIR", "Reset" } => at(m).irs = c.irs
             /\ next(m) # "UpdateDR" => at(m).update = c.update
  <2>1. << m, b >>[1] = m
    OBVIOUS
  <2> QED BY <1>1, <2>1 DEF Jtag!Clock
<1>2. /\ c.tap = "Idle" => next(1) = "SelectDR"
      /\ c.tap = "SelectDR" => next(1) = "SelectIR" /\ next(0) = "CaptureDR"
      /\ c.tap = "SelectIR" => next(0) = "CaptureIR"
      /\ c.tap = "Exit1DR" => next(1) = "UpdateDR"
      /\ c.tap = "Exit1IR" => next(1) = "UpdateIR"
      /\ c.tap \in { "UpdateDR", "UpdateIR" } => next(0) = "Idle"
  BY DEF Jtag!TapNext
<1> HIDE DEF next
<1>3. c.tap \in { "Idle", "SelectDR" } => at(1).tap = next(1) /\ Same(c, at(1))
  <2> HIDE DEF at
  <2> QED BY <1>1, <1>2 DEF Same
<1>4. c.tap \in { "SelectDR", "SelectIR", "UpdateDR", "UpdateIR" } => at(0).tap = next(0) /\ Same(c, at(0))
  <2> HIDE DEF at
  <2> QED BY <1>1, <1>2 DEF Same
<1>5. c.tap \in { "Exit1DR", "Exit1IR" } => at(1).tap = next(1) /\ at(1).sr = c.sr /\ at(1).out = c.out
  <2> HIDE DEF at
  <2> QED BY <1>1, <1>2
<1> QED BY <1>2, <1>3, <1>4, <1>5

LEMMA LoadsIr ==
    ASSUME NEW c, NEW captured, NEW b, NEW to, to = Jtag!Clock(c, << 0, b >>, captured), c.tap = "CaptureIR"
    PROVE  /\ to.tap = "ShiftIR" /\ to.out = c.out /\ to.irs = c.irs /\ to.update = c.update
           /\ to.sr = Jtag!FlattenSeq([d \in Jtag!Devices |-> Jtag!Rep(chain[d], 0)])
<1> DEFINE zeros == Jtag!FlattenSeq([d \in Jtag!Devices |-> Jtag!Rep(chain[d], 0)])
<1>1. to.tap = "ShiftIR" /\ to.out = c.out /\ to.irs = c.irs /\ to.update = c.update
  BY DEF Jtag!Clock, Jtag!TapNext
<1>2. to.sr = zeros
  <2>1. to.sr = CASE c.tap = "CaptureDR" -> Jtag!FlattenSeq([d \in Jtag!Devices |-> captured[d]])
                  [] c.tap = "CaptureIR" -> zeros
                  [] c.tap \in {"ShiftDR", "ShiftIR"} -> Append(Tail(c.sr), b)
                  [] OTHER -> c.sr
    BY DEF Jtag!Clock
  <2> HIDE DEF zeros
  <2> QED BY <2>1
<1> QED BY <1>1, <1>2

LEMMA LoadsDr ==
    ASSUME NEW c, NEW captured, NEW b, NEW to, to = Jtag!Clock(c, << 0, b >>, captured), c.tap = "CaptureDR"
    PROVE  /\ to.tap = "ShiftDR" /\ to.out = c.out /\ to.irs = c.irs /\ to.update = c.update
           /\ to.sr = Jtag!FlattenSeq([d \in Jtag!Devices |-> captured[d]])
<1> DEFINE held == Jtag!FlattenSeq([d \in Jtag!Devices |-> captured[d]])
<1>1. to.tap = "ShiftDR" /\ to.out = c.out /\ to.irs = c.irs /\ to.update = c.update
  BY DEF Jtag!Clock, Jtag!TapNext
<1>2. to.sr = held
  <2>1. to.sr = CASE c.tap = "CaptureDR" -> held
                  [] c.tap = "CaptureIR" -> Jtag!FlattenSeq([d \in Jtag!Devices |-> Jtag!Rep(chain[d], 0)])
                  [] c.tap \in {"ShiftDR", "ShiftIR"} -> Append(Tail(c.sr), b)
                  [] OTHER -> c.sr
    BY DEF Jtag!Clock
  <2> HIDE DEF held
  <2> QED BY <2>1
<1> QED BY <1>1, <1>2

LEMMA UpdatesIr ==
    ASSUME NEW c, NEW captured, NEW b, NEW to, to = Jtag!Clock(c, << 1, b >>, captured), c.tap = "Exit1IR"
    PROVE  to.irs = [d \in Jtag!Devices |-> Jtag!Section(c.sr, chain, d)] /\ to.update = c.update
<1>1. Jtag!TapNext[c.tap][2] = "UpdateIR"
  BY DEF Jtag!TapNext
<1> QED BY <1>1 DEF Jtag!Clock

LEMMA UpdatesDr ==
    ASSUME NEW c, NEW captured, NEW b, NEW to, to = Jtag!Clock(c, << 1, b >>, captured), c.tap = "Exit1DR"
    PROVE  /\ to.irs = c.irs
           /\ to.update = [d \in Jtag!Devices |->
                              Jtag!Section(c.sr, [i \in Jtag!Devices |-> Jtag!DrLength(c.irs[i])], d)]
<1>1. Jtag!TapNext[c.tap][2] = "UpdateDR"
  BY DEF Jtag!TapNext
<1> QED BY <1>1 DEF Jtag!Clock

Bit == { 0, 1 }
Shift == { "ShiftDR", "ShiftIR" }
ExitOf(tapState) == IF tapState = "ShiftDR" THEN "Exit1DR" ELSE "Exit1IR"

LEMMA ShiftsOnce ==
    ASSUME NEW c, NEW captured, NEW b, NEW m \in Bit, c.tap \in Shift
    PROVE  LET to == Jtag!Clock(c, << m, b >>, captured) IN
           /\ to.tap = IF m = 1 THEN ExitOf(c.tap) ELSE c.tap
           /\ to.sr = Append(Tail(c.sr), b) /\ to.out = Append(c.out, Head(c.sr))
           /\ to.irs = c.irs /\ to.update = c.update
BY DEF Jtag!Clock, Jtag!TapNext, Shift, ExitOf, Bit

(* m bits are shifted in: the register is the last of what was in it and   *)
(* of them, and what has come out is the first.                            *)
Shifted(from, b, L, n, to) ==
    /\ to.irs = from.irs /\ to.update = from.update
    /\ to.sr \in Seq(Bit) /\ Len(to.sr) = L
    /\ \A k \in 1..L : to.sr[k] = IF n + k <= L THEN from.sr[n + k] ELSE b[n + k - L]
    /\ from.out = << >> =>
          /\ to.out \in Seq(Bit) /\ Len(to.out) = n
          /\ \A k \in 1..n : to.out[k] = IF k <= L THEN from.sr[k] ELSE b[k - L]

LEMMA ShiftOne ==
    ASSUME NEW from, NEW b, NEW L \in Nat \ {0}, NEW n \in Nat, NEW c, Shifted(from, b, L, n, c),
           NEW to, to.irs = c.irs, to.update = c.update, b[n + 1] \in Bit,
           to.sr = Append(Tail(c.sr), b[n + 1]), to.out = Append(c.out, Head(c.sr))
    PROVE  Shifted(from, b, L, n + 1, to)
<1>1. c.sr \in Seq(Bit) /\ Len(c.sr) = L /\ c.sr # << >>
  BY DEF Shifted
<1>2. /\ Tail(c.sr) \in Seq(Bit) /\ Len(Tail(c.sr)) = L - 1 /\ Head(c.sr) \in Bit /\ Head(c.sr) = c.sr[1]
      /\ \A i \in 1..L - 1 : Tail(c.sr)[i] = c.sr[i + 1]
  <2>1. /\ Tail(c.sr) \in Seq(Bit) /\ Len(Tail(c.sr)) = Len(c.sr) - 1 /\ Head(c.sr) \in Bit
        /\ \A i \in 1..Len(Tail(c.sr)) : Tail(c.sr)[i] = c.sr[i + 1]
    BY <1>1, HeadTailProperties
  <2>2. Head(c.sr) = c.sr[1]
    BY <1>1
  <2> QED BY <1>1, <2>1, <2>2
<1>3. to.sr \in Seq(Bit) /\ Len(to.sr) = L /\ to.sr[L] = b[n + 1] /\ \A i \in 1..L - 1 : to.sr[i] = c.sr[i + 1]
  <2>1. /\ to.sr \in Seq(Bit) /\ Len(to.sr) = Len(Tail(c.sr)) + 1 /\ to.sr[Len(Tail(c.sr)) + 1] = b[n + 1]
        /\ \A i \in 1..Len(Tail(c.sr)) : to.sr[i] = Tail(c.sr)[i]
    BY <1>2, AppendProperties
  <2> QED BY <1>2, <2>1
<1>4. ASSUME NEW k \in 1..L
      PROVE  to.sr[k] = IF n + 1 + k <= L THEN from.sr[n + 1 + k] ELSE b[n + 1 + k - L]
  <2>1. CASE k = L
    <3>1. ~(n + 1 + k <= L) /\ n + 1 + k - L = n + 1
      BY <2>1
    <3> QED BY <1>3, <2>1, <3>1
  <2>2. CASE k # L
    <3>1. k \in 1..L - 1 /\ k + 1 \in 1..L /\ n + (k + 1) = n + 1 + k
      <4>1. k \in 1..L /\ k # L /\ L \in Nat /\ n \in Nat
        BY <2>2
      <4> QED BY ONLY <4>1
    <3>2. c.sr[k + 1] = IF n + (k + 1) <= L THEN from.sr[n + (k + 1)] ELSE b[n + (k + 1) - L]
      BY <3>1 DEF Shifted
    <3> QED BY <1>3, <3>1, <3>2
  <2> QED BY Zenon, <2>1, <2>2
<1>5. ASSUME from.out = << >>
      PROVE  /\ to.out \in Seq(Bit) /\ Len(to.out) = n + 1
             /\ \A k \in 1..n + 1 : to.out[k] = IF k <= L THEN from.sr[k] ELSE b[k - L]
  <2>1. c.out \in Seq(Bit) /\ Len(c.out) = n /\ \A k \in 1..n : c.out[k] = IF k <= L THEN from.sr[k] ELSE b[k - L]
    BY <1>5 DEF Shifted
  <2>2. to.out \in Seq(Bit) /\ Len(to.out) = n + 1 /\ to.out[n + 1] = c.sr[1] /\ \A k \in 1..n : to.out[k] = c.out[k]
    BY <1>2, <2>1, AppendProperties
  <2>3. c.sr[1] = IF n + 1 <= L THEN from.sr[n + 1] ELSE b[n + 1 - L]
    BY DEF Shifted
  <2>4. ASSUME NEW k \in 1..n + 1 PROVE to.out[k] = IF k <= L THEN from.sr[k] ELSE b[k - L]
    <3>1. k = n + 1 \/ k \in 1..n
      OBVIOUS
    <3> QED BY <2>1, <2>2, <2>3, <3>1
  <2> QED BY <2>2, <2>4
<1> QED BY Zenon, <1>3, <1>4, <1>5 DEF Shifted

(* m clocks of a run, in each of which a bit is shifted.                   *)
Shifting(r, h, m, clocks, captured, b, L, end) ==
    /\ h \in Nat /\ m \in Nat /\ L \in Nat \ {0} /\ end \in Bit
    /\ r[h].tap \in Shift /\ r[h].sr \in Seq(Bit) /\ Len(r[h].sr) = L
    /\ \A j \in 1..m : b[j] \in Bit /\ clocks[h + j] = << IF j = m THEN end ELSE 0, b[j] >>
    /\ \A j \in 1..m : r[h + j] = Jtag!Clock(r[h + j - 1], clocks[h + j], captured)

LEMMA Shifts ==
    ASSUME NEW r, NEW h, NEW m, NEW clocks, NEW captured, NEW b, NEW L, NEW end,
           Shifting(r, h, m, clocks, captured, b, L, end)
    PROVE  /\ Shifted(r[h], b, L, m, r[h + m])
           /\ r[h + m].tap = IF m > 0 /\ end = 1 THEN ExitOf(r[h].tap) ELSE r[h].tap
<1> DEFINE At(n) == r[h + n].tap = IF n > 0 /\ n = m /\ end = 1 THEN ExitOf(r[h].tap) ELSE r[h].tap
           P == { n \in 0..m : Shifted(r[h], b, L, n, r[h + n]) /\ At(n) }
<1>0. h \in Nat /\ m \in Nat /\ L \in Nat \ {0} /\ end \in Bit
  BY DEF Shifting
<1>0a. /\ r[h].tap \in Shift /\ r[h].sr \in Seq(Bit) /\ Len(r[h].sr) = L
       /\ \A j \in 1..m : b[j] \in Bit /\ clocks[h + j] = << IF j = m THEN end ELSE 0, b[j] >>
       /\ \A j \in 1..m : r[h + j] = Jtag!Clock(r[h + j - 1], clocks[h + j], captured)
  BY Zenon DEF Shifting
<1> USE <1>0, <1>0a
<1>1. 0 \in P
  <2>1. h + 0 = h /\ 0 \in 0..m
    OBVIOUS
  <2>2. Shifted(r[h], b, L, 0, r[h])
    <3>1. \A k \in 1..L : 0 + k <= L /\ 0 + k = k
      OBVIOUS
    <3>2. r[h].out = << >> => r[h].out \in Seq(Bit) /\ Len(r[h].out) = 0 /\ 1..0 = {}
      OBVIOUS
    <3> QED BY <3>1, <3>2 DEF Shifted
  <2> QED BY <2>1, <2>2
<1>2. ASSUME NEW n \in 0..m - 1, n \in P PROVE n + 1 \in P
  <2>1. n \in Nat /\ n + 1 \in 1..m /\ h + (n + 1) - 1 = h + n /\ n + 1 \in 0..m /\ n # m /\ n + 1 > 0
    OBVIOUS
  <2>2. Shifted(r[h], b, L, n, r[h + n]) /\ r[h + n].tap = r[h].tap
    BY <1>2, <2>1
  <2> DEFINE t == IF n + 1 = m THEN end ELSE 0
  <2>3. /\ b[n + 1] \in Bit /\ r[h + (n + 1)] = Jtag!Clock(r[h + n], << t, b[n + 1] >>, captured)
        /\ t \in Bit
    BY Zenon, <2>1 DEF Bit
  <2> HIDE DEF t
  <2>4. LET to == r[h + (n + 1)] IN
        /\ to.tap = IF t = 1 THEN ExitOf(r[h].tap) ELSE r[h].tap
        /\ to.sr = Append(Tail(r[h + n].sr), b[n + 1]) /\ to.out = Append(r[h + n].out, Head(r[h + n].sr))
        /\ to.irs = r[h + n].irs /\ to.update = r[h + n].update
    <3>1. r[h + n].tap \in Shift
      BY <2>2
    <3> DEFINE c == r[h + n]
    <3>2. c.tap \in Shift /\ r[h + (n + 1)] = Jtag!Clock(c, << t, b[n + 1] >>, captured) /\ c.tap = r[h].tap
      BY <2>2, <2>3, <3>1
    <3> HIDE DEF c
    <3>3. LET to == r[h + (n + 1)] IN
          /\ to.tap = IF t = 1 THEN ExitOf(c.tap) ELSE c.tap
          /\ to.sr = Append(Tail(c.sr), b[n + 1]) /\ to.out = Append(c.out, Head(c.sr))
          /\ to.irs = c.irs /\ to.update = c.update
      <4>1. t \in Bit /\ c.tap \in Shift
        BY <2>3, <3>2
      <4>2. LET to == Jtag!Clock(c, << t, b[n + 1] >>, captured) IN
            /\ to.tap = IF t = 1 THEN ExitOf(c.tap) ELSE c.tap
            /\ to.sr = Append(Tail(c.sr), b[n + 1]) /\ to.out = Append(c.out, Head(c.sr))
            /\ to.irs = c.irs /\ to.update = c.update
        BY ONLY <4>1, ShiftsOnce
      <4> QED BY Zenon, <3>2, <4>2
    <3> QED BY Zenon, <3>2, <3>3 DEF c
  <2>5. Shifted(r[h], b, L, n + 1, r[h + (n + 1)])
    BY Zenon, <2>1, <2>2, <2>3, <2>4, ShiftOne
  <2>6. At(n + 1)
    BY <2>1, <2>4 DEF t
  <2> QED BY <2>1, <2>5, <2>6
<1>3. 0..m \subseteq P
  <2> HIDE DEF P
  <2> QED BY Zenon, <1>1, <1>2, UpTo
<1>4. m \in P
  <2>1. m \in 0..m
    OBVIOUS
  <2> HIDE DEF P
  <2> QED BY <1>3, <2>1
<1> QED BY <1>4

(* Pairs of levels, TMS and TDI.                                           *)
Pair == Bit \X Bit

LEMMA RepIs ==
    ASSUME NEW S, NEW x \in S, NEW n \in Nat
    PROVE  /\ Jtag!Rep(n, x) \in Seq(S) /\ Len(Jtag!Rep(n, x)) = n
           /\ \A i \in 1..n : Jtag!Rep(n, x)[i] = x
BY DEF Jtag!Rep

LEMMA TdiIs ==
    ASSUME NEW bits \in Seq(Bit)
    PROVE  /\ Jtag!Tdi(bits) \in Seq(Pair) /\ Len(Jtag!Tdi(bits)) = Len(bits)
           /\ \A i \in 1..Len(bits) : bits[i] \in Bit /\ Jtag!Tdi(bits)[i] = << 0, bits[i] >>
<1>1. Len(bits) \in Nat
  OBVIOUS
<1>2. ASSUME NEW i \in 1..Len(bits) PROVE bits[i] \in Bit /\ << 0, bits[i] >> \in Pair
  <2>1. bits[i] \in Bit
    BY ElementOfSeq
  <2> QED BY <2>1 DEF Pair, Bit
<1> QED BY <1>1, <1>2 DEF Jtag!Tdi

(* One sequence and another behind it.                                     *)
LEMMA JoinIs ==
    ASSUME NEW S, NEW a \in Seq(S), NEW b \in Seq(S)
    PROVE  /\ a \o b \in Seq(S) /\ Len(a \o b) = Len(a) + Len(b) /\ Len(a) \in Nat /\ Len(b) \in Nat
           /\ \A i \in 1..Len(a) : (a \o b)[i] = a[i]
           /\ \A i \in 1..Len(b) : (a \o b)[Len(a) + i] = b[i]
<1>1. Len(a) \in Nat /\ Len(b) \in Nat
  OBVIOUS
<1>2. /\ a \o b \in Seq(S) /\ Len(a \o b) = Len(a) + Len(b)
      /\ \A i \in 1..Len(a) + Len(b) : (a \o b)[i] = IF i <= Len(a) THEN a[i] ELSE b[i - Len(a)]
  BY ConcatProperties
<1>3. ASSUME NEW i \in 1..Len(a) PROVE (a \o b)[i] = a[i]
  <2>1. i \in 1..Len(a) + Len(b) /\ i <= Len(a)
    BY <1>1
  <2> QED BY <1>2, <2>1
<1>4. ASSUME NEW i \in 1..Len(b) PROVE (a \o b)[Len(a) + i] = b[i]
  <2>1. Len(a) + i \in 1..Len(a) + Len(b) /\ ~(Len(a) + i <= Len(a)) /\ (Len(a) + i) - Len(a) = i
    BY <1>1
  <2> QED BY <1>2, <2>1
<1> QED BY <1>1, <1>2, <1>3, <1>4

(* A scan that ends: the last clock has TMS high, whatever is behind.      *)
LEMMA ExitIs ==
    ASSUME NEW q \in Seq(Pair), q # << >>, \A i \in 1..Len(q) : q[i][1] = 0, NEW n \in Nat
    PROVE  /\ Jtag!Exit(q, n) \in Seq(Pair) /\ Len(Jtag!Exit(q, n)) = Len(q) + n
           /\ \A i \in 1..Len(q) + n :
                Jtag!Exit(q, n)[i] = << IF i = Len(q) + n THEN 1 ELSE 0, IF i <= Len(q) THEN q[i][2] ELSE 1 >>
<1>1. Len(q) \in Nat /\ Len(q) > 0 /\ Len(q) \in 1..Len(q)
  BY EmptySeq
<1>2. \A i \in 1..Len(q) : q[i] \in Pair /\ q[i][2] \in Bit /\ q[i] = << 0, q[i][2] >>
  <2> SUFFICES ASSUME NEW i \in 1..Len(q) PROVE q[i] \in Pair /\ q[i][2] \in Bit /\ q[i] = << 0, q[i][2] >>
    OBVIOUS
  <2>1. q[i] \in Pair
    BY ElementOfSeq
  <2> QED BY <2>1 DEF Pair
<1>3. CASE n = 0
  <2> DEFINE f == SubSeq(q, 1, Len(q) - 1)
  <2>1. Jtag!Exit(q, n) = Append(f, << 1, q[Len(q)][2] >>)
    BY <1>3 DEF Jtag!Exit, Jtag!Front, Jtag!Last
  <2>2. f \in Seq(Pair) /\ Len(f) = Len(q) - 1 /\ \A i \in 1..Len(q) - 1 : f[i] = q[i]
    <3>1. 1 \in Int /\ Len(q) - 1 \in Int /\ \A i \in 1..Len(q) - 1 : q[i] \in Pair
      BY <1>1, <1>2
    <3>2. /\ f \in Seq(Pair) /\ Len(f) = IF 1 <= Len(q) - 1 THEN Len(q) - 1 - 1 + 1 ELSE 0
          /\ \A i \in 1..(Len(q) - 1) - 1 + 1 : f[i] = q[1 + i - 1]
      BY <3>1, SubSeqProperties
    <3> HIDE DEF f
    <3>3. Len(f) = Len(q) - 1 /\ (Len(q) - 1) - 1 + 1 = Len(q) - 1
      <4>1. Len(f) = IF 1 <= Len(q) - 1 THEN Len(q) - 1 - 1 + 1 ELSE 0
        BY <3>2
      <4>2. Len(q) \in Nat /\ Len(q) > 0
        BY <1>1
      <4>3. PICK k : k = Len(q)
        OBVIOUS
      <4>4. k \in Nat /\ k > 0 => (IF 1 <= k - 1 THEN k - 1 - 1 + 1 ELSE 0) = k - 1 /\ (k - 1) - 1 + 1 = k - 1
        OBVIOUS
      <4> QED BY <4>1, <4>2, <4>3, <4>4
    <3>4. \A i \in 1..Len(q) - 1 : 1 + i - 1 = i
      OBVIOUS
    <3> QED BY <3>2, <3>3, <3>4
  <2>3. << 1, q[Len(q)][2] >> \in Pair
    BY <1>1, <1>2 DEF Pair, Bit
  <2> HIDE DEF f
  <2>4. /\ Jtag!Exit(q, n) \in Seq(Pair) /\ Len(Jtag!Exit(q, n)) = Len(f) + 1
        /\ \A i \in 1..Len(f) : Jtag!Exit(q, n)[i] = f[i]
        /\ Jtag!Exit(q, n)[Len(f) + 1] = << 1, q[Len(q)][2] >>
    BY <2>1, <2>2, <2>3, AppendProperties
  <2>5. Len(f) + 1 = Len(q) /\ Len(q) + n = Len(q)
    BY <1>1, <1>3, <2>2
  <2>6. ASSUME NEW i \in 1..Len(q)
        PROVE  Jtag!Exit(q, n)[i] = << IF i = Len(q) THEN 1 ELSE 0, q[i][2] >> /\ i <= Len(q)
    <3>1. i = Len(q) \/ (i # Len(q) /\ i \in 1..Len(q) - 1)
      BY <1>1
    <3>2. i <= Len(q)
      BY <1>1
    <3> QED BY <1>2, <2>2, <2>4, <2>5, <3>1, <3>2
  <2> QED BY <2>4, <2>5, <2>6
<1>4. CASE n # 0
  <2> DEFINE r == Jtag!Rep(n - 1, << 0, 1 >>)
             a == q \o r
             z == << << 1, 1 >> >>
  <2>1. Jtag!Exit(q, n) = a \o z
    BY <1>4 DEF Jtag!Exit
  <2>2. r \in Seq(Pair) /\ Len(r) = n - 1 /\ \A i \in 1..n - 1 : r[i] = << 0, 1 >>
    <3>1. n - 1 \in Nat /\ << 0, 1 >> \in Pair
      BY <1>4 DEF Pair, Bit
    <3> QED BY Zenon, <3>1, RepIs
  <2>3. z \in Seq(Pair) /\ Len(z) = 1 /\ z[1] = << 1, 1 >>
    BY DEF Pair, Bit
  <2> HIDE DEF r, z
  <2>4. /\ a \in Seq(Pair) /\ Len(a) = Len(q) + Len(r)
        /\ \A i \in 1..Len(q) : a[i] = q[i]
        /\ \A i \in 1..Len(r) : a[Len(q) + i] = r[i]
    <3>1. q \in Seq(Pair) /\ r \in Seq(Pair)
      BY <2>2
    <3> QED BY ONLY <3>1, JoinIs
  <2> HIDE DEF a
  <2>5. /\ Jtag!Exit(q, n) \in Seq(Pair) /\ Len(Jtag!Exit(q, n)) = Len(a) + Len(z)
        /\ \A i \in 1..Len(a) : Jtag!Exit(q, n)[i] = a[i]
        /\ \A i \in 1..Len(z) : Jtag!Exit(q, n)[Len(a) + i] = z[i]
    <3>1. a \in Seq(Pair) /\ z \in Seq(Pair)
      BY <2>3, <2>4
    <3>2. /\ a \o z \in Seq(Pair) /\ Len(a \o z) = Len(a) + Len(z)
          /\ \A i \in 1..Len(a) : (a \o z)[i] = a[i]
          /\ \A i \in 1..Len(z) : (a \o z)[Len(a) + i] = z[i]
      BY ONLY <3>1, JoinIs
    <3> QED BY ONLY <2>1, <3>2
  <2>6. Len(a) = Len(q) + n - 1 /\ Len(a) + Len(z) = Len(q) + n
    BY <1>1, <1>4, <2>2, <2>3, <2>4
  <2>7. ASSUME NEW i \in 1..Len(q) + n
        PROVE  Jtag!Exit(q, n)[i] = << IF i = Len(q) + n THEN 1 ELSE 0, IF i <= Len(q) THEN q[i][2] ELSE 1 >>
    <3>1. CASE i = Len(q) + n
      <4>1. i = Len(a) + 1 /\ 1 \in 1..Len(z) /\ ~(i <= Len(q))
        BY <1>1, <1>4, <2>3, <2>6, <3>1
      <4> QED BY <2>3, <2>5, <3>1, <4>1
    <3>2. CASE i # Len(q) + n /\ i <= Len(q)
      <4>1. i \in 1..Len(q) /\ i \in 1..Len(a)
        BY <1>1, <1>4, <2>6, <3>2
      <4> QED BY <1>2, <2>4, <2>5, <3>2, <4>1
    <3>3. CASE i # Len(q) + n /\ ~(i <= Len(q))
      <4>1. i - Len(q) \in 1..n - 1 /\ i - Len(q) \in 1..Len(r) /\ Len(q) + (i - Len(q)) = i /\ i \in 1..Len(a)
        BY <1>1, <1>4, <2>2, <2>6, <3>3
      <4>2. a[Len(q) + (i - Len(q))] = << 0, 1 >>
        BY Zenon, <2>2, <2>4, <4>1
      <4> QED BY <2>5, <3>3, <4>1, <4>2
    <3> QED BY <3>1, <3>2, <3>3
  <2> QED BY <2>5, <2>6, <2>7
<1> QED BY <1>3, <1>4

Codes == { Jtag!JTAG_ABORT, Jtag!JTAG_DPACC, Jtag!JTAG_APACC, Jtag!JTAG_IDCODE }

(* What is shifted in to select device and instruction, bit by bit.        *)
IrBit(code, before, len, j) == IF j > before /\ j <= before + len THEN Jtag!Ir(code, len)[j - before] ELSE 1

LEMMA IrIs ==
    ASSUME NEW code \in Codes, NEW n \in Nat, n >= 4
    PROVE  /\ Jtag!Ir(code, n) \in Seq(Bit) /\ Len(Jtag!Ir(code, n)) = n
           /\ \A i \in 1..n : Jtag!Ir(code, n)[i] = IF i <= 4 THEN code[i] ELSE 0
<1>1. ASSUME NEW i \in 1..n PROVE (IF i <= 4 THEN code[i] ELSE 0) \in Bit
  <2>1. CASE i <= 4
    <3>1. i = 1 \/ i = 2 \/ i = 3 \/ i = 4
      BY <2>1
    <3> QED BY <2>1, <3>1 DEF Codes, Jtag!JTAG_ABORT, Jtag!JTAG_DPACC, Jtag!JTAG_APACC, Jtag!JTAG_IDCODE, Bit
  <2> QED BY <2>1 DEF Bit
<1> QED BY <1>1 DEF Jtag!Ir

IrParts(q, code, before, len, after, total) ==
    /\ code \in Codes /\ before \in Nat /\ len \in Nat /\ len >= 4 /\ after \in Nat
    /\ total = before + len + after
    /\ q = << <<1, 1>>, <<1, 1>>, <<0, 1>>, <<0, 1>> >> \o Jtag!Rep(before, << 0, 1 >>)
               \o Jtag!Exit(Jtag!Tdi(Jtag!Ir(code, len)), after) \o Jtag!Update

LEMMA IrClocks ==
    ASSUME NEW q, NEW code, NEW before, NEW len, NEW after, NEW total,
           IrParts(q, code, before, len, after, total)
    PROVE  /\ q \in Seq(Pair) /\ Len(q) = 4 + total + 2
           /\ q[1] = << 1, 1 >> /\ q[2] = << 1, 1 >> /\ q[3] = << 0, 1 >> /\ q[4] = << 0, 1 >>
           /\ \A j \in 1..total : /\ IrBit(code, before, len, j) \in Bit
                                  /\ q[4 + j] = << IF j = total THEN 1 ELSE 0, IrBit(code, before, len, j) >>
           /\ q[4 + total + 1] = << 1, 1 >> /\ q[4 + total + 2] = << 0, 1 >>
<1> DEFINE head == << <<1, 1>>, <<1, 1>>, <<0, 1>>, <<0, 1>> >>
           ones == Jtag!Rep(before, << 0, 1 >>)
           insn == Jtag!Ir(code, len)
           bits == Jtag!Tdi(insn)
           exit == Jtag!Exit(bits, after)
           update == Jtag!Update
           a == head \o ones
           b == a \o exit
<1>a. /\ code \in Codes /\ before \in Nat /\ len \in Nat /\ len >= 4 /\ after \in Nat
      /\ total = before + len + after /\ q = b \o update
  BY DEF IrParts
<1> USE <1>a
<1>0. q = b \o update
  OBVIOUS
<1>1. head \in Seq(Pair) /\ Len(head) = 4
  BY DEF Pair, Bit
<1>1a. head[1] = << 1, 1 >> /\ head[2] = << 1, 1 >> /\ head[3] = << 0, 1 >> /\ head[4] = << 0, 1 >>
  OBVIOUS
<1>2. ones \in Seq(Pair) /\ Len(ones) = before /\ \A i \in 1..before : ones[i] = << 0, 1 >>
  <2>1. << 0, 1 >> \in Pair
    BY DEF Pair, Bit
  <2> QED BY Zenon, <2>1, RepIs
<1>3. insn \in Seq(Bit) /\ Len(insn) = len
  BY IrIs
<1>4. bits \in Seq(Pair) /\ Len(bits) = len /\ \A i \in 1..len : insn[i] \in Bit /\ bits[i] = << 0, insn[i] >>
  BY <1>3, TdiIs
<1> HIDE DEF insn, bits
<1>5. bits # << >> /\ \A i \in 1..Len(bits) : bits[i][1] = 0
  BY <1>4
<1>6. /\ exit \in Seq(Pair) /\ Len(exit) = len + after
      /\ \A i \in 1..len + after :
           exit[i] = << IF i = len + after THEN 1 ELSE 0, IF i <= len THEN bits[i][2] ELSE 1 >>
  <2>1. bits \in Seq(Pair)
    BY <1>4
  <2>2. /\ exit \in Seq(Pair) /\ Len(exit) = Len(bits) + after
        /\ \A i \in 1..Len(bits) + after :
             exit[i] = << IF i = Len(bits) + after THEN 1 ELSE 0, IF i <= Len(bits) THEN bits[i][2] ELSE 1 >>
    BY Zenon, <1>5, <2>1, ExitIs
  <2> QED BY <1>4, <2>2
<1>7. update \in Seq(Pair) /\ Len(update) = 2 /\ update[1] = << 1, 1 >> /\ update[2] = << 0, 1 >>
  BY DEF Jtag!Update, Pair, Bit
<1> HIDE DEF head, ones, exit, update
<1>8. /\ a \in Seq(Pair) /\ Len(a) = 4 + before
      /\ \A i \in 1..4 : a[i] = head[i] /\ \A k \in 1..before : a[4 + k] = ones[k]
  <2>1. head \in Seq(Pair) /\ ones \in Seq(Pair)
    BY <1>1, <1>2
  <2>2. /\ a \in Seq(Pair) /\ Len(a) = Len(head) + Len(ones)
        /\ \A i \in 1..Len(head) : a[i] = head[i]
        /\ \A i \in 1..Len(ones) : a[Len(head) + i] = ones[i]
    BY ONLY <2>1, JoinIs
  <2> HIDE DEF a
  <2> QED BY <1>1, <1>2, <2>2
<1> HIDE DEF a
<1>9. /\ b \in Seq(Pair) /\ Len(b) = 4 + total
      /\ \A i \in 1..4 + before : b[i] = a[i]
      /\ \A i \in 1..len + after : b[4 + before + i] = exit[i]
  <2>1. a \in Seq(Pair) /\ exit \in Seq(Pair)
    BY <1>6, <1>8
  <2>2. /\ b \in Seq(Pair) /\ Len(b) = Len(a) + Len(exit)
        /\ \A i \in 1..Len(a) : b[i] = a[i]
        /\ \A i \in 1..Len(exit) : b[Len(a) + i] = exit[i]
    BY ONLY <2>1, JoinIs
  <2> HIDE DEF b
  <2>3. (4 + before) + (len + after) = 4 + total
    OBVIOUS
  <2> QED BY <1>6, <1>8, <2>2, <2>3
<1> HIDE DEF b
<1>10. /\ q \in Seq(Pair) /\ Len(q) = 4 + total + 2
       /\ \A i \in 1..4 + total : q[i] = b[i]
       /\ q[4 + total + 1] = << 1, 1 >> /\ q[4 + total + 2] = << 0, 1 >>
  <2>1. b \in Seq(Pair) /\ update \in Seq(Pair)
    BY <1>7, <1>9
  <2>2. /\ b \o update \in Seq(Pair) /\ Len(b \o update) = Len(b) + Len(update)
        /\ \A i \in 1..Len(b) : (b \o update)[i] = b[i]
        /\ \A i \in 1..Len(update) : (b \o update)[Len(b) + i] = update[i]
    BY ONLY <2>1, JoinIs
  <2>3. 1 \in 1..Len(update) /\ 2 \in 1..Len(update)
    BY <1>7
  <2> QED BY Zenon, <1>0, <1>7, <1>9, <2>2, <2>3
<1>11. q[1] = << 1, 1 >> /\ q[2] = << 1, 1 >> /\ q[3] = << 0, 1 >> /\ q[4] = << 0, 1 >>
  <2>1. \A i \in 1..4 : i \in 1..4 + total /\ i \in 1..4 + before
    OBVIOUS
  <2>2. \A i \in 1..4 : q[i] = head[i]
    BY Zenon, <1>8, <1>9, <1>10, <2>1
  <2>3. 1 \in 1..4 /\ 2 \in 1..4 /\ 3 \in 1..4 /\ 4 \in 1..4
    OBVIOUS
  <2> QED BY Zenon, <1>1a, <2>2, <2>3
<1>12. ASSUME NEW j \in 1..total
       PROVE  /\ IrBit(code, before, len, j) \in Bit
              /\ q[4 + j] = << IF j = total THEN 1 ELSE 0, IrBit(code, before, len, j) >>
  <2>0. 4 + j \in 1..4 + total /\ j \in Nat /\ total \in Nat
    OBVIOUS
  <2>1. CASE j <= before
    <3>1. j \in 1..before /\ 4 + j \in 1..4 + before /\ j # total /\ ~(j > before) /\ 1 \in 1..4
      BY <2>1
    <3>2. q[4 + j] = << 0, 1 >>
      <4>1. q[4 + j] = b[4 + j] /\ b[4 + j] = a[4 + j]
        BY Zenon, <1>9, <1>10, <2>0, <3>1
      <4>2. a[4 + j] = ones[j] /\ ones[j] = << 0, 1 >>
        BY <1>2, <1>8, <3>1
      <4> QED BY <4>1, <4>2
    <3> QED BY <3>1, <3>2 DEF IrBit, Bit
  <2>2. CASE j > before
    <3>1. /\ j - before \in 1..len + after /\ 4 + before + (j - before) = 4 + j
          /\ (j - before = len + after <=> j = total) /\ (j - before <= len <=> j <= before + len)
      BY <2>0, <2>2
    <3>2. q[4 + j] = exit[j - before]
      BY <1>9, <1>10, <2>0, <3>1
    <3>3. q[4 + j] = << IF j = total THEN 1 ELSE 0, IF j <= before + len THEN bits[j - before][2] ELSE 1 >>
      BY Zenon, <1>6, <3>1, <3>2
    <3>4. CASE j <= before + len
      <4>1. j - before \in 1..len
        BY <3>1, <3>4
      <4>2. bits[j - before][2] = insn[j - before] /\ insn[j - before] \in Bit
        BY <1>4, <4>1
      <4> QED BY <2>2, <3>3, <3>4, <4>2 DEF IrBit, insn
    <3>5. CASE ~(j <= before + len)
      BY <3>3, <3>5 DEF IrBit, Bit
    <3> QED BY Zenon, <3>4, <3>5
  <2>3. j <= before \/ j > before
    BY <2>0
  <2> QED BY Zenon, <2>1, <2>2, <2>3
<1> QED BY Zenon, <1>10, <1>11, <1>12

(* Where the devices of the chain have their instructions.                 *)
ChainSums(s) ==
    /\ Len(chain) \in Nat /\ Jtag!Devices = 1..Len(chain) /\ s[0] = 0
    /\ SumsOf(s, chain, Len(chain))
    /\ \A d \in 1..Len(chain) : chain[d] \in Nat /\ chain[d] >= 4 /\ s[d] = s[d - 1] + chain[d]
    /\ \A d \in 0..Len(chain) : s[d] \in Nat
    /\ \A i, j \in 0..Len(chain) : i <= j => s[i] <= s[j]
    /\ \A k \in 1..Len(chain) + 1 : Jtag!Before(chain, k) = s[k - 1]

LEMMA ChainIs ==
    ASSUME Jtag!ScanAssumption, chain \in ScanChains
    PROVE  \E s : ChainSums(s)
<1>1. chain \in Seq(Nat \ (0..3))
  BY DEF Jtag!ScanAssumption
<1>2. Len(chain) \in Nat /\ \A d \in 1..Len(chain) : chain[d] \in Nat /\ chain[d] >= 4
  <2>1. ASSUME NEW d \in 1..Len(chain) PROVE chain[d] \in Nat /\ chain[d] >= 4
    <3>1. chain[d] \in Nat \ (0..3)
      BY <1>1, ElementOfSeq
    <3> QED BY <3>1
  <2> QED BY <1>1, <2>1
<1>3. PICK s : SumsOf(s, chain, Len(chain)) /\ \A k \in 1..Len(chain) + 1 : Jtag!Before(chain, k) = s[k - 1]
  BY <1>2, BeforeIs
<1>4. \A i, j \in 0..Len(chain) : i <= j => s[i] <= s[j]
  BY <1>2, <1>3, SumsRise
<1>5. Jtag!Devices = 1..Len(chain)
  BY DEF Jtag!Devices
<1>6. s[0] = 0 /\ (\A d \in 0..Len(chain) : s[d] \in Nat) /\ \A d \in 1..Len(chain) : s[d] = s[d - 1] + chain[d]
  BY <1>3 DEF SumsOf
<1>7. ChainSums(s)
  BY <1>2, <1>3, <1>4, <1>5, <1>6 DEF ChainSums
<1> QED BY <1>7

LEMMA SectionIs ==
    ASSUME NEW q, NEW lengths, NEW d, Jtag!Before(lengths, d) \in Nat, lengths[d] \in Nat,
           \A i \in 1..lengths[d] : q[Jtag!Before(lengths, d) + i] \in Bit
    PROVE  /\ Jtag!Section(q, lengths, d) \in Seq(Bit) /\ Len(Jtag!Section(q, lengths, d)) = lengths[d]
           /\ \A i \in 1..lengths[d] : Jtag!Section(q, lengths, d)[i] = q[Jtag!Before(lengths, d) + i]
<1> DEFINE b == Jtag!Before(lengths, d)
           k == lengths[d]
<1>0. b \in Nat /\ k \in Nat /\ \A i \in 1..k : q[b + i] \in Bit
  OBVIOUS
<1>1. Jtag!Section(q, lengths, d) = SubSeq(q, b + 1, b + k)
  BY DEF Jtag!Section
<1> HIDE DEF b, k
<1>2. ASSUME NEW i \in b + 1..b + k PROVE q[i] \in Bit
  <2>1. i - b \in 1..k /\ b + (i - b) = i
    BY <1>0
  <2> QED BY <1>0, <2>1
<1>3. b + 1 \in Int /\ b + k \in Int
  BY <1>0
<1>4. /\ SubSeq(q, b + 1, b + k) \in Seq(Bit)
      /\ Len(SubSeq(q, b + 1, b + k)) = IF b + 1 <= b + k THEN (b + k) - (b + 1) + 1 ELSE 0
      /\ \A i \in 1..(b + k) - (b + 1) + 1 : SubSeq(q, b + 1, b + k)[i] = q[(b + 1) + i - 1]
  BY <1>2, <1>3, SubSeqProperties
<1>5. (IF b + 1 <= b + k THEN (b + k) - (b + 1) + 1 ELSE 0) = k /\ (b + k) - (b + 1) + 1 = k
      /\ \A i \in 1..k : (b + 1) + i - 1 = b + i
  BY <1>0
<1>6. /\ Jtag!Section(q, lengths, d) \in Seq(Bit) /\ Len(Jtag!Section(q, lengths, d)) = k
      /\ \A i \in 1..k : Jtag!Section(q, lengths, d)[i] = q[b + i]
  BY Zenon, <1>1, <1>4, <1>5
<1> QED BY <1>6 DEF b, k

(* A state of the chain within a scan.                                     *)
Context(c) == c = [tap |-> c.tap, sr |-> c.sr, out |-> c.out, irs |-> c.irs, update |-> c.update]

LEMMA ClockIsContext == ASSUME NEW c, NEW clk, NEW captured PROVE Context(Jtag!Clock(c, clk, captured))
BY DEF Context, Jtag!Clock

LEMMA Cleared ==
    ASSUME NEW c, Context(c), NEW d, d = [c EXCEPT !.out = << >>]
    PROVE  /\ Context(d) /\ d.tap = c.tap /\ d.sr = c.sr /\ d.out = << >> /\ d.irs = c.irs /\ d.update = c.update
<1> DEFINE t == c.tap
           q == c.sr
           o == c.out
           insn == c.irs
           u == c.update
<1>1. c = [tap |-> t, sr |-> q, out |-> o, irs |-> insn, update |-> u]
  BY DEF Context
<1> HIDE DEF t, q, o, insn, u
<1>2. d = [tap |-> t, sr |-> q, out |-> << >>, irs |-> insn, update |-> u]
  BY <1>1
<1>3. d.tap = t /\ d.sr = q /\ d.out = << >> /\ d.irs = insn /\ d.update = u
  BY <1>2
<1> QED BY <1>2, <1>3 DEF Context, t, q, o, insn, u

LEMMA IrStart ==
    ASSUME NEW r, NEW captured, r[0].tap = "Idle",
           r[1] = Jtag!Clock(r[0], << 1, 1 >>, captured), r[2] = Jtag!Clock(r[1], << 1, 1 >>, captured),
           r[3] = Jtag!Clock(r[2], << 0, 1 >>, captured), r[4] = Jtag!Clock(r[3], << 0, 1 >>, captured)
    PROVE  /\ r[4].tap = "ShiftIR" /\ r[4].irs = r[0].irs /\ r[4].update = r[0].update /\ r[4].out = r[0].out
           /\ r[4].sr = Jtag!FlattenSeq([d \in Jtag!Devices |-> Jtag!Rep(chain[d], 0)])
<1>1. r[1].tap = "SelectDR" /\ Same(r[0], r[1])
  BY Walks
<1>2. r[2].tap = "SelectIR" /\ Same(r[1], r[2])
  BY <1>1, Walks
<1>3. r[3].tap = "CaptureIR" /\ Same(r[2], r[3])
  BY <1>2, Walks
<1>4. /\ r[4].tap = "ShiftIR" /\ r[4].out = r[3].out /\ r[4].irs = r[3].irs /\ r[4].update = r[3].update
      /\ r[4].sr = Jtag!FlattenSeq([d \in Jtag!Devices |-> Jtag!Rep(chain[d], 0)])
  BY <1>3, LoadsIr
<1> QED BY <1>1, <1>2, <1>3, <1>4 DEF Same

LEMMA DrStart ==
    ASSUME NEW r, NEW captured, r[0].tap = "Idle", r[1] = Jtag!Clock(r[0], << 1, 1 >>, captured),
           r[2] = Jtag!Clock(r[1], << 0, 1 >>, captured), r[3] = Jtag!Clock(r[2], << 0, 1 >>, captured)
    PROVE  /\ r[3].tap = "ShiftDR" /\ r[3].irs = r[0].irs /\ r[3].update = r[0].update /\ r[3].out = r[0].out
           /\ r[3].sr = Jtag!FlattenSeq([d \in Jtag!Devices |-> captured[d]])
<1>1. r[1].tap = "SelectDR" /\ Same(r[0], r[1])
  BY Walks
<1>2. r[2].tap = "CaptureDR" /\ Same(r[1], r[2])
  BY <1>1, Walks
<1>3. /\ r[3].tap = "ShiftDR" /\ r[3].out = r[2].out /\ r[3].irs = r[2].irs /\ r[3].update = r[2].update
      /\ r[3].sr = Jtag!FlattenSeq([d \in Jtag!Devices |-> captured[d]])
  BY <1>2, LoadsDr
<1> QED BY <1>1, <1>2, <1>3 DEF Same

(* Update, and back to Idle.                                               *)
Ending(c, mid, to, captured) ==
    /\ mid = Jtag!Clock(c, << 1, 1 >>, captured) /\ to = Jtag!Clock(mid, << 0, 1 >>, captured)
    /\ c.tap \in { "Exit1IR", "Exit1DR" }

LEMMA EndsIr ==
    ASSUME NEW c, NEW mid, NEW to, NEW captured, Ending(c, mid, to, captured), c.tap = "Exit1IR"
    PROVE  /\ Context(to) /\ to.tap = "Idle" /\ to.update = c.update
           /\ to.irs = [d \in Jtag!Devices |-> Jtag!Section(c.sr, chain, d)]
<1> USE DEF Ending
<1>1. mid.tap = "UpdateIR" /\ mid.out = c.out
  BY Walks
<1>2. to.tap = "Idle" /\ Same(mid, to)
  BY <1>1, Walks
<1>3. mid.irs = [d \in Jtag!Devices |-> Jtag!Section(c.sr, chain, d)] /\ mid.update = c.update
  BY UpdatesIr
<1>4. Context(to)
  BY ClockIsContext
<1> QED BY <1>1, <1>2, <1>3, <1>4 DEF Same

LEMMA EndsDr ==
    ASSUME NEW c, NEW mid, NEW to, NEW captured, Ending(c, mid, to, captured), c.tap = "Exit1DR"
    PROVE  /\ Context(to) /\ to.tap = "Idle" /\ to.out = c.out /\ to.irs = c.irs
           /\ to.update = [d \in Jtag!Devices |->
                              Jtag!Section(c.sr, [i \in Jtag!Devices |-> Jtag!DrLength(c.irs[i])], d)]
<1> USE DEF Ending
<1>1. mid.tap = "UpdateDR" /\ mid.out = c.out
  BY Walks
<1>2. to.tap = "Idle" /\ Same(mid, to)
  BY <1>1, Walks
<1>3. /\ mid.irs = c.irs
      /\ mid.update = [d \in Jtag!Devices |->
                         Jtag!Section(c.sr, [i \in Jtag!Devices |-> Jtag!DrLength(c.irs[i])], d)]
  BY UpdatesDr
<1>4. Context(to)
  BY ClockIsContext
<1> QED BY <1>1, <1>2, <1>3, <1>4 DEF Same

(* One device has the instruction, the others are in bypass.               *)
Selection(n, code) ==
    [d \in Jtag!Devices |-> IF d = n THEN Jtag!Ir(code, chain[d]) ELSE Jtag!Rep(chain[d], 1)]

(* All zeros: what is captured in the instruction registers.               *)
LEMMA ZerosJoined ==
    ASSUME NEW s, ChainSums(s), Len(chain) > 0, NEW q,
           q = Jtag!FlattenSeq([d \in Jtag!Devices |-> Jtag!Rep(chain[d], 0)])
    PROVE  q \in Seq(Bit) /\ Len(q) = s[Len(chain)]
<1> DEFINE N == Len(chain)
           parts == [d \in 1..N |-> Jtag!Rep(chain[d], 0)]
<1>1. N \in Nat \ {0} /\ q = Jtag!FlattenSeq(parts)
  BY DEF ChainSums
<1>2. \A d \in 1..N : parts[d] \in Seq(Bit) /\ Len(parts[d]) = chain[d]
  <2> SUFFICES ASSUME NEW d \in 1..N PROVE parts[d] \in Seq(Bit) /\ Len(parts[d]) = chain[d]
    OBVIOUS
  <2>1. chain[d] \in Nat /\ 0 \in Bit
    BY DEF ChainSums, Bit
  <2>2. Jtag!Rep(chain[d], 0) \in Seq(Bit) /\ Len(Jtag!Rep(chain[d], 0)) = chain[d]
    BY Zenon, <2>1, RepIs
  <2> QED BY <2>2
<1>3. parts \in Seq(Seq(Bit)) /\ Len(parts) = N
  <2>1. N \in Nat
    BY <1>1
  <2> HIDE DEF N
  <2>2. parts \in [1..N -> Seq(Bit)]
    BY <1>2
  <2>3. parts \in Seq(Seq(Bit))
    BY <2>1, <2>2, SeqDef
  <2> QED BY <2>1, <2>3
<1>4. SumsOf(s, [i \in 1..N |-> Len(parts[i])], N)
  <2>1. s \in [0..N -> Nat] /\ s[0] = 0 /\ \A i \in 1..N : s[i] = s[i - 1] + chain[i]
    BY DEF ChainSums, SumsOf
  <2>2. \A i \in 1..N : [k \in 1..N |-> Len(parts[k])][i] = chain[i]
    BY <1>2
  <2> HIDE DEF N, parts
  <2> QED BY <2>1, <2>2 DEF SumsOf
<1> HIDE DEF N, parts
<1>5. Jtag!FlattenSeq(parts) \in Seq(Bit) /\ Len(Jtag!FlattenSeq(parts)) = s[N]
  <2>1. Joining(parts, Bit, s, N)
    BY <1>1, <1>3, <1>4 DEF Joining
  <2> QED BY ONLY <2>1, JoinedIs
<1> QED BY <1>1, <1>5 DEF N

(* What the chain holds after the bits of JTAG_IR are its instructions.    *)
LEMMA IrSections ==
    ASSUME NEW s, ChainSums(s), NEW code \in Codes, NEW n \in 1..Len(chain), NEW q,
           \A k \in 1..s[Len(chain)] : q[k] = IrBit(code, s[n - 1], chain[n], k)
    PROVE  [d \in Jtag!Devices |-> Jtag!Section(q, chain, d)] = Selection(n, code)
<1> DEFINE N == Len(chain)
<1>0. N \in Nat /\ Jtag!Devices = 1..N
  BY DEF ChainSums
<1>1. ASSUME NEW d \in 1..N
      PROVE  Jtag!Section(q, chain, d) = IF d = n THEN Jtag!Ir(code, chain[d]) ELSE Jtag!Rep(chain[d], 1)
  <2> DEFINE k == chain[d]
             b == s[d - 1]
             bn == s[n - 1]
             kn == chain[n]
  <2>1. k \in Nat /\ k >= 4 /\ s[d] = b + k /\ kn \in Nat /\ kn >= 4 /\ s[n] = bn + kn
    BY DEF ChainSums
  <2>2. d \in 0..N /\ d - 1 \in 0..N /\ n - 1 \in 0..N /\ n \in 0..N /\ N \in 0..N /\ d \in 1..N + 1 /\ d <= N
    BY <1>0
  <2>3. b \in Nat /\ bn \in Nat /\ s[d] \in Nat /\ s[n] \in Nat /\ s[N] \in Nat /\ s[d] <= s[N] /\ Jtag!Before(chain, d) = b
    BY <2>2 DEF ChainSums
  <2>4. (d <= n - 1 => s[d] <= bn) /\ (n <= d - 1 => s[n] <= b)
    BY <2>2 DEF ChainSums
  <2>5. ASSUME NEW i \in 1..k
        PROVE  q[b + i] = IF d = n THEN Jtag!Ir(code, k)[i] ELSE 1
    <3>1. b + i \in 1..s[N]
      <4>1. /\ s[d] = b + k /\ b \in Nat /\ k \in Nat /\ s[d] \in Nat /\ s[N] \in Nat /\ s[d] <= s[N]
            /\ i \in 1..k
        BY <2>1, <2>3
      <4> HIDE DEF b, k, N
      <4> QED BY ONLY <4>1
    <3>2. q[b + i] = IrBit(code, bn, kn, b + i)
      BY <3>1
    <3>3. CASE d = n
      <4>1. b + i > bn /\ b + i <= bn + kn /\ (b + i) - bn = i /\ k = kn
        BY <2>1, <2>3, <3>3
      <4> QED BY <3>2, <3>3, <4>1 DEF IrBit
    <3>4. CASE d # n
      <4>1. ~(b + i > bn /\ b + i <= bn + kn)
        <5>1. d <= n - 1 \/ n <= d - 1
          BY <3>4
        <5>2. d <= n - 1 => b + i <= bn
          <6>1. /\ s[d] = b + k /\ b \in Nat /\ k \in Nat /\ bn \in Nat /\ s[d] \in Nat /\ i \in 1..k
                /\ d <= n - 1 => s[d] <= bn
            BY <2>1, <2>3, <2>4
          <6> HIDE DEF b, k, bn
          <6> QED BY ONLY <6>1
        <5>3. n <= d - 1 => b + i > bn + kn
          BY <2>1, <2>3, <2>4
        <5>4. b \in Nat /\ bn \in Nat /\ kn \in Nat /\ i \in Nat
          BY <2>1, <2>3
        <5> HIDE DEF b, bn, kn
        <5> QED BY <5>1, <5>2, <5>3, <5>4
      <4> QED BY <3>2, <3>4, <4>1 DEF IrBit
    <3> QED BY <3>3, <3>4
  <2> DEFINE v == Jtag!Section(q, chain, d)
             w == IF d = n THEN Jtag!Ir(code, k) ELSE Jtag!Rep(k, 1)
  <2>6. w \in Seq(Bit) /\ Len(w) = k /\ \A i \in 1..k : w[i] \in Bit /\ w[i] = q[b + i]
    <3>1. CASE d = n
      <4>1. Jtag!Ir(code, k) \in Seq(Bit) /\ Len(Jtag!Ir(code, k)) = k
        BY <2>1, IrIs
      <4>2. \A i \in 1..k : Jtag!Ir(code, k)[i] \in Bit
        BY <4>1, ElementOfSeq
      <4> QED BY <2>5, <3>1, <4>1, <4>2
    <3>2. CASE d # n
      <4>1. 1 \in Bit
        BY DEF Bit
      <4>2. Jtag!Rep(k, 1) \in Seq(Bit) /\ Len(Jtag!Rep(k, 1)) = k /\ \A i \in 1..k : Jtag!Rep(k, 1)[i] = 1
        BY Zenon, <2>1, <4>1, RepIs
      <4> QED BY <2>5, <3>2, <4>1, <4>2
    <3> QED BY <3>1, <3>2
  <2> HIDE DEF w
  <2>7. v \in Seq(Bit) /\ Len(v) = k /\ \A i \in 1..k : v[i] = q[b + i]
    <3>1. \A i \in 1..k : q[b + i] \in Bit
      BY Zenon, <2>6
    <3>2. Jtag!Before(chain, d) = b /\ b \in Nat /\ k \in Nat
      BY <2>1, <2>3
    <3>3. /\ Jtag!Before(chain, d) \in Nat /\ chain[d] \in Nat
          /\ \A i \in 1..chain[d] : q[Jtag!Before(chain, d) + i] \in Bit
      BY <3>1, <3>2
    <3>4. /\ Jtag!Section(q, chain, d) \in Seq(Bit) /\ Len(Jtag!Section(q, chain, d)) = chain[d]
          /\ \A i \in 1..chain[d] : Jtag!Section(q, chain, d)[i] = q[Jtag!Before(chain, d) + i]
      BY ONLY <3>3, SectionIs
    <3> QED BY <3>2, <3>4
  <2> HIDE DEF v
  <2>8. v = w
    <3>1. Len(v) = Len(w) /\ \A i \in 1..Len(v) : v[i] = w[i]
      BY <2>6, <2>7
    <3> QED BY <2>6, <2>7, <3>1, SeqEqual
  <2> QED BY <2>8 DEF v, w
<1> QED BY <1>0, <1>1 DEF Selection

(* dev describes the chain that is there, and addresses device n.          *)
Describes(dev, s, n) ==
    /\ dev.index + 1 = n /\ dev.count = Len(chain) /\ dev.ir_length[n] = chain[n]
    /\ dev.ir_before[n] = s[n - 1] /\ dev.ir_after[n] = s[Len(chain)] - s[n]

(* JTAG_IR selects device and instruction, and ends in Idle.               *)
LEMMA IrScan ==
    ASSUME NEW s, ChainSums(s), NEW code \in Codes, NEW n \in 1..Len(chain), NEW dev, Describes(dev, s, n),
           NEW c, c.tap = "Idle", NEW captured, NEW to, to = Jtag!Run(c, Jtag!JTAG_IR(dev, code), captured)
    PROVE  Context(to) /\ to.tap = "Idle" /\ to.irs = Selection(n, code) /\ to.update = c.update
<1> DEFINE N == Len(chain)
           total == s[N]
           bn == s[n - 1]
           kn == chain[n]
           an == s[N] - s[n]
           q == Jtag!JTAG_IR(dev, code)
           bits == [j \in 1..total |-> IrBit(code, bn, kn, j)]
<1>1. N \in Nat /\ N > 0 /\ n \in 1..N
  BY DEF ChainSums
<1>2. kn \in Nat /\ kn >= 4 /\ bn \in Nat /\ an \in Nat /\ total \in Nat /\ total = bn + kn + an
  <2>1. n \in 0..N /\ n - 1 \in 0..N /\ N \in 0..N /\ n <= N
    BY <1>1
  <2>2. kn \in Nat /\ kn >= 4 /\ s[n] = bn + kn
    BY DEF ChainSums
  <2>3. s[n] \in Nat /\ bn \in Nat /\ s[N] \in Nat /\ s[n] <= s[N]
    BY <2>1 DEF ChainSums
  <2> HIDE DEF N, bn, kn
  <2> QED BY <2>2, <2>3
<1>3. q = << <<1, 1>>, <<1, 1>>, <<0, 1>>, <<0, 1>> >> \o Jtag!Rep(bn, << 0, 1 >>)
            \o Jtag!Exit(Jtag!Tdi(Jtag!Ir(code, kn)), an) \o Jtag!Update
  BY Zenon DEF Jtag!JTAG_IR, Describes
<1> HIDE DEF N, total, bn, kn, an, q
<1>4. /\ q \in Seq(Pair) /\ Len(q) = 4 + total + 2
      /\ q[1] = << 1, 1 >> /\ q[2] = << 1, 1 >> /\ q[3] = << 0, 1 >> /\ q[4] = << 0, 1 >>
      /\ \A j \in 1..total : /\ IrBit(code, bn, kn, j) \in Bit
                             /\ q[4 + j] = << IF j = total THEN 1 ELSE 0, IrBit(code, bn, kn, j) >>
      /\ q[4 + total + 1] = << 1, 1 >> /\ q[4 + total + 2] = << 0, 1 >>
  <2>1. IrParts(q, code, bn, kn, an, total)
    BY <1>2, <1>3 DEF IrParts
  <2> QED BY ONLY <2>1, IrClocks
<1>5. Len(q) \in Nat /\ total > 0
  BY <1>2, <1>4
<1>6. PICK r : RunOf(r, c, q, captured) /\ to = r[Len(q)]
  BY <1>5, RunIs DEF q
<1>7. r[0] = c /\ \A i \in 1..4 + total + 2 : r[i] = Jtag!Clock(r[i - 1], q[i], captured)
  BY <1>4, <1>6 DEF RunOf
<1>8. /\ r[1] = Jtag!Clock(r[0], << 1, 1 >>, captured) /\ r[2] = Jtag!Clock(r[1], << 1, 1 >>, captured)
      /\ r[3] = Jtag!Clock(r[2], << 0, 1 >>, captured) /\ r[4] = Jtag!Clock(r[3], << 0, 1 >>, captured)
  <2>1. \A i \in 1..4 : i \in 1..4 + total + 2
    BY <1>5, <1>2
  <2>2. \A i \in 1..4 : r[i] = Jtag!Clock(r[i - 1], q[i], captured)
    BY <1>7, <2>1
  <2>3. 1 \in 1..4 /\ 2 \in 1..4 /\ 3 \in 1..4 /\ 4 \in 1..4 /\ 1 - 1 = 0 /\ 2 - 1 = 1 /\ 3 - 1 = 2 /\ 4 - 1 = 3
    OBVIOUS
  <2> QED BY Zenon, <1>4, <2>2, <2>3
<1>9. /\ r[4].tap = "ShiftIR" /\ r[4].update = c.update
      /\ r[4].sr = Jtag!FlattenSeq([d \in Jtag!Devices |-> Jtag!Rep(chain[d], 0)])
  BY Zenon, <1>7, <1>8, IrStart
<1>10. r[4].sr \in Seq(Bit) /\ Len(r[4].sr) = total
  BY <1>1, <1>9, ZerosJoined DEF N, total
<1>11. /\ Shifted(r[4], bits, total, total, r[4 + total])
       /\ r[4 + total].tap = IF total > 0 /\ 1 = 1 THEN ExitOf(r[4].tap) ELSE r[4].tap
  <2>1. 4 \in Nat /\ total \in Nat \ {0} /\ total \in Nat /\ 1 \in Bit
    BY <1>2, <1>5 DEF Bit
  <2>2. r[4].tap \in Shift /\ r[4].sr \in Seq(Bit) /\ Len(r[4].sr) = total
    BY <1>9, <1>10 DEF Shift
  <2>3. \A j \in 1..total : bits[j] \in Bit /\ q[4 + j] = << IF j = total THEN 1 ELSE 0, bits[j] >>
    BY <1>4
  <2>4. \A j \in 1..total : r[4 + j] = Jtag!Clock(r[4 + j - 1], q[4 + j], captured)
    <3> SUFFICES ASSUME NEW j \in 1..total PROVE r[4 + j] = Jtag!Clock(r[4 + j - 1], q[4 + j], captured)
      OBVIOUS
    <3>1. 4 + j \in 1..4 + total + 2
      BY <1>2
    <3> QED BY <1>7, <3>1
  <2> HIDE DEF bits
  <2>5. Shifting(r, 4, total, q, captured, bits, total, 1)
    BY Zenon, <2>1, <2>2, <2>3, <2>4 DEF Shifting
  <2> QED BY ONLY <2>5, Shifts
<1>12. r[4 + total].tap = "Exit1IR" /\ \A k \in 1..total : r[4 + total].sr[k] = IrBit(code, bn, kn, k)
  <2>1. r[4 + total].tap = "Exit1IR"
    BY <1>5, <1>9, <1>11 DEF ExitOf
  <2>2. ASSUME NEW k \in 1..total PROVE r[4 + total].sr[k] = bits[k]
    <3>1. ~(total + k <= total) /\ total + k - total = k
      BY <1>2
    <3> QED BY Zenon, <1>11, <3>1 DEF Shifted
  <2> QED BY <2>1, <2>2
<1>13. r[4 + total].update = c.update
  BY <1>9, <1>11 DEF Shifted
<1> PICK e, f : e = 4 + total + 1 /\ f = 4 + total + 2
  OBVIOUS
<1>14. /\ e = 4 + total + 1 /\ f = 4 + total + 2 /\ e - 1 = 4 + total /\ f - 1 = e
       /\ q[e] = << 1, 1 >> /\ q[f] = << 0, 1 >>
       /\ e \in 1..4 + total + 2 /\ f \in 1..4 + total + 2
  <2>1. e = 4 + total + 1 /\ f = 4 + total + 2 /\ total \in Nat
    BY <1>2
  <2>2. e - 1 = 4 + total /\ f - 1 = e /\ e \in 1..4 + total + 2 /\ f \in 1..4 + total + 2
    BY ONLY <2>1
  <2>3. q[4 + total + 1] = << 1, 1 >> /\ q[4 + total + 2] = << 0, 1 >>
    BY <1>4
  <2> QED BY ONLY <2>1, <2>2, <2>3
<1>14a. r[e] = Jtag!Clock(r[4 + total], << 1, 1 >>, captured) /\ r[f] = Jtag!Clock(r[e], << 0, 1 >>, captured)
  <2>1. \A i \in 1..4 + total + 2 : r[i] = Jtag!Clock(r[i - 1], q[i], captured)
    BY <1>7
  <2>2. r[e] = Jtag!Clock(r[e - 1], q[e], captured) /\ r[f] = Jtag!Clock(r[f - 1], q[f], captured)
    BY ONLY Zenon, <1>14, <2>1
  <2> QED BY ONLY <1>14, <2>2
<1>15. /\ Context(to) /\ to.tap = "Idle" /\ to.update = c.update
       /\ to.irs = [d \in Jtag!Devices |-> Jtag!Section(r[4 + total].sr, chain, d)]
  <2>1. to = r[f] /\ r[4 + total].tap \in { "Exit1IR", "Exit1DR" }
    BY <1>4, <1>6, <1>12, <1>14
  <2>2. Ending(r[4 + total], r[e], to, captured)
    BY <1>14a, <2>1 DEF Ending
  <2>3. /\ Context(to) /\ to.tap = "Idle" /\ to.update = r[4 + total].update
        /\ to.irs = [d \in Jtag!Devices |-> Jtag!Section(r[4 + total].sr, chain, d)]
    <3> DEFINE x == r[4 + total]
               y == r[e]
    <3>1. x.tap = "Exit1IR" /\ Ending(x, y, to, captured)
      BY <1>12, <2>2
    <3> HIDE DEF x, y
    <3>2. /\ Context(to) /\ to.tap = "Idle" /\ to.update = x.update
          /\ to.irs = [d \in Jtag!Devices |-> Jtag!Section(x.sr, chain, d)]
      BY <3>1, EndsIr
    <3> QED BY <3>2 DEF x
  <2> QED BY <1>12, <1>13, <2>3
<1>16. to.irs = Selection(n, code)
  <2> DEFINE x == r[4 + total].sr
  <2>1. ChainSums(s) /\ code \in Codes /\ n \in 1..Len(chain)
    OBVIOUS
  <2>2. \A k \in 1..s[Len(chain)] : x[k] = IrBit(code, s[n - 1], chain[n], k)
    BY <1>12 DEF N, total, bn, kn
  <2>3. to.irs = [d \in Jtag!Devices |-> Jtag!Section(x, chain, d)]
    BY <1>15
  <2> HIDE DEF x
  <2>4. [d \in Jtag!Devices |-> Jtag!Section(x, chain, d)] = Selection(n, code)
    BY ONLY <2>1, <2>2, IrSections
  <2> QED BY <2>3, <2>4
<1> QED BY <1>15, <1>16

(* Lengths of data registers: bypass is one bit.                           *)
LEMMA DrLengths ==
    ASSUME NEW code \in Codes, NEW k \in Nat, k >= 4
    PROVE  /\ Jtag!DrLength(Jtag!Ir(code, k)) = IF code = Jtag!JTAG_IDCODE THEN W ELSE 3 + W
           /\ Jtag!DrLength(Jtag!Rep(k, 1)) = 1
<1> DEFINE ones == Jtag!Rep(k, 1)
<1>1. \A c \in Codes : /\ Jtag!Ir(c, k) \in Seq(Bit) /\ Len(Jtag!Ir(c, k)) = k
                       /\ \A i \in 1..4 : Jtag!Ir(c, k)[i] = c[i]
  <2> SUFFICES ASSUME NEW c \in Codes
               PROVE  /\ Jtag!Ir(c, k) \in Seq(Bit) /\ Len(Jtag!Ir(c, k)) = k
                      /\ \A i \in 1..4 : Jtag!Ir(c, k)[i] = c[i]
    OBVIOUS
  <2>1. /\ Jtag!Ir(c, k) \in Seq(Bit) /\ Len(Jtag!Ir(c, k)) = k
        /\ \A i \in 1..k : Jtag!Ir(c, k)[i] = IF i <= 4 THEN c[i] ELSE 0
    BY IrIs
  <2>2. \A i \in 1..4 : i \in 1..k /\ i <= 4
    OBVIOUS
  <2> QED BY <2>1, <2>2
<1>2. ones \in Seq(Bit) /\ Len(ones) = k /\ \A i \in 1..4 : ones[i] = 1
  <2>1. 1 \in Bit /\ \A i \in 1..4 : i \in 1..k
    BY DEF Bit
  <2> QED BY Zenon, <2>1, RepIs
<1>3. /\ Jtag!JTAG_IDCODE[3] = 1 /\ Jtag!JTAG_IDCODE[1] = 0 /\ Jtag!JTAG_IDCODE[2] = 1
      /\ Jtag!JTAG_DPACC[3] = 0 /\ Jtag!JTAG_APACC[3] = 0 /\ Jtag!JTAG_ABORT[3] = 0
      /\ Jtag!JTAG_IDCODE \in Codes /\ Jtag!JTAG_DPACC \in Codes /\ Jtag!JTAG_APACC \in Codes
      /\ Jtag!JTAG_ABORT \in Codes /\ 3 \in 1..4 /\ 1 \in 1..4
  BY DEF Codes, Jtag!JTAG_ABORT, Jtag!JTAG_DPACC, Jtag!JTAG_APACC, Jtag!JTAG_IDCODE
<1> DEFINE Acc == {Jtag!JTAG_DPACC, Jtag!JTAG_APACC, Jtag!JTAG_ABORT}
<1>4. \A c \in Acc : c \in Codes /\ c[3] = 0
  BY <1>3
<1>5. code \in Acc \/ code = Jtag!JTAG_IDCODE
  BY DEF Codes
<1> DEFINE Length(insn) == CASE \E c \in Acc : insn = Jtag!Ir(c, k) -> 3 + W
                             [] insn = Jtag!Ir(Jtag!JTAG_IDCODE, k) -> W
                             [] OTHER -> 1
<1>6. \A insn : Len(insn) = k => Jtag!DrLength(insn) = Length(insn)
  BY DEF Jtag!DrLength
<1>7. ASSUME code \in Acc PROVE Jtag!DrLength(Jtag!Ir(code, k)) = 3 + W /\ code # Jtag!JTAG_IDCODE
  <2>1. code # Jtag!JTAG_IDCODE
    BY <1>3, <1>4, <1>7
  <2> DEFINE insn == Jtag!Ir(code, k)
  <2>2. Jtag!DrLength(insn) = Length(insn)
    BY <1>1, <1>6
  <2>3. \E c \in Acc : insn = Jtag!Ir(c, k)
    BY <1>7
  <2>4. insn # Jtag!Ir(Jtag!JTAG_IDCODE, k)
    BY <1>1, <1>3, <1>4, <1>7
  <2> HIDE DEF insn, Acc
  <2>5. Length(insn) = 3 + W
    BY <2>3, <2>4
  <2> QED BY <2>1, <2>2, <2>5 DEF insn
<1>8. ASSUME code = Jtag!JTAG_IDCODE PROVE Jtag!DrLength(Jtag!Ir(code, k)) = W
  <2> DEFINE insn == Jtag!Ir(code, k)
  <2>1. Jtag!DrLength(insn) = Length(insn)
    BY <1>1, <1>6
  <2>2. \A c \in Acc : insn # Jtag!Ir(c, k)
    BY <1>1, <1>3, <1>4, <1>8
  <2>3. insn = Jtag!Ir(Jtag!JTAG_IDCODE, k)
    BY <1>8
  <2> HIDE DEF insn, Acc
  <2>4. Length(insn) = W
    BY <2>2, <2>3
  <2> QED BY <2>1, <2>4 DEF insn
<1>9. Jtag!DrLength(ones) = 1
  <2>1. Jtag!DrLength(ones) = Length(ones)
    BY <1>2, <1>6
  <2>2. \A c \in Acc : ones # Jtag!Ir(c, k)
    BY <1>1, <1>2, <1>3, <1>4
  <2>3. ones # Jtag!Ir(Jtag!JTAG_IDCODE, k)
    BY <1>1, <1>2, <1>3
  <2> HIDE DEF ones, Acc
  <2>4. Length(ones) = 1
    BY <2>2, <2>3
  <2> QED BY <2>1, <2>4
<1> QED BY <1>5, <1>7, <1>8, <1>9

(* K bits of data register n in a chain in which the others are in bypass. *)
Selected(irs_, n, K) ==
    /\ n \in 1..Len(chain) /\ K \in Nat /\ Len(chain) \in Nat /\ Jtag!Devices = 1..Len(chain)
    /\ \A d \in 1..Len(chain) : Jtag!DrLength(irs_[d]) = IF d = n THEN K ELSE 1

LEMMA SelectionIs ==
    ASSUME NEW s, ChainSums(s), NEW code \in Codes, NEW n \in 1..Len(chain), W \in Nat
    PROVE  Selected(Selection(n, code), n, IF code = Jtag!JTAG_IDCODE THEN W ELSE 3 + W)
<1> DEFINE K == IF code = Jtag!JTAG_IDCODE THEN W ELSE 3 + W
<1>1. K \in Nat /\ Len(chain) \in Nat /\ Jtag!Devices = 1..Len(chain)
  BY DEF ChainSums
<1>2. ASSUME NEW d \in 1..Len(chain) PROVE Jtag!DrLength(Selection(n, code)[d]) = IF d = n THEN K ELSE 1
  <2>1. chain[d] \in Nat /\ chain[d] >= 4
    BY DEF ChainSums
  <2>2. Jtag!DrLength(Jtag!Ir(code, chain[d])) = K /\ Jtag!DrLength(Jtag!Rep(chain[d], 1)) = 1
    BY <2>1, DrLengths
  <2>3. Selection(n, code)[d] = IF d = n THEN Jtag!Ir(code, chain[d]) ELSE Jtag!Rep(chain[d], 1)
    BY <1>1 DEF Selection
  <2> QED BY <2>2, <2>3
<1> QED BY <1>1, <1>2 DEF Selected

(* Sums of those lengths.                                                  *)
SelectedSum(n, K) == [i \in 0..Len(chain) |-> IF i < n THEN i ELSE i - 1 + K]

LEMMA SelectedSums ==
    ASSUME NEW n \in 1..Len(chain), Len(chain) \in Nat, NEW K \in Nat, NEW d,
           \A i \in 1..Len(chain) : d[i] = IF i = n THEN K ELSE 1
    PROVE  /\ SumsOf(SelectedSum(n, K), d, Len(chain)) /\ Jtag!Before(d, n) = n - 1
           /\ SelectedSum(n, K)[n - 1] = n - 1 /\ SelectedSum(n, K)[Len(chain)] = Len(chain) - 1 + K
<1> DEFINE N == Len(chain)
           t == SelectedSum(n, K)
<1>1. N \in Nat /\ n \in 1..N /\ n \in 1..N + 1 /\ n - 1 \in 0..N /\ N \in 0..N /\ 0 \in 0..N
  OBVIOUS
<1>2. \A i \in 0..N : t[i] = IF i < n THEN i ELSE i - 1 + K
  BY DEF SelectedSum
<1>3. t \in [0..N -> Nat]
  <2>1. ASSUME NEW i \in 0..N PROVE (IF i < n THEN i ELSE i - 1 + K) \in Nat
    <3>1. i \in Nat /\ n \in Nat /\ n > 0 /\ K \in Nat
      OBVIOUS
    <3> QED BY ONLY <3>1
  <2> QED BY <2>1 DEF SelectedSum
<1> HIDE DEF N, t
<1>4. t[0] = 0 /\ t[n - 1] = n - 1 /\ t[N] = N - 1 + K
  <2>1. n \in Nat /\ n > 0 /\ n <= N
    BY <1>1
  <2> QED BY <1>1, <1>2, <2>1
<1>5. ASSUME NEW i \in 1..N PROVE t[i] = t[i - 1] + d[i]
  <2>1. i \in 0..N /\ i - 1 \in 0..N
    BY <1>1
  <2>2. d[i] = IF i = n THEN K ELSE 1
    BY DEF N
  <2>3. t[i] = (IF i < n THEN i ELSE i - 1 + K) /\ t[i - 1] = (IF i - 1 < n THEN i - 1 ELSE (i - 1) - 1 + K)
    BY <1>2, <2>1
  <2>4. i \in Nat /\ n \in Nat /\ K \in Nat
    BY <1>1
  <2> QED BY ONLY <2>2, <2>3, <2>4
<1>6. SumsOf(t, d, N)
  BY <1>3, <1>4, <1>5 DEF SumsOf
<1>7. Jtag!Before(d, n) = t[n - 1]
  BY <1>1, <1>6, BeforeAre
<1> QED BY <1>4, <1>6, <1>7 DEF N, t

(* What is captured: the bits of the device that is addressed lie behind   *)
(* one bit of each device before it.                                       *)
Loaded(c, dev, held, irs_, n, K) ==
    /\ Selected(irs_, n, K) /\ c.irs = irs_ /\ dev.index + 1 = n /\ held \in Seq(Bit) /\ Len(held) = K

LEMMA DrLoaded ==
    ASSUME NEW c, NEW dev, NEW held, NEW irs_, NEW n, NEW K, Loaded(c, dev, held, irs_, n, K), NEW q,
           q = Jtag!FlattenSeq([d \in Jtag!Devices |-> Jtag!Captured(c, dev, held)[d]])
    PROVE  /\ q \in Seq(Bit) /\ Len(q) = Len(chain) - 1 + K
           /\ \A j \in 1..K : q[n - 1 + j] = held[j]
<1> DEFINE N == Len(chain)
           parts == [d \in 1..N |-> IF d = n THEN held ELSE Jtag!Rep(1, 0)]
           lens == [i \in 1..N |-> Len(parts[i])]
<1>1. /\ n \in 1..N /\ K \in Nat /\ N \in Nat /\ N > 0 /\ Jtag!Devices = 1..N
      /\ \A d \in 1..N : Jtag!DrLength(irs_[d]) = IF d = n THEN K ELSE 1
      /\ c.irs = irs_ /\ dev.index + 1 = n /\ held \in Seq(Bit) /\ Len(held) = K
  BY DEF Loaded, Selected
<1>2. q = Jtag!FlattenSeq(parts)
  <2>1. ASSUME NEW d \in 1..N PROVE Jtag!Captured(c, dev, held)[d] = parts[d]
    <3>1. Jtag!Captured(c, dev, held)[d] = IF d = n THEN held ELSE Jtag!Rep(Jtag!DrLength(irs_[d]), 0)
      BY <1>1 DEF Jtag!Captured
    <3> QED BY <1>1, <3>1
  <2>2. [d \in Jtag!Devices |-> Jtag!Captured(c, dev, held)[d]] = parts
    BY <1>1, <2>1
  <2> QED BY <2>2
<1>3. \A d \in 1..N : parts[d] \in Seq(Bit) /\ Len(parts[d]) = IF d = n THEN K ELSE 1
  <2>1. Jtag!Rep(1, 0) \in Seq(Bit) /\ Len(Jtag!Rep(1, 0)) = 1
    <3>1. 0 \in Bit /\ 1 \in Nat
      BY DEF Bit
    <3> QED BY ONLY Zenon, <3>1, RepIs
  <2> QED BY Zenon, <1>1, <2>1
<1>4. parts \in Seq(Seq(Bit)) /\ Len(parts) = N
  <2>1. N \in Nat
    BY <1>1
  <2> HIDE DEF N
  <2>2. parts \in [1..N -> Seq(Bit)]
    BY <1>3
  <2>3. parts \in Seq(Seq(Bit))
    BY <2>1, <2>2, SeqDef
  <2> QED BY <2>1, <2>3
<1>5. \A i \in 1..N : lens[i] = IF i = n THEN K ELSE 1
  BY <1>3
<1>6. /\ SumsOf(SelectedSum(n, K), lens, N)
      /\ SelectedSum(n, K)[n - 1] = n - 1 /\ SelectedSum(n, K)[N] = N - 1 + K
  <2> HIDE DEF lens
  <2> QED BY <1>1, <1>5, SelectedSums
<1>7. parts[n] = held
  BY <1>1
<1>8. /\ Jtag!FlattenSeq(parts) \in Seq(Bit) /\ Len(Jtag!FlattenSeq(parts)) = SelectedSum(n, K)[N]
      /\ \A d \in 1..N : \A j \in 1..Len(parts[d]) :
             Jtag!FlattenSeq(parts)[SelectedSum(n, K)[d - 1] + j] = parts[d][j]
  <2>1. N \in Nat \ {0}
    BY <1>1
  <2>2. PICK s : s = SelectedSum(n, K)
    OBVIOUS
  <2> HIDE DEF N, parts
  <2>3. SumsOf(s, [i \in 1..N |-> Len(parts[i])], N)
    BY <1>6, <2>2 DEF lens
  <2>4. /\ Jtag!FlattenSeq(parts) \in Seq(Bit) /\ Len(Jtag!FlattenSeq(parts)) = s[N]
        /\ \A d \in 1..N : \A j \in 1..Len(parts[d]) : Jtag!FlattenSeq(parts)[s[d - 1] + j] = parts[d][j]
    <3>1. Joining(parts, Bit, s, N)
      BY <1>4, <2>1, <2>3 DEF Joining
    <3> QED BY ONLY <3>1, JoinedIs
  <2> QED BY <2>2, <2>4
<1> HIDE DEF N, parts
<1>9. \A j \in 1..K : Jtag!FlattenSeq(parts)[n - 1 + j] = held[j]
  BY Zenon, <1>1, <1>6, <1>7, <1>8
<1> QED BY Zenon, <1>2, <1>6, <1>8, <1>9 DEF N

(* What the device takes when the scan ends.                               *)
TakenFrom(v, q, irs_, n, K) ==
    /\ Selected(irs_, n, K) /\ \A j \in 1..K : q[n - 1 + j] \in Bit
    /\ v = Jtag!Section(q, [i \in Jtag!Devices |-> Jtag!DrLength(irs_[i])], n)

LEMMA DrTaken ==
    ASSUME NEW v, NEW q, NEW irs_, NEW n, NEW K, TakenFrom(v, q, irs_, n, K)
    PROVE  v \in Seq(Bit) /\ Len(v) = K /\ \A j \in 1..K : v[j] = q[n - 1 + j]
<1>0. /\ Selected(irs_, n, K) /\ \A j \in 1..K : q[n - 1 + j] \in Bit
      /\ v = Jtag!Section(q, [i \in Jtag!Devices |-> Jtag!DrLength(irs_[i])], n)
  BY DEF TakenFrom
<1> USE <1>0
<1> DEFINE lens == [i \in Jtag!Devices |-> Jtag!DrLength(irs_[i])]
<1>1. /\ n \in 1..Len(chain) /\ K \in Nat /\ Len(chain) \in Nat
      /\ \A i \in 1..Len(chain) : lens[i] = IF i = n THEN K ELSE 1
  BY DEF Selected
<1> HIDE DEF lens
<1>2. Jtag!Before(lens, n) = n - 1 /\ lens[n] = K
  BY <1>1, SelectedSums
<1>3. /\ Jtag!Before(lens, n) \in Nat /\ lens[n] \in Nat
      /\ \A i \in 1..lens[n] : q[Jtag!Before(lens, n) + i] \in Bit
  <2>1. n - 1 \in Nat /\ K \in Nat
    BY <1>1
  <2> QED BY <1>2, <2>1
<1>4. /\ Jtag!Section(q, lens, n) \in Seq(Bit) /\ Len(Jtag!Section(q, lens, n)) = lens[n]
      /\ \A i \in 1..lens[n] : Jtag!Section(q, lens, n)[i] = q[Jtag!Before(lens, n) + i]
  BY ONLY <1>3, SectionIs
<1>5. v = Jtag!Section(q, lens, n)
  BY DEF lens
<1> QED BY Zenon, <1>2, <1>4, <1>5

(* The clocks of a data scan: to Shift-DR and past the devices before.     *)
LEMMA HeadClocks ==
    ASSUME NEW n \in Nat \ {0}, NEW dev, dev.index + 1 = n, dev.index \in Nat
    PROVE  /\ Jtag!DrHead(dev) \in Seq(Pair) /\ Len(Jtag!DrHead(dev)) = n + 2
           /\ Jtag!DrHead(dev)[1] = << 1, 1 >> /\ Jtag!DrHead(dev)[2] = << 0, 1 >>
           /\ Jtag!DrHead(dev)[3] = << 0, 1 >>
           /\ \A j \in 1..n - 1 : Jtag!DrHead(dev)[3 + j] = << 0, 1 >>
<1> DEFINE head == << <<1, 1>>, <<0, 1>>, <<0, 1>> >>
           ones == Jtag!Rep(n - 1, << 0, 1 >>)
<1>1. head \in Seq(Pair) /\ Len(head) = 3 /\ head[1] = << 1, 1 >> /\ head[2] = << 0, 1 >> /\ head[3] = << 0, 1 >>
  BY DEF Pair, Bit
<1>2. ones \in Seq(Pair) /\ Len(ones) = n - 1 /\ \A i \in 1..n - 1 : ones[i] = << 0, 1 >>
  <2>1. << 0, 1 >> \in Pair /\ n - 1 \in Nat
    BY DEF Pair, Bit
  <2> QED BY Zenon, <2>1, RepIs
<1>3. Jtag!DrHead(dev) = head \o ones
  <2>1. dev.index = n - 1
    OBVIOUS
  <2> QED BY <2>1 DEF Jtag!DrHead
<1> HIDE DEF head, ones
<1>4. /\ head \o ones \in Seq(Pair) /\ Len(head \o ones) = Len(head) + Len(ones)
      /\ \A i \in 1..Len(head) : (head \o ones)[i] = head[i]
      /\ \A i \in 1..Len(ones) : (head \o ones)[Len(head) + i] = ones[i]
  <2>1. head \in Seq(Pair) /\ ones \in Seq(Pair)
    BY <1>1, <1>2
  <2> QED BY ONLY <2>1, JoinIs
<1>5. 1 \in 1..3 /\ 2 \in 1..3 /\ 3 \in 1..3 /\ 3 + (n - 1) = n + 2
  OBVIOUS
<1> QED BY Zenon, <1>1, <1>2, <1>3, <1>4, <1>5

LEMMA UpdateIs ==
    /\ Jtag!Update \in Seq(Pair) /\ Len(Jtag!Update) = 2
    /\ Jtag!Update[1] = << 1, 1 >> /\ Jtag!Update[2] = << 0, 1 >>
BY DEF Jtag!Update, Pair, Bit

LEMMA WordIs == ASSUME Jtag!ScanAssumption, NEW w \in Words PROVE w \in Seq(Bit) /\ Len(w) = W
BY DEF Jtag!ScanAssumption, Bit

(* The bits of a data scan: ones for the devices before, then those of the *)
(* scan itself.                                                            *)
HeadBits(n, e, m) == [j \in 1..n - 1 + m |-> IF j <= n - 1 THEN 1 ELSE e[j - (n - 1)]]

Clocked(body, m, e, end) ==
    /\ body \in Seq(Pair) /\ Len(body) = m /\ m \in Nat \ {0} /\ end \in Bit
    /\ \A j \in 1..m : e[j] \in Bit /\ body[j] = << IF j = m THEN end ELSE 0, e[j] >>

DrClocks(q, n, m, e, end) ==
    /\ n \in Nat \ {0} /\ m \in Nat \ {0} /\ end \in Bit
    /\ q[1] = << 1, 1 >> /\ q[2] = << 0, 1 >> /\ q[3] = << 0, 1 >>
    /\ \A j \in 1..n - 1 + m :
          /\ HeadBits(n, e, m)[j] \in Bit
          /\ q[3 + j] = << IF j = n - 1 + m THEN end ELSE 0, HeadBits(n, e, m)[j] >>

Headed(q, dev, n, body, m, e, end) ==
    /\ n \in Nat \ {0} /\ dev.index + 1 = n /\ dev.index \in Nat
    /\ Clocked(body, m, e, end) /\ q = Jtag!DrHead(dev) \o body

LEMMA HeadBody ==
    ASSUME NEW q, NEW dev, NEW n, NEW body, NEW m, NEW e, NEW end, Headed(q, dev, n, body, m, e, end)
    PROVE  q \in Seq(Pair) /\ Len(q) = 3 + (n - 1 + m) /\ DrClocks(q, n, m, e, end)
<1>0. /\ n \in Nat \ {0} /\ dev.index + 1 = n /\ dev.index \in Nat
      /\ Clocked(body, m, e, end) /\ q = Jtag!DrHead(dev) \o body
  BY DEF Headed
<1> USE <1>0
<1> DEFINE head == Jtag!DrHead(dev)
<1>1. /\ head \in Seq(Pair) /\ Len(head) = n + 2
      /\ head[1] = << 1, 1 >> /\ head[2] = << 0, 1 >> /\ head[3] = << 0, 1 >>
      /\ \A j \in 1..n - 1 : head[3 + j] = << 0, 1 >>
  BY Zenon, HeadClocks
<1>2. /\ body \in Seq(Pair) /\ Len(body) = m /\ m \in Nat /\ m > 0 /\ end \in Bit
      /\ \A j \in 1..m : e[j] \in Bit /\ body[j] = << IF j = m THEN end ELSE 0, e[j] >>
  <2>1. Clocked(body, m, e, end)
    OBVIOUS
  <2>2. /\ body \in Seq(Pair) /\ Len(body) = m /\ m \in Nat \ {0} /\ end \in Bit
        /\ \A j \in 1..m : e[j] \in Bit /\ body[j] = << IF j = m THEN end ELSE 0, e[j] >>
    BY ONLY <2>1 DEF Clocked
  <2> QED BY ONLY <2>2
<1> HIDE DEF head
<1>3. /\ q \in Seq(Pair) /\ Len(q) = n + 2 + m
      /\ \A i \in 1..n + 2 : q[i] = head[i]
      /\ \A i \in 1..m : q[n + 2 + i] = body[i]
  <2>1. head \in Seq(Pair) /\ body \in Seq(Pair)
    BY <1>1, <1>2
  <2>2. /\ head \o body \in Seq(Pair) /\ Len(head \o body) = Len(head) + Len(body)
        /\ \A i \in 1..Len(head) : (head \o body)[i] = head[i]
        /\ \A i \in 1..Len(body) : (head \o body)[Len(head) + i] = body[i]
    BY ONLY <2>1, JoinIs
  <2>3. q = head \o body
    BY DEF head
  <2> QED BY Zenon, <1>1, <1>2, <2>2, <2>3
<1>4. n + 2 + m = 3 + (n - 1 + m) /\ 1 \in 1..n + 2 /\ 2 \in 1..n + 2 /\ 3 \in 1..n + 2
  BY <1>2
<1>5. ASSUME NEW j \in 1..n - 1 + m
      PROVE  /\ HeadBits(n, e, m)[j] \in Bit
             /\ q[3 + j] = << IF j = n - 1 + m THEN end ELSE 0, HeadBits(n, e, m)[j] >>
  <2>0. HeadBits(n, e, m)[j] = IF j <= n - 1 THEN 1 ELSE e[j - (n - 1)]
    BY DEF HeadBits
  <2>1. CASE j <= n - 1
    <3>1. j \in 1..n - 1 /\ 3 + j \in 1..n + 2 /\ j # n - 1 + m
      <4>1. j \in 1..n - 1 + m /\ n \in Nat /\ n > 0 /\ m \in Nat /\ m > 0
        BY <1>2
      <4> QED BY ONLY <2>1, <4>1
    <3>2. q[3 + j] = head[3 + j] /\ head[3 + j] = << 0, 1 >>
      BY Zenon, <1>1, <1>3, <3>1
    <3> QED BY <2>0, <2>1, <3>1, <3>2 DEF Bit
  <2>2. CASE ~(j <= n - 1)
    <3> DEFINE i == j - (n - 1)
    <3>1. i \in 1..m /\ n + 2 + i = 3 + j /\ (i = m <=> j = n - 1 + m)
      <4>1. j \in 1..n - 1 + m /\ n \in Nat /\ n > 0 /\ m \in Nat /\ m > 0
        BY <1>2
      <4> QED BY ONLY <2>2, <4>1
    <3> HIDE DEF i
    <3>2. q[3 + j] = body[i] /\ e[i] \in Bit /\ body[i] = << IF i = m THEN end ELSE 0, e[i] >>
      BY <1>2, <1>3, <3>1
    <3>3. HeadBits(n, e, m)[j] = e[i]
      BY <2>0, <2>2 DEF i
    <3> QED BY <3>1, <3>2, <3>3
  <2> QED BY Zenon, <2>1, <2>2
<1>6. DrClocks(q, n, m, e, end)
  <2>1. q[1] = << 1, 1 >> /\ q[2] = << 0, 1 >> /\ q[3] = << 0, 1 >>
    BY Zenon, <1>1, <1>3, <1>4
  <2>2. n \in Nat \ {0} /\ m \in Nat \ {0} /\ end \in Bit
    BY <1>2
  <2>3. \A j \in 1..n - 1 + m :
          /\ HeadBits(n, e, m)[j] \in Bit
          /\ q[3 + j] = << IF j = n - 1 + m THEN end ELSE 0, HeadBits(n, e, m)[j] >>
    BY Zenon, <1>5
  <2> QED BY ONLY <2>1, <2>2, <2>3 DEF DrClocks
<1> QED BY <1>3, <1>4, <1>6

(* Behind a scan come two clocks, to Update and to Idle.                   *)
LEMMA WithUpdate ==
    ASSUME NEW q \in Seq(Pair), NEW p, p = q \o Jtag!Update
    PROVE  /\ p \in Seq(Pair) /\ Len(p) = Len(q) + 2
           /\ \A i \in 1..Len(q) : p[i] = q[i]
           /\ p[Len(q) + 1] = << 1, 1 >> /\ p[Len(q) + 2] = << 0, 1 >>
<1> DEFINE u == Jtag!Update
<1>1. u \in Seq(Pair) /\ Len(u) = 2 /\ u[1] = << 1, 1 >> /\ u[2] = << 0, 1 >>
  BY UpdateIs
<1> HIDE DEF u
<1>2. /\ q \o u \in Seq(Pair) /\ Len(q \o u) = Len(q) + Len(u)
      /\ \A i \in 1..Len(q) : (q \o u)[i] = q[i]
      /\ \A i \in 1..Len(u) : (q \o u)[Len(q) + i] = u[i]
  <2>1. q \in Seq(Pair) /\ u \in Seq(Pair)
    BY <1>1
  <2> QED BY ONLY <2>1, JoinIs
<1>3. 1 \in 1..Len(u) /\ 2 \in 1..Len(u)
  BY <1>1
<1>4. p = q \o u
  BY DEF u
<1> QED BY <1>1, <1>2, <1>3, <1>4

(* The shift of a data scan, from Idle on.                                 *)
Scanning(r, q, len, captured, c, dev, held, irs_, n, K, m, e, end) ==
    /\ Loaded(c, dev, held, irs_, n, K) /\ r[0].tap = "Idle" /\ r[0].irs = c.irs
    /\ captured = Jtag!Captured(c, dev, held) /\ K > 0
    /\ DrClocks(q, n, m, e, end) /\ len \in Nat /\ len >= 3 + (n - 1 + m)
    /\ \A i \in 1..len : r[i] = Jtag!Clock(r[i - 1], q[i], captured)

LEMMA DrShift ==
    ASSUME NEW r, NEW q, NEW len, NEW captured, NEW c, NEW dev, NEW held, NEW irs_, NEW n, NEW K, NEW m,
           NEW e, NEW end, Scanning(r, q, len, captured, c, dev, held, irs_, n, K, m, e, end)
    PROVE  /\ r[3].sr \in Seq(Bit) /\ Len(r[3].sr) = Len(chain) - 1 + K
           /\ \A j \in 1..K : r[3].sr[n - 1 + j] = held[j]
           /\ r[3].irs = r[0].irs /\ r[3].out = r[0].out /\ r[3].update = r[0].update
           /\ Shifted(r[3], HeadBits(n, e, m), Len(chain) - 1 + K, n - 1 + m, r[3 + (n - 1 + m)])
           /\ r[3 + (n - 1 + m)].tap = IF end = 1 THEN "Exit1DR" ELSE "ShiftDR"
<1> DEFINE t == n - 1 + m
           L == Len(chain) - 1 + K
           bits == HeadBits(n, e, m)
<1>1. /\ Loaded(c, dev, held, irs_, n, K) /\ r[0].tap = "Idle" /\ r[0].irs = c.irs
      /\ captured = Jtag!Captured(c, dev, held) /\ K > 0 /\ len \in Nat /\ len >= 3 + t
      /\ \A i \in 1..len : r[i] = Jtag!Clock(r[i - 1], q[i], captured)
  BY DEF Scanning
<1>2. /\ n \in Nat \ {0} /\ m \in Nat \ {0} /\ end \in Bit
      /\ q[1] = << 1, 1 >> /\ q[2] = << 0, 1 >> /\ q[3] = << 0, 1 >>
      /\ \A j \in 1..t : bits[j] \in Bit /\ q[3 + j] = << IF j = t THEN end ELSE 0, bits[j] >>
  BY DEF Scanning, DrClocks
<1>3. t \in Nat \ {0} /\ L \in Nat \ {0}
  <2>1. Len(chain) \in Nat /\ n \in 1..Len(chain) /\ K \in Nat /\ K > 0
    BY <1>1 DEF Loaded, Selected
  <2>2. n \in Nat \ {0} /\ m \in Nat \ {0}
    BY <1>2
  <2>3. n - 1 + m \in Nat \ {0} /\ Len(chain) - 1 + K \in Nat \ {0}
    BY ONLY <2>1, <2>2
  <2> QED BY <2>3
<1> HIDE DEF t, L, bits
<1>4. /\ r[1] = Jtag!Clock(r[0], << 1, 1 >>, captured) /\ r[2] = Jtag!Clock(r[1], << 0, 1 >>, captured)
      /\ r[3] = Jtag!Clock(r[2], << 0, 1 >>, captured)
  <2>1. \A i \in 1..3 : i \in 1..len
    BY <1>1, <1>3
  <2>2. \A i \in 1..3 : r[i] = Jtag!Clock(r[i - 1], q[i], captured)
    BY <1>1, <2>1
  <2>3. 1 \in 1..3 /\ 2 \in 1..3 /\ 3 \in 1..3 /\ 1 - 1 = 0 /\ 2 - 1 = 1 /\ 3 - 1 = 2
    OBVIOUS
  <2> QED BY <1>2, <2>2, <2>3
<1>5. /\ r[3].tap = "ShiftDR" /\ r[3].irs = r[0].irs /\ r[3].update = r[0].update /\ r[3].out = r[0].out
      /\ r[3].sr = Jtag!FlattenSeq([d \in Jtag!Devices |-> captured[d]])
  BY <1>1, <1>4, DrStart
<1>6. /\ r[3].sr \in Seq(Bit) /\ Len(r[3].sr) = L
      /\ \A j \in 1..K : r[3].sr[n - 1 + j] = held[j]
  <2>1. r[3].sr = Jtag!FlattenSeq([d \in Jtag!Devices |-> Jtag!Captured(c, dev, held)[d]])
    BY <1>1, <1>5
  <2> QED BY <1>1, <2>1, DrLoaded DEF L
<1>7. Shifted(r[3], bits, L, t, r[3 + t]) /\ r[3 + t].tap = IF t > 0 /\ end = 1 THEN ExitOf(r[3].tap) ELSE r[3].tap
  <2>1. r[3].tap \in Shift /\ 3 \in Nat /\ t \in Nat
    BY <1>3, <1>5 DEF Shift
  <2>2. \A j \in 1..t : r[3 + j] = Jtag!Clock(r[3 + j - 1], q[3 + j], captured)
    <3> SUFFICES ASSUME NEW j \in 1..t PROVE r[3 + j] = Jtag!Clock(r[3 + j - 1], q[3 + j], captured)
      OBVIOUS
    <3>1. 3 + j \in 1..len
      BY <1>1, <1>3
    <3> QED BY <1>1, <3>1
  <2>3. Shifting(r, 3, t, q, captured, bits, L, end)
    BY Zenon, <1>2, <1>3, <1>6, <2>1, <2>2 DEF Shifting
  <2> QED BY ONLY <2>3, Shifts
<1>8. r[3 + t].tap = IF end = 1 THEN "Exit1DR" ELSE "ShiftDR"
  BY <1>3, <1>5, <1>7 DEF ExitOf
<1> QED BY <1>5, <1>6, <1>7, <1>8 DEF t, L, bits

(* A whole data scan, from Idle to Idle.                                   *)
FullScan(body, m, e, p, c, to, c1, dev, held, irs_, n, K) ==
    /\ Clocked(body, m, e, 1) /\ p = Jtag!DrHead(dev) \o body \o Jtag!Update
    /\ c.tap = "Idle" /\ c.irs = c1.irs /\ K > 0 /\ Loaded(c1, dev, held, irs_, n, K) /\ dev.index \in Nat
    /\ to = Jtag!Run(c, p, Jtag!Captured(c1, dev, held))

LEMMA FullScans ==
    ASSUME NEW body, NEW m, NEW e, NEW p, NEW c, NEW to, NEW c1, NEW dev, NEW held, NEW irs_, NEW n, NEW K,
           FullScan(body, m, e, p, c, to, c1, dev, held, irs_, n, K)
    PROVE  /\ Context(to) /\ to.tap = "Idle" /\ to.irs = c.irs
           /\ c.out = << >> /\ n - 1 + m <= Len(chain) - 1 + K =>
                 /\ to.out \in Seq(Bit) /\ Len(to.out) = n - 1 + m
                 /\ \A k \in 1..K : k <= m => to.out[n - 1 + k] = held[k]
           /\ n - 1 + m = Len(chain) - 1 + K =>
                 /\ to.update[n] \in Seq(Bit) /\ Len(to.update[n]) = K
                 /\ \A k \in 1..K : k <= m /\ to.update[n][k] = e[k]
<1> DEFINE t == n - 1 + m
           L == Len(chain) - 1 + K
           bits == HeadBits(n, e, m)
           q == Jtag!DrHead(dev) \o body
           captured == Jtag!Captured(c1, dev, held)
           len == Len(q) + 2
<1>1. /\ Clocked(body, m, e, 1) /\ p = q \o Jtag!Update
      /\ c.tap = "Idle" /\ c.irs = c1.irs /\ K > 0 /\ Loaded(c1, dev, held, irs_, n, K) /\ dev.index \in Nat
      /\ to = Jtag!Run(c, p, captured)
  BY DEF FullScan
<1>2. /\ n \in 1..Len(chain) /\ K \in Nat /\ Len(chain) \in Nat /\ Jtag!Devices = 1..Len(chain)
      /\ dev.index + 1 = n /\ n \in Nat \ {0} /\ Selected(irs_, n, K) /\ c1.irs = irs_
      /\ m \in Nat \ {0} /\ \A j \in 1..m : e[j] \in Bit
  BY <1>1 DEF Loaded, Selected, Clocked
<1>3. q \in Seq(Pair) /\ Len(q) = 3 + t /\ DrClocks(q, n, m, e, 1)
  <2>1. Headed(q, dev, n, body, m, e, 1)
    BY <1>1, <1>2 DEF Headed
  <2> QED BY Zenon, <2>1, HeadBody
<1>4. /\ p \in Seq(Pair) /\ Len(p) = len /\ \A i \in 1..Len(q) : p[i] = q[i]
      /\ p[Len(q) + 1] = << 1, 1 >> /\ p[Len(q) + 2] = << 0, 1 >>
  BY Zenon, <1>1, <1>3, WithUpdate
<1>5. t \in Nat \ {0} /\ L \in Nat \ {0} /\ len = 3 + t + 2
  <2>1. n - 1 + m \in Nat \ {0}
    BY <1>2
  <2>2. Len(chain) \in Nat /\ n \in 1..Len(chain) /\ K \in Nat /\ K > 0
    BY <1>1, <1>2
  <2>3. Len(chain) - 1 + K \in Nat \ {0}
    BY ONLY <2>2
  <2> QED BY <1>3, <2>1, <2>3
<1> HIDE DEF q, len, captured
<1>6. DrClocks(p, n, m, e, 1)
  <2> HIDE DEF t, bits
  <2>1. \A i \in 1..3 + t : p[i] = q[i]
    BY <1>3, <1>4
  <2>2. /\ q[1] = << 1, 1 >> /\ q[2] = << 0, 1 >> /\ q[3] = << 0, 1 >>
        /\ \A j \in 1..t : bits[j] \in Bit /\ q[3 + j] = << IF j = t THEN 1 ELSE 0, bits[j] >>
    BY Zenon, <1>3 DEF DrClocks, t, bits
  <2>3. 1 \in 1..3 + t /\ 2 \in 1..3 + t /\ 3 \in 1..3 + t /\ \A j \in 1..t : 3 + j \in 1..3 + t
    BY <1>5
  <2>4. p[1] = << 1, 1 >> /\ p[2] = << 0, 1 >> /\ p[3] = << 0, 1 >>
    BY <2>1, <2>2, <2>3
  <2>5. \A j \in 1..t : bits[j] \in Bit /\ p[3 + j] = << IF j = t THEN 1 ELSE 0, bits[j] >>
    BY <2>1, <2>2, <2>3
  <2>6. n \in Nat \ {0} /\ m \in Nat \ {0} /\ 1 \in Bit
    BY <1>2 DEF Bit
  <2> QED BY <2>4, <2>5, <2>6 DEF DrClocks, t, bits
<1>7. PICK r : RunOf(r, c, p, captured) /\ to = r[len]
  <2>1. Len(p) \in Nat
    BY <1>4, <1>5
  <2>2. \E r : RunOf(r, c, p, captured) /\ Jtag!Run(c, p, captured) = r[Len(p)]
    BY <2>1, RunIs
  <2> QED BY <1>1, <1>4, <2>2
<1>8. r[0] = c /\ \A i \in 1..len : r[i] = Jtag!Clock(r[i - 1], p[i], captured)
  BY <1>4, <1>7 DEF RunOf
<1>9. Scanning(r, p, len, captured, c1, dev, held, irs_, n, K, m, e, 1)
  <2>1. len \in Nat /\ len >= 3 + t
    BY <1>5
  <2> QED BY Zenon, <1>1, <1>6, <1>8, <2>1 DEF Scanning, captured
<1> DEFINE x == r[3 + t]
<1>10. /\ r[3].sr \in Seq(Bit) /\ Len(r[3].sr) = L
       /\ \A j \in 1..K : r[3].sr[n - 1 + j] = held[j]
       /\ r[3].irs = r[0].irs /\ r[3].out = r[0].out
       /\ Shifted(r[3], bits, L, t, x) /\ x.tap = "Exit1DR"
  BY <1>9, DrShift
<1> HIDE DEF t, L, bits
<1>11. /\ Context(to) /\ to.tap = "Idle" /\ to.out = x.out /\ to.irs = x.irs
       /\ to.update = [d \in Jtag!Devices |-> Jtag!Section(x.sr, [i \in Jtag!Devices |-> Jtag!DrLength(x.irs[i])], d)]
  <2>1. PICK f, g : /\ f = 3 + t + 1 /\ g = 3 + t + 2 /\ f - 1 = 3 + t /\ g - 1 = f /\ g = len
                    /\ p[f] = << 1, 1 >> /\ p[g] = << 0, 1 >> /\ f \in 1..len /\ g \in 1..len
    BY <1>3, <1>4, <1>5
  <2>2. r[f] = Jtag!Clock(r[f - 1], p[f], captured) /\ r[g] = Jtag!Clock(r[g - 1], p[g], captured)
    BY <1>8, <2>1
  <2>3. r[f] = Jtag!Clock(x, << 1, 1 >>, captured) /\ to = Jtag!Clock(r[f], << 0, 1 >>, captured)
    BY <1>7, <2>1, <2>2
  <2>4. Ending(x, r[f], to, captured)
    BY <1>10, <2>3 DEF Ending
  <2> QED BY <1>10, <2>4, EndsDr
<1>12. x.irs = irs_ /\ to.irs = c.irs
  BY <1>1, <1>2, <1>8, <1>10, <1>11 DEF Shifted
<1>13. ASSUME c.out = << >>, t <= L
       PROVE  /\ to.out \in Seq(Bit) /\ Len(to.out) = t
              /\ \A k \in 1..K : k <= m => to.out[n - 1 + k] = held[k]
  <2>1. /\ to.out \in Seq(Bit) /\ Len(to.out) = t
        /\ \A k \in 1..t : to.out[k] = IF k <= L THEN r[3].sr[k] ELSE bits[k - L]
    BY <1>8, <1>10, <1>11, <1>13 DEF Shifted
  <2>2. ASSUME NEW k \in 1..K, k <= m PROVE to.out[n - 1 + k] = held[k]
    <3>1. n - 1 + k \in 1..t /\ n - 1 + k <= L
      <4>1. k \in 1..K /\ k <= m /\ n \in Nat /\ n > 0 /\ K \in Nat /\ m \in Nat /\ t = n - 1 + m /\ t <= L /\ L \in Nat
        BY <1>2, <1>5, <1>13, <2>2 DEF t
      <4> QED BY ONLY <4>1
    <3> QED BY Zenon, <1>10, <2>1, <3>1
  <2> QED BY <2>1, <2>2
<1>14. ASSUME t = L
       PROVE  /\ to.update[n] \in Seq(Bit) /\ Len(to.update[n]) = K
              /\ \A k \in 1..K : k <= m /\ to.update[n][k] = e[k]
  <2>1. to.update[n] = Jtag!Section(x.sr, [i \in Jtag!Devices |-> Jtag!DrLength(irs_[i])], n)
    BY <1>2, <1>11, <1>12
  <2>2. ASSUME NEW k \in 1..K PROVE k <= m /\ x.sr[n - 1 + k] = e[k] /\ e[k] \in Bit
    <3> DEFINE j == n - 1 + k
    <3>0. /\ k \in 1..K /\ n \in Nat /\ n > 0 /\ m \in Nat /\ n - 1 + m = Len(chain) - 1 + K /\ Len(chain) \in Nat
          /\ n <= Len(chain) /\ K \in Nat /\ t = n - 1 + m /\ t = L
      BY <1>2, <1>14 DEF t, L
    <3>1. k <= m /\ k \in 1..m /\ j \in 1..L /\ j \in 1..t /\ ~(t + j <= L) /\ t + j - L = j /\ ~(j <= n - 1)
          /\ j - (n - 1) = k
      BY ONLY <3>0
    <3> HIDE DEF j
    <3>2. x.sr[j] = bits[t + j - L]
      BY <1>10, <3>1 DEF Shifted
    <3>3. bits[j] = e[k]
      BY <3>1 DEF bits, HeadBits, t
    <3> QED BY <1>2, <3>1, <3>2, <3>3 DEF j
  <2>3. \A k \in 1..K : x.sr[n - 1 + k] \in Bit
    BY <2>2
  <2>4. /\ to.update[n] \in Seq(Bit) /\ Len(to.update[n]) = K
        /\ \A k \in 1..K : to.update[n][k] = x.sr[n - 1 + k]
    <3>1. TakenFrom(to.update[n], x.sr, irs_, n, K)
      BY Zenon, <1>2, <2>1, <2>3 DEF TakenFrom
    <3> QED BY <3>1, DrTaken
  <2> QED BY <2>2, <2>4
<1> QED BY Zenon, <1>11, <1>12, <1>13, <1>14 DEF t, L

(* A word and a bit for each device behind, with TMS high in the last.     *)
DataBits(sent, be) == [j \in 1..W + be |-> IF j <= W THEN sent[j] ELSE 1]

LEMMA DataIs ==
    ASSUME W \in Nat \ {0}, NEW sent \in Seq(Bit), Len(sent) = W, NEW be \in Nat
    PROVE  Clocked(Jtag!Exit(Jtag!Tdi(sent), be), W + be, DataBits(sent, be), 1)
<1> DEFINE q == Jtag!Tdi(sent)
           body == Jtag!Exit(q, be)
           e == DataBits(sent, be)
<1>1. q \in Seq(Pair) /\ Len(q) = W /\ \A i \in 1..W : sent[i] \in Bit /\ q[i] = << 0, sent[i] >>
  BY TdiIs
<1>2. q # << >> /\ \A i \in 1..Len(q) : q[i][1] = 0
  BY <1>1
<1> HIDE DEF q
<1>3. /\ body \in Seq(Pair) /\ Len(body) = W + be
      /\ \A i \in 1..W + be : body[i] = << IF i = W + be THEN 1 ELSE 0, IF i <= W THEN q[i][2] ELSE 1 >>
  <2>1. q \in Seq(Pair)
    BY <1>1
  <2>2. /\ body \in Seq(Pair) /\ Len(body) = Len(q) + be
        /\ \A i \in 1..Len(q) + be :
             body[i] = << IF i = Len(q) + be THEN 1 ELSE 0, IF i <= Len(q) THEN q[i][2] ELSE 1 >>
    BY Zenon, <1>2, <2>1, ExitIs
  <2> QED BY <1>1, <2>2
<1>4. ASSUME NEW j \in 1..W + be
      PROVE  e[j] \in Bit /\ body[j] = << IF j = W + be THEN 1 ELSE 0, e[j] >>
  <2>1. e[j] = IF j <= W THEN sent[j] ELSE 1
    BY DEF DataBits
  <2>2. CASE j <= W
    <3>1. j \in 1..W
      BY <2>2
    <3>2. q[j][2] = sent[j] /\ sent[j] \in Bit
      BY <1>1, <3>1
    <3> QED BY <1>3, <2>1, <2>2, <3>2
  <2>3. CASE ~(j <= W)
    BY <1>3, <2>1, <2>3 DEF Bit
  <2> QED BY <2>2, <2>3
<1>5. W + be \in Nat \ {0} /\ 1 \in Bit
  BY DEF Bit
<1> HIDE DEF body, e
<1> QED BY <1>3, <1>4, <1>5 DEF Clocked, body, e, q

(* A part of a sequence, element by element.                               *)
LEMMA PartIs ==
    ASSUME NEW q, NEW b \in Nat, NEW w \in Seq(Bit), \A k \in 1..Len(w) : q[b + k] = w[k],
           NEW f, NEW g, f = b + 1, g = b + Len(w)
    PROVE  SubSeq(q, f, g) = w
<1> DEFINE K == Len(w)
           v == SubSeq(q, f, g)
<1>1. K \in Nat /\ \A k \in 1..K : w[k] \in Bit
  BY ElementOfSeq
<1>2. ASSUME NEW i \in f..g PROVE q[i] \in Bit
  <2>1. i - b \in 1..K /\ b + (i - b) = i
    BY <1>1
  <2> QED BY Zenon, <1>1, <2>1
<1>3. f \in Int /\ g \in Int
  BY <1>1
<1>4. v \in Seq(Bit) /\ Len(v) = (IF f <= g THEN g - f + 1 ELSE 0) /\ \A i \in 1..g - f + 1 : v[i] = q[f + i - 1]
  BY <1>2, <1>3, SubSeqProperties
<1> HIDE DEF K, v
<1>5. g = b + K
  BY DEF K
<1>6. (IF f <= g THEN g - f + 1 ELSE 0) = K /\ g - f + 1 = K /\ \A i \in 1..K : f + i - 1 = b + i
  BY <1>1, <1>5
<1>7. Len(v) = K /\ \A i \in 1..K : v[i] = w[i]
  BY <1>4, <1>6 DEF K
<1>8. Len(v) = Len(w) /\ \A i \in 1..Len(v) : v[i] = w[i]
  BY Zenon, <1>7 DEF K
<1>9. v = w
  BY <1>4, <1>8, SeqEqual
<1> QED BY <1>9 DEF v

(* A scan that reads the word of the device.                               *)
IdcodeScan(c, to, c1, dev, held, irs_, n) ==
    /\ c.tap = "Idle" /\ c.irs = c1.irs /\ c.out = << >>
    /\ Loaded(c1, dev, held, irs_, n, W) /\ dev.index \in Nat
    /\ to = Jtag!Run(c, Jtag!DrHead(dev) \o Jtag!Exit(Jtag!Rep(W, << 0, 1 >>), 0) \o Jtag!Update,
                     Jtag!Captured(c1, dev, held))

LEMMA IdcodeScans ==
    ASSUME W \in Nat \ {0}, NEW c, NEW to, NEW c1, NEW dev, NEW held, NEW irs_, NEW n,
           IdcodeScan(c, to, c1, dev, held, irs_, n)
    PROVE  Context(to) /\ to.tap = "Idle" /\ to.irs = c.irs /\ Jtag!Word(to.out, dev.index) = held
<1> DEFINE q == Jtag!Rep(W, << 0, 1 >>)
           body == Jtag!Exit(q, 0)
           e == [j \in 1..W |-> 1]
<1>1. q \in Seq(Pair) /\ Len(q) = W /\ \A i \in 1..W : q[i] = << 0, 1 >>
  <2>1. << 0, 1 >> \in Pair /\ W \in Nat
    BY DEF Pair, Bit
  <2> QED BY Zenon, <2>1, RepIs
<1>2. q # << >> /\ \A i \in 1..Len(q) : q[i][1] = 0
  BY <1>1
<1> HIDE DEF q
<1>3. /\ body \in Seq(Pair) /\ Len(body) = W
      /\ \A i \in 1..W : body[i] = << IF i = W THEN 1 ELSE 0, 1 >>
  <2>1. q \in Seq(Pair) /\ 0 \in Nat
    BY <1>1
  <2>2. /\ body \in Seq(Pair) /\ Len(body) = Len(q) + 0
        /\ \A i \in 1..Len(q) + 0 :
             body[i] = << IF i = Len(q) + 0 THEN 1 ELSE 0, IF i <= Len(q) THEN q[i][2] ELSE 1 >>
    BY Zenon, <1>2, <2>1, ExitIs
  <2> QED BY <1>1, <2>2
<1>4. Clocked(body, W, e, 1)
  <2>1. 1 \in Bit /\ \A j \in 1..W : e[j] = 1
    BY DEF Bit
  <2> HIDE DEF body, e
  <2> QED BY <1>3, <2>1 DEF Clocked
<1> DEFINE p == Jtag!DrHead(dev) \o body \o Jtag!Update
<1>5. FullScan(body, W, e, p, c, to, c1, dev, held, irs_, n, W)
  BY <1>4 DEF FullScan, IdcodeScan, q
<1>6. n \in Nat \ {0} /\ dev.index = n - 1 /\ n <= Len(chain) /\ Len(chain) \in Nat /\ held \in Seq(Bit) /\ Len(held) = W
  BY DEF IdcodeScan, Loaded, Selected
<1>7. /\ Context(to) /\ to.tap = "Idle" /\ to.irs = c.irs
      /\ c.out = << >> /\ n - 1 + W <= Len(chain) - 1 + W =>
            /\ to.out \in Seq(Bit) /\ Len(to.out) = n - 1 + W
            /\ \A k \in 1..W : k <= W => to.out[n - 1 + k] = held[k]
  BY <1>5, FullScans
<1>8. \A k \in 1..Len(held) : to.out[n - 1 + k] = held[k]
  <2>1. c.out = << >>
    BY DEF IdcodeScan
  <2>2. n - 1 + W <= Len(chain) - 1 + W /\ \A k \in 1..W : k <= W
    BY <1>6
  <2> QED BY <1>6, <1>7, <2>1, <2>2
<1>9. SubSeq(to.out, n - 1 + 1, n - 1 + W) = held
  <2>1. n - 1 \in Nat
    BY <1>6
  <2> QED BY <1>6, <1>8, <2>1, PartIs
<1> QED BY <1>6, <1>7, <1>9 DEF Jtag!Word

(* Bits before bits.                                                       *)
JoinBits(a, k, b, m) == [j \in 1..k + m |-> IF j <= k THEN a[j] ELSE b[j - k]]

Joined(a, k, d, b, m, e, end) == Clocked(a, k, d, 0) /\ Clocked(b, m, e, end)

LEMMA JoinClocked ==
    ASSUME NEW a, NEW k, NEW d, NEW b, NEW m, NEW e, NEW end, Joined(a, k, d, b, m, e, end)
    PROVE  Clocked(a \o b, k + m, JoinBits(d, k, e, m), end)
<1> DEFINE q == a \o b
           f == JoinBits(d, k, e, m)
<1>1. /\ a \in Seq(Pair) /\ Len(a) = k /\ k \in Nat \ {0}
      /\ \A j \in 1..k : d[j] \in Bit /\ a[j] = << IF j = k THEN 0 ELSE 0, d[j] >>
  BY DEF Joined, Clocked
<1>2. /\ b \in Seq(Pair) /\ Len(b) = m /\ m \in Nat \ {0} /\ end \in Bit
      /\ \A j \in 1..m : e[j] \in Bit /\ b[j] = << IF j = m THEN end ELSE 0, e[j] >>
  BY DEF Joined, Clocked
<1>3. /\ q \in Seq(Pair) /\ Len(q) = Len(a) + Len(b)
      /\ \A i \in 1..Len(a) : q[i] = a[i]
      /\ \A i \in 1..Len(b) : q[Len(a) + i] = b[i]
  <2>1. a \in Seq(Pair) /\ b \in Seq(Pair)
    BY <1>1, <1>2
  <2> QED BY ONLY <2>1, JoinIs
<1> HIDE DEF q
<1>4. ASSUME NEW j \in 1..k + m PROVE f[j] \in Bit /\ q[j] = << IF j = k + m THEN end ELSE 0, f[j] >>
  <2>0. f[j] = IF j <= k THEN d[j] ELSE e[j - k]
    BY DEF JoinBits
  <2>1. CASE j <= k
    <3>1. j \in 1..k /\ j # k + m
      BY <1>1, <1>2, <2>1
    <3> QED BY <1>1, <1>3, <2>0, <2>1, <3>1
  <2>2. CASE ~(j <= k)
    <3> DEFINE i == j - k
    <3>1. i \in 1..m /\ k + i = j /\ (i = m <=> j = k + m)
      BY <1>1, <1>2, <2>2
    <3>2. q[k + i] = b[i] /\ e[i] \in Bit /\ b[i] = << IF i = m THEN end ELSE 0, e[i] >>
      BY <1>1, <1>2, <1>3, <3>1
    <3>3. f[j] = e[i]
      BY <2>0, <2>2
    <3> HIDE DEF i
    <3> QED BY <3>1, <3>2, <3>3
  <2> QED BY <2>1, <2>2
<1> HIDE DEF f
<1>5. k + m \in Nat \ {0} /\ Len(q) = k + m
  BY <1>1, <1>2, <1>3
<1> QED BY <1>2, <1>3, <1>4, <1>5 DEF Clocked, q, f

LEMMA TdiClocked ==
    ASSUME NEW bits \in Seq(Bit), NEW k \in Nat \ {0}, Len(bits) = k
    PROVE  Clocked(Jtag!Tdi(bits), k, bits, 0)
<1>1. /\ Jtag!Tdi(bits) \in Seq(Pair) /\ Len(Jtag!Tdi(bits)) = k
      /\ \A i \in 1..k : bits[i] \in Bit /\ Jtag!Tdi(bits)[i] = << 0, bits[i] >>
  BY TdiIs
<1>2. 0 \in Bit
  BY DEF Bit
<1> QED BY <1>1, <1>2 DEF Clocked

(* Three bits and a word.                                                  *)
ThreeThen(u, a, b) ==
    /\ a \in Seq(Bit) /\ Len(a) = 3 /\ b \in Seq(Bit) /\ Len(b) = W
    /\ u \in Seq(Bit) /\ Len(u) = 3 + W
    /\ (\A k \in 1..3 : u[k] = a[k]) /\ (\A k \in 1..W : u[3 + k] = b[k])

LEMMA ThreeAndWord ==
    ASSUME W \in Nat, NEW u, NEW a, NEW b, ThreeThen(u, a, b)
    PROVE  u = a \o b
<1>0. /\ a \in Seq(Bit) /\ Len(a) = 3 /\ b \in Seq(Bit) /\ Len(b) = W
      /\ u \in Seq(Bit) /\ Len(u) = 3 + W
      /\ (\A k \in 1..3 : u[k] = a[k]) /\ (\A k \in 1..W : u[3 + k] = b[k])
  BY DEF ThreeThen
<1> DEFINE v == a \o b
<1>1. /\ v \in Seq(Bit) /\ Len(v) = Len(a) + Len(b)
      /\ \A i \in 1..Len(a) : v[i] = a[i]
      /\ \A i \in 1..Len(b) : v[Len(a) + i] = b[i]
  <2>1. a \in Seq(Bit) /\ b \in Seq(Bit)
    BY <1>0
  <2> QED BY ONLY <2>1, JoinIs
<1> HIDE DEF v
<1>2. ASSUME NEW i \in 1..Len(u) PROVE u[i] = v[i]
  <2>1. CASE i \in 1..3
    BY <1>0, <1>1, <2>1
  <2>2. CASE i \notin 1..3
    <3>1. i - 3 \in 1..W /\ 3 + (i - 3) = i
      BY <1>0, <2>2
    <3>2. u[3 + (i - 3)] = b[i - 3] /\ v[3 + (i - 3)] = b[i - 3]
      BY <1>0, <1>1, <3>1
    <3> QED BY <3>1, <3>2
  <2> QED BY <2>1, <2>2
<1>3. Len(u) = Len(v)
  BY <1>0, <1>1
<1>4. u = v
  BY <1>0, <1>1, <1>2, <1>3, SeqEqual
<1> QED BY <1>4 DEF v

(* A scan that writes a word to the device.                                *)
AbortScan(c, to, c1, dev, sent, irs_, n, held) ==
    /\ c.tap = "Idle" /\ c.irs = c1.irs /\ held = Jtag!Rep(3 + W, 0) /\ sent \in Seq(Bit) /\ Len(sent) = W
    /\ Loaded(c1, dev, held, irs_, n, 3 + W) /\ dev.index \in Nat /\ dev.count = Len(chain)
    /\ to = Jtag!Run(c, Jtag!DrHead(dev) \o Jtag!Tdi(Jtag!Rep(3, 0))
                          \o Jtag!Exit(Jtag!Tdi(sent), Jtag!Behind(dev)) \o Jtag!Update,
                     Jtag!Captured(c1, dev, held))

LEMMA AbortScans ==
    ASSUME W \in Nat \ {0}, NEW c, NEW to, NEW c1, NEW dev, NEW sent, NEW irs_, NEW n, NEW held,
           AbortScan(c, to, c1, dev, sent, irs_, n, held)
    PROVE  Context(to) /\ to.tap = "Idle" /\ to.irs = c.irs /\ to.update[n] = Jtag!Rep(3, 0) \o sent
<1> DEFINE be == Jtag!Behind(dev)
           zeros == Jtag!Rep(3, 0)
           a == Jtag!Tdi(zeros)
           b == Jtag!Exit(Jtag!Tdi(sent), be)
           m == 3 + (W + be)
           e == JoinBits(zeros, 3, DataBits(sent, be), W + be)
           head == Jtag!DrHead(dev)
           p == head \o (a \o b) \o Jtag!Update
<1>1. /\ n \in Nat \ {0} /\ dev.index + 1 = n /\ dev.index \in Nat /\ n <= Len(chain) /\ Len(chain) \in Nat
      /\ sent \in Seq(Bit) /\ Len(sent) = W /\ dev.count = Len(chain)
  BY DEF AbortScan, Loaded, Selected
<1>2. be \in Nat /\ be = Len(chain) - n
  <2>1. be = Len(chain) - dev.index - 1
    BY <1>1 DEF Jtag!Behind
  <2> HIDE DEF be
  <2> QED BY <1>1, <2>1
<1> HIDE DEF be
<1>3. zeros \in Seq(Bit) /\ Len(zeros) = 3 /\ \A i \in 1..3 : zeros[i] = 0
  <2>1. 0 \in Bit /\ 3 \in Nat
    BY DEF Bit
  <2> QED BY ONLY Zenon, <2>1, RepIs
<1> HIDE DEF zeros
<1>4. Clocked(a, 3, zeros, 0)
  <2>1. 3 \in Nat \ {0}
    OBVIOUS
  <2> QED BY Zenon, <1>3, <2>1, TdiClocked
<1>5. Clocked(b, W + be, DataBits(sent, be), 1)
  BY <1>1, <1>2, DataIs
<1> HIDE DEF a, b
<1>6. Clocked(a \o b, m, e, 1)
  <2>1. Joined(a, 3, zeros, b, W + be, DataBits(sent, be), 1)
    BY <1>4, <1>5 DEF Joined
  <2> QED BY ONLY <2>1, JoinClocked
<1>7. to = Jtag!Run(c, p, Jtag!Captured(c1, dev, held))
  <2>1. a \in Seq(Pair) /\ b \in Seq(Pair)
    BY <1>4, <1>5 DEF Clocked
  <2>2. head \in Seq(Pair)
    BY <1>1, HeadClocks
  <2> HIDE DEF head
  <2>3. (head \o a) \o b = head \o (a \o b)
    BY <2>1, <2>2, ConcatAssociative
  <2>4. to = Jtag!Run(c, head \o a \o b \o Jtag!Update, Jtag!Captured(c1, dev, held))
    BY DEF AbortScan, head, a, b, zeros, be
  <2> QED BY <2>3, <2>4
<1> HIDE DEF head, e, m
<1>8. FullScan(a \o b, m, e, p, c, to, c1, dev, held, irs_, n, 3 + W)
  <2>1. 3 + W > 0
    OBVIOUS
  <2>2. /\ c.tap = "Idle" /\ c.irs = c1.irs
        /\ Loaded(c1, dev, held, irs_, n, 3 + W) /\ dev.index \in Nat
    BY DEF AbortScan
  <2> QED BY <1>6, <1>7, <2>1, <2>2 DEF FullScan, head
<1>9. n - 1 + m = Len(chain) - 1 + (3 + W)
  BY <1>1, <1>2 DEF m
<1>10. /\ Context(to) /\ to.tap = "Idle" /\ to.irs = c.irs
       /\ to.update[n] \in Seq(Bit) /\ Len(to.update[n]) = 3 + W
       /\ \A k \in 1..3 + W : to.update[n][k] = e[k]
  <2>1. /\ Context(to) /\ to.tap = "Idle" /\ to.irs = c.irs
        /\ n - 1 + m = Len(chain) - 1 + (3 + W) =>
              /\ to.update[n] \in Seq(Bit) /\ Len(to.update[n]) = 3 + W
              /\ \A k \in 1..3 + W : k <= m /\ to.update[n][k] = e[k]
    BY ONLY <1>8, FullScans
  <2> QED BY <1>9, <2>1
<1>11. /\ \A k \in 1..3 : e[k] = zeros[k]
       /\ \A k \in 1..W : e[3 + k] = sent[k]
  <2>1. \A j \in 1..3 + (W + be) : e[j] = IF j <= 3 THEN zeros[j] ELSE DataBits(sent, be)[j - 3]
    BY DEF e, JoinBits
  <2>2. \A k \in 1..3 : k \in 1..3 + (W + be) /\ k <= 3
    BY <1>2
  <2>3. ASSUME NEW k \in 1..W PROVE e[3 + k] = sent[k]
    <3>1. 3 + k \in 1..3 + (W + be) /\ ~(3 + k <= 3) /\ (3 + k) - 3 = k /\ k \in 1..W + be /\ k <= W
      BY <1>2
    <3>2. DataBits(sent, be)[k] = sent[k]
      BY <3>1 DEF DataBits
    <3> QED BY <2>1, <3>1, <3>2
  <2> QED BY <2>1, <2>2, <2>3
<1>12. to.update[n] = zeros \o sent
  <2>1. \A k \in 1..3 : k \in 1..3 + W
    OBVIOUS
  <2>2. \A k \in 1..W : 3 + k \in 1..3 + W
    OBVIOUS
  <2>3. (\A k \in 1..3 : to.update[n][k] = zeros[k]) /\ \A k \in 1..W : to.update[n][3 + k] = sent[k]
    BY <1>10, <1>11, <2>1, <2>2
  <2>4. ThreeThen(to.update[n], zeros, sent)
    BY <1>1, <1>3, <1>10, <2>3 DEF ThreeThen
  <2>5. W \in Nat
    OBVIOUS
  <2> QED BY ONLY <2>4, <2>5, ThreeAndWord
<1> QED BY <1>10, <1>12 DEF zeros

(* The first part of a transfer: the request in, the acknowledge out.      *)
HeadScan(c, to, c1, dev, req, ack, word, irs_, n) ==
    /\ c.tap = "Idle" /\ c.irs = c1.irs /\ c.out = << >>
    /\ req \in Seq(Bit) /\ Len(req) = 3 /\ ack \in Seq(Bit) /\ Len(ack) = 3
    /\ word \in Seq(Bit) /\ Len(word) = W
    /\ Loaded(c1, dev, ack \o word, irs_, n, 3 + W) /\ dev.index \in Nat
    /\ to = Jtag!Run(c, Jtag!DrHead(dev) \o Jtag!Tdi(req), Jtag!Captured(c1, dev, ack \o word))

(* The register between the two parts of a transfer.                       *)
Between(q, req, word) ==
    /\ q \in Seq(Bit) /\ Len(q) = Len(chain) - 1 + (3 + W)
    /\ req \in Seq(Bit) /\ Len(req) = 3 /\ word \in Seq(Bit) /\ Len(word) = W
    /\ \A k \in 1..W : q[k] = word[k]
    /\ \A j \in 1..3 : q[Len(chain) - 1 + W + j] = req[j]

LEMMA HeadScans ==
    ASSUME W \in Nat \ {0}, NEW c, NEW to, NEW c1, NEW dev, NEW req, NEW ack, NEW word, NEW irs_, NEW n,
           HeadScan(c, to, c1, dev, req, ack, word, irs_, n)
    PROVE  /\ Context(to) /\ to.tap = "ShiftDR" /\ to.irs = c.irs /\ Between(to.sr, req, word)
           /\ SubSeq(to.out, Len(to.out) - 2, Len(to.out)) = ack
<1> DEFINE N == Len(chain)
           K == 3 + W
           t == n - 1 + 3
           L == N - 1 + K
           held == ack \o word
           bits == HeadBits(n, req, 3)
           q == Jtag!DrHead(dev) \o Jtag!Tdi(req)
           captured == Jtag!Captured(c1, dev, held)
<1>1. /\ c.tap = "Idle" /\ c.irs = c1.irs /\ c.out = << >>
      /\ req \in Seq(Bit) /\ Len(req) = 3 /\ ack \in Seq(Bit) /\ Len(ack) = 3
      /\ word \in Seq(Bit) /\ Len(word) = W
      /\ Loaded(c1, dev, held, irs_, n, K) /\ dev.index \in Nat
      /\ to = Jtag!Run(c, q, captured)
  BY DEF HeadScan
<1>2. /\ n \in 1..N /\ N \in Nat /\ dev.index + 1 = n /\ n \in Nat \ {0} /\ W \in Nat /\ W > 0
  BY <1>1 DEF Loaded, Selected
<1>3. q \in Seq(Pair) /\ Len(q) = 3 + t /\ DrClocks(q, n, 3, req, 0)
  <2>1. Clocked(Jtag!Tdi(req), 3, req, 0)
    <3>1. 3 \in Nat \ {0} /\ req \in Seq(Bit) /\ Len(req) = 3
      BY <1>1
    <3> QED BY ONLY Zenon, <3>1, TdiClocked
  <2>2. Headed(q, dev, n, Jtag!Tdi(req), 3, req, 0)
    BY <1>1, <1>2, <2>1 DEF Headed
  <2> QED BY ONLY Zenon, <2>2, HeadBody
<1>4. t \in Nat /\ t = n + 2 /\ L = N + 2 + W /\ K \in Nat /\ K > 0
  BY ONLY <1>2
<1>5. \A k \in 1..3 : held[k] = ack[k]
  <2>1. ack \in Seq(Bit) /\ word \in Seq(Bit)
    BY <1>1
  <2>2. \A i \in 1..Len(ack) : held[i] = ack[i]
    BY ONLY <2>1, JoinIs
  <2> QED BY Zenon, <1>1, <2>2
<1>6. \A k \in 1..W : held[3 + k] = word[k]
  <2>1. ack \in Seq(Bit) /\ word \in Seq(Bit)
    BY <1>1
  <2>2. \A i \in 1..Len(word) : held[Len(ack) + i] = word[i]
    BY ONLY <2>1, JoinIs
  <2> QED BY Zenon, <1>1, <2>2
<1> HIDE DEF q, captured, held
<1>7. PICK r : RunOf(r, c, q, captured) /\ to = r[3 + t]
  <2>1. Len(q) \in Nat
    BY <1>3, <1>4
  <2>2. \E r : RunOf(r, c, q, captured) /\ Jtag!Run(c, q, captured) = r[Len(q)]
    BY <2>1, RunIs
  <2> QED BY <1>1, <1>3, <2>2
<1>8. r[0] = c /\ \A i \in 1..3 + t : r[i] = Jtag!Clock(r[i - 1], q[i], captured)
  BY <1>3, <1>7 DEF RunOf
<1>9. Scanning(r, q, 3 + t, captured, c1, dev, held, irs_, n, K, 3, req, 0)
  <2>1. 3 + t \in Nat /\ 3 + t >= 3 + t
    BY <1>4
  <2> QED BY <1>1, <1>3, <1>4, <1>8, <2>1 DEF Scanning, captured
<1>10. /\ r[3].sr \in Seq(Bit) /\ Len(r[3].sr) = L
       /\ \A j \in 1..K : r[3].sr[n - 1 + j] = held[j]
       /\ r[3].irs = r[0].irs /\ r[3].out = r[0].out
       /\ Shifted(r[3], bits, L, t, to) /\ to.tap = "ShiftDR"
  <2>1. /\ r[3].sr \in Seq(Bit) /\ Len(r[3].sr) = L
        /\ \A j \in 1..K : r[3].sr[n - 1 + j] = held[j]
        /\ r[3].irs = r[0].irs /\ r[3].out = r[0].out
        /\ Shifted(r[3], bits, L, t, r[3 + t])
        /\ r[3 + t].tap = IF 0 = 1 THEN "Exit1DR" ELSE "ShiftDR"
    BY ONLY <1>9, DrShift
  <2> QED BY <1>7, <2>1
<1>11. Context(to)
  <2>1. PICK f : f = 3 + t
    OBVIOUS
  <2>2. f \in 1..3 + t /\ to = r[f]
    BY <1>4, <1>7, <2>1
  <2>3. to = Jtag!Clock(r[f - 1], q[f], captured)
    BY <1>8, <2>2
  <2> QED BY <2>3, ClockIsContext
<1> HIDE DEF K, t, L, bits
<1>12. /\ to.irs = c.irs /\ to.sr \in Seq(Bit) /\ Len(to.sr) = L
       /\ \A k \in 1..L : to.sr[k] = IF t + k <= L THEN r[3].sr[t + k] ELSE bits[t + k - L]
       /\ to.out \in Seq(Bit) /\ Len(to.out) = t
       /\ \A k \in 1..t : to.out[k] = IF k <= L THEN r[3].sr[k] ELSE bits[k - L]
  BY Zenon, <1>1, <1>8, <1>10 DEF Shifted
<1>13. ASSUME NEW k \in 1..W PROVE to.sr[k] = word[k]
  <2>1. k \in 1..L /\ t + k <= L /\ n - 1 + (3 + k) = t + k /\ 3 + k \in 1..K
    <3>1. k \in 1..W /\ L = N + 2 + W /\ t = n + 2 /\ n \in 1..N /\ N \in Nat /\ W \in Nat /\ K = 3 + W
      BY <1>2, <1>4 DEF K
    <3> QED BY ONLY <3>1
  <2> QED BY Zenon, <1>6, <1>10, <1>12, <2>1
<1>14. ASSUME NEW j \in 1..3 PROVE to.sr[N - 1 + W + j] = req[j]
  <2> DEFINE k == N - 1 + W + j
             i == n - 1 + j
  <2>1. /\ k \in 1..L /\ ~(t + k <= L) /\ t + k - L = i /\ i \in 1..n - 1 + 3 /\ ~(i <= n - 1) /\ i - (n - 1) = j
    <3>1. j \in 1..3 /\ L = N + 2 + W /\ t = n + 2 /\ n \in 1..N /\ N \in Nat /\ W \in Nat
      BY <1>2, <1>4
    <3> QED BY ONLY <3>1
  <2> HIDE DEF k, i
  <2>2. to.sr[k] = bits[i]
    BY <1>12, <2>1
  <2>3. bits[i] = req[j]
    BY <2>1 DEF bits, HeadBits
  <2> QED BY <2>2, <2>3 DEF k
<1>15. SubSeq(to.out, Len(to.out) - 2, Len(to.out)) = ack
  <2>0. Len(to.out) = n + 2 /\ Len(ack) = 3
    BY <1>1, <1>4, <1>12
  <2> PICK b, f, g : b = n - 1 /\ f = n /\ g = n + 2
    OBVIOUS
  <2>1. /\ b \in Nat /\ b = n - 1 /\ f = b + 1 /\ g = b + Len(ack)
        /\ f = Len(to.out) - 2 /\ g = Len(to.out)
    BY <1>2, <2>0
  <2>2. \A k \in 1..Len(ack) : to.out[b + k] = ack[k]
    <3> SUFFICES ASSUME NEW k \in 1..Len(ack) PROVE to.out[b + k] = ack[k]
      OBVIOUS
    <3>1. k \in 1..3 /\ b + k \in 1..t /\ b + k <= L /\ k \in 1..K /\ b = n - 1
      <4>1. /\ k \in 1..Len(ack) /\ Len(ack) = 3 /\ b = n - 1 /\ L = N + 2 + W /\ t = n + 2 /\ n \in 1..N
            /\ N \in Nat /\ W \in Nat /\ K = 3 + W
        BY <1>1, <1>2, <1>4, <2>1 DEF K
      <4> QED BY ONLY <4>1
    <3> QED BY Zenon, <1>5, <1>10, <1>12, <3>1
  <2>3. ack \in Seq(Bit)
    BY <1>1
  <2>4. SubSeq(to.out, f, g) = ack
    <3>1. b \in Nat /\ f = b + 1 /\ g = b + Len(ack)
      BY <2>1
    <3> QED BY ONLY <2>2, <2>3, <3>1, PartIs
  <2> QED BY Zenon, <2>1, <2>4
<1>16. Between(to.sr, req, word)
  BY <1>1, <1>12, <1>13, <1>14 DEF Between, L, K
<1> QED BY <1>10, <1>11, <1>12, <1>15, <1>16

(* The second part of a transfer that is taken: the word, in and out.      *)
TailScan(c, to, captured, dev, sent, req, word, irs_, n) ==
    /\ c.tap = "ShiftDR" /\ c.out = << >> /\ c.irs = irs_ /\ Selected(irs_, n, 3 + W)
    /\ dev.index + 1 = n /\ dev.count = Len(chain) /\ dev.index \in Nat
    /\ Between(c.sr, req, word) /\ sent \in Seq(Bit) /\ Len(sent) = W
    /\ to = Jtag!Run(c, Jtag!Exit(Jtag!Tdi(sent), Jtag!Behind(dev)) \o Jtag!Update, captured)

LEMMA TailScans ==
    ASSUME W \in Nat \ {0}, NEW c, NEW to, NEW captured, NEW dev, NEW sent, NEW req, NEW word, NEW irs_,
           NEW n, TailScan(c, to, captured, dev, sent, req, word, irs_, n)
    PROVE  /\ Context(to) /\ to.tap = "Idle" /\ to.irs = c.irs
           /\ to.update[n] = req \o sent /\ SubSeq(to.out, 1, W) = word
<1> DEFINE N == Len(chain)
           K == 3 + W
           L == N - 1 + K
           be == Jtag!Behind(dev)
           m == W + be
           bits == DataBits(sent, be)
           body == Jtag!Exit(Jtag!Tdi(sent), be)
           p == body \o Jtag!Update
<1>1. /\ c.tap = "ShiftDR" /\ c.out = << >> /\ c.irs = irs_ /\ Selected(irs_, n, K)
      /\ dev.index + 1 = n /\ dev.count = N /\ dev.index \in Nat
      /\ c.sr \in Seq(Bit) /\ Len(c.sr) = L
      /\ req \in Seq(Bit) /\ Len(req) = 3 /\ word \in Seq(Bit) /\ Len(word) = W
      /\ (\A k \in 1..W : c.sr[k] = word[k]) /\ (\A j \in 1..3 : c.sr[N - 1 + W + j] = req[j])
      /\ sent \in Seq(Bit) /\ Len(sent) = W
      /\ to = Jtag!Run(c, p, captured)
  BY DEF TailScan, Between
<1>2. n \in 1..N /\ N \in Nat /\ n \in Nat /\ n > 0 /\ W \in Nat /\ W > 0 /\ Jtag!Devices = 1..N
  <2>1. n \in 1..N /\ N \in Nat /\ Jtag!Devices = 1..N
    BY <1>1 DEF Selected
  <2>2. n \in Nat /\ n > 0
    BY ONLY <2>1
  <2> QED BY <2>1, <2>2
<1>3. be \in Nat /\ be = N - n
  <2>1. be = N - dev.index - 1
    BY <1>1 DEF Jtag!Behind
  <2> HIDE DEF be
  <2>2. dev.index + 1 = n /\ dev.index \in Nat
    BY Zenon, <1>1
  <2> QED BY ONLY <1>2, <2>1, <2>2
<1>4. Clocked(body, m, bits, 1)
  BY <1>1, <1>3, DataIs
<1> HIDE DEF be, body
<1>5. /\ m \in Nat \ {0} /\ m = W + N - n /\ L = N + 2 + W /\ L \in Nat \ {0}
  BY ONLY <1>2, <1>3
<1> HIDE DEF bits
<1>6. /\ Len(p) = m + 2 /\ p[m + 1] = << 1, 1 >> /\ p[m + 2] = << 0, 1 >>
      /\ \A j \in 1..m : bits[j] \in Bit /\ p[j] = << IF j = m THEN 1 ELSE 0, bits[j] >>
  <2>1. /\ body \in Seq(Pair) /\ Len(body) = m
        /\ \A j \in 1..m : bits[j] \in Bit /\ body[j] = << IF j = m THEN 1 ELSE 0, bits[j] >>
    BY <1>4 DEF Clocked
  <2>2. /\ Len(p) = Len(body) + 2
        /\ \A i \in 1..Len(body) : p[i] = body[i]
        /\ p[Len(body) + 1] = << 1, 1 >> /\ p[Len(body) + 2] = << 0, 1 >>
    BY Zenon, <2>1, WithUpdate
  <2> QED BY <2>1, <2>2
<1> HIDE DEF p, m, K, L
<1>7. PICK r : RunOf(r, c, p, captured) /\ to = r[m + 2]
  <2>1. Len(p) \in Nat
    BY <1>5, <1>6
  <2>2. \E r : RunOf(r, c, p, captured) /\ Jtag!Run(c, p, captured) = r[Len(p)]
    BY <2>1, RunIs
  <2> QED BY <1>1, <1>6, <2>2
<1>8. r[0] = c /\ \A i \in 1..m + 2 : r[i] = Jtag!Clock(r[i - 1], p[i], captured)
  BY <1>6, <1>7 DEF RunOf
<1> DEFINE x == r[m]
<1>9. Shifted(c, bits, L, m, x) /\ x.tap = "Exit1DR"
  <2>1. Shifting(r, 0, m, p, captured, bits, L, 1)
    <3>1. \A j \in 1..m : 0 + j = j /\ 0 + j - 1 = j - 1 /\ j \in 1..m + 2
      BY <1>5
    <3>2. /\ 0 \in Nat /\ m \in Nat /\ L \in Nat \ {0} /\ 1 \in Bit
          /\ r[0].tap \in Shift /\ r[0].sr \in Seq(Bit) /\ Len(r[0].sr) = L
      BY Zenon, <1>1, <1>5, <1>8 DEF Bit, Shift
    <3>3. \A j \in 1..m : /\ bits[j] \in Bit /\ p[0 + j] = << IF j = m THEN 1 ELSE 0, bits[j] >>
                          /\ r[0 + j] = Jtag!Clock(r[0 + j - 1], p[0 + j], captured)
      BY <1>6, <1>8, <3>1
    <3> QED BY <3>2, <3>3 DEF Shifting
  <2>2. /\ Shifted(r[0], bits, L, m, r[0 + m])
        /\ r[0 + m].tap = IF m > 0 /\ 1 = 1 THEN ExitOf(r[0].tap) ELSE r[0].tap
    BY ONLY <2>1, Shifts
  <2>3. 0 + m = m /\ m > 0
    BY <1>5
  <2> QED BY <1>1, <1>8, <2>2, <2>3 DEF ExitOf
<1>10. /\ Context(to) /\ to.tap = "Idle" /\ to.out = x.out /\ to.irs = x.irs
       /\ to.update = [d \in Jtag!Devices |-> Jtag!Section(x.sr, [i \in Jtag!Devices |-> Jtag!DrLength(x.irs[i])], d)]
  <2>1. PICK f, g : f = m + 1 /\ g = m + 2
    OBVIOUS
  <2>2. f - 1 = m /\ g - 1 = f /\ f \in 1..m + 2 /\ g \in 1..m + 2 /\ to = r[g]
    BY <1>5, <1>7, <2>1
  <2>3. r[f] = Jtag!Clock(r[f - 1], p[f], captured) /\ r[g] = Jtag!Clock(r[g - 1], p[g], captured)
    BY <1>8, <2>2
  <2>4. r[f] = Jtag!Clock(x, << 1, 1 >>, captured) /\ to = Jtag!Clock(r[f], << 0, 1 >>, captured)
    BY <1>6, <2>1, <2>2, <2>3
  <2>5. Ending(x, r[f], to, captured)
    BY <1>9, <2>4 DEF Ending
  <2> QED BY <1>9, <2>5, EndsDr
<1>11. /\ x.irs = c.irs
       /\ \A k \in 1..L : x.sr[k] = IF m + k <= L THEN c.sr[m + k] ELSE bits[m + k - L]
       /\ x.out \in Seq(Bit) /\ Len(x.out) = m
       /\ \A k \in 1..m : x.out[k] = IF k <= L THEN c.sr[k] ELSE bits[k - L]
  BY <1>1, <1>9 DEF Shifted
<1>12. SubSeq(to.out, 1, W) = word
  <2>1. \A k \in 1..Len(word) : to.out[0 + k] = word[k]
    <3> SUFFICES ASSUME NEW k \in 1..Len(word) PROVE to.out[0 + k] = word[k]
      OBVIOUS
    <3>1. k \in 1..W /\ k \in 1..m /\ k <= L /\ 0 + k = k
      <4>1. k \in 1..Len(word) /\ Len(word) = W /\ m = W + N - n /\ L = N + 2 + W /\ n \in 1..N /\ N \in Nat /\ W \in Nat
        BY <1>1, <1>2, <1>5
      <4> QED BY ONLY <4>1
    <3> QED BY Zenon, <1>1, <1>10, <1>11, <3>1
  <2>2. 0 \in Nat /\ word \in Seq(Bit) /\ 1 = 0 + 1 /\ W = 0 + Len(word)
    BY <1>1, <1>2
  <2> QED BY ONLY <2>1, <2>2, PartIs
<1>13. ASSUME NEW j \in 1..3 PROVE x.sr[n - 1 + j] = req[j]
  <2> DEFINE k == n - 1 + j
  <2>1. k \in 1..L /\ m + k <= L /\ m + k = N - 1 + W + j
    <3>1. j \in 1..3 /\ m = W + N - n /\ L = N + 2 + W /\ n \in 1..N /\ N \in Nat /\ W \in Nat
      BY <1>2, <1>5
    <3> QED BY ONLY <3>1
  <2> HIDE DEF k
  <2>2. x.sr[k] = c.sr[N - 1 + W + j]
    BY <1>11, <2>1
  <2> QED BY Zenon, <1>1, <2>2 DEF k
<1>14. ASSUME NEW j \in 1..W PROVE x.sr[n - 1 + (3 + j)] = sent[j]
  <2> DEFINE k == n - 1 + (3 + j)
  <2>1. k \in 1..L /\ ~(m + k <= L) /\ m + k - L = j /\ j \in 1..W + be /\ j <= W
    <3>1. j \in 1..W /\ m = W + N - n /\ L = N + 2 + W /\ n \in 1..N /\ N \in Nat /\ W \in Nat /\ be \in Nat
      BY <1>2, <1>3, <1>5
    <3> QED BY ONLY <3>1
  <2> HIDE DEF k
  <2>2. x.sr[k] = bits[j]
    BY <1>11, <2>1
  <2>3. bits[j] = sent[j]
    BY <2>1 DEF bits, DataBits
  <2> QED BY <2>2, <2>3 DEF k
<1>15. /\ to.update[n] \in Seq(Bit) /\ Len(to.update[n]) = K
       /\ \A j \in 1..K : to.update[n][j] = x.sr[n - 1 + j]
  <2>1. to.update[n] = Jtag!Section(x.sr, [i \in Jtag!Devices |-> Jtag!DrLength(irs_[i])], n)
    BY <1>1, <1>2, <1>10, <1>11
  <2>2. \A j \in 1..K : x.sr[n - 1 + j] \in Bit
    <3> SUFFICES ASSUME NEW j \in 1..K PROVE x.sr[n - 1 + j] \in Bit
      OBVIOUS
    <3>1. n - 1 + j \in 1..L
      <4>1. j \in 1..3 + W /\ L = N + 2 + W /\ n \in 1..N /\ N \in Nat /\ W \in Nat
        BY <1>2, <1>5 DEF K
      <4> QED BY ONLY <4>1
    <3>2. x.sr \in Seq(Bit) /\ Len(x.sr) = L
      BY <1>9 DEF Shifted
    <3> QED BY <3>1, <3>2, ElementOfSeq
  <2>3. TakenFrom(to.update[n], x.sr, irs_, n, K)
    BY <1>1, <2>1, <2>2 DEF TakenFrom
  <2> QED BY ONLY <2>3, DrTaken
<1>16. to.update[n] = req \o sent
  <2>1. \A k \in 1..3 : k \in 1..K
    BY <1>2 DEF K
  <2>2. \A k \in 1..W : 3 + k \in 1..K
    BY <1>2 DEF K
  <2>3. (\A k \in 1..3 : to.update[n][k] = req[k]) /\ \A k \in 1..W : to.update[n][3 + k] = sent[k]
    BY <1>13, <1>14, <1>15, <2>1, <2>2
  <2>4. ThreeThen(to.update[n], req, sent)
    BY <1>1, <1>15, <2>3 DEF ThreeThen, K
  <2>5. W \in Nat
    OBVIOUS
  <2> QED BY ONLY Zenon, <2>4, <2>5, ThreeAndWord
<1> QED BY <1>10, <1>11, <1>12, <1>16

(* The end of a transfer that is not taken.                                *)
WaitScan(c, to, captured) ==
    /\ c.tap = "ShiftDR"
    /\ to = Jtag!Run(c, << << 1, 1 >> >> \o Jtag!Update, captured)

LEMMA WaitScans ==
    ASSUME NEW c, NEW to, NEW captured, WaitScan(c, to, captured)
    PROVE  Context(to) /\ to.tap = "Idle" /\ to.irs = c.irs
<1> DEFINE q == << << 1, 1 >> >>
           p == q \o Jtag!Update
<1>1. Len(p) = 3 /\ p[1] = << 1, 1 >> /\ p[2] = << 1, 1 >> /\ p[3] = << 0, 1 >>
  <2>1. q \in Seq(Pair) /\ Len(q) = 1 /\ q[1] = << 1, 1 >>
    BY DEF Pair, Bit
  <2> HIDE DEF q
  <2>2. /\ Len(p) = Len(q) + 2 /\ \A i \in 1..Len(q) : p[i] = q[i]
        /\ p[Len(q) + 1] = << 1, 1 >> /\ p[Len(q) + 2] = << 0, 1 >>
    BY Zenon, <2>1, WithUpdate
  <2>3. 1 \in 1..1
    OBVIOUS
  <2> HIDE DEF p
  <2> QED BY <2>1, <2>2, <2>3
<1>2. c.tap = "ShiftDR" /\ to = Jtag!Run(c, p, captured)
  BY DEF WaitScan
<1> HIDE DEF p
<1>3. PICK r : RunOf(r, c, p, captured) /\ to = r[3]
  <2>1. Len(p) \in Nat
    BY <1>1
  <2>2. \E r : RunOf(r, c, p, captured) /\ Jtag!Run(c, p, captured) = r[Len(p)]
    BY <2>1, RunIs
  <2> QED BY <1>1, <1>2, <2>2
<1>4. /\ r[0] = c /\ r[1] = Jtag!Clock(c, << 1, 1 >>, captured)
      /\ r[2] = Jtag!Clock(r[1], << 1, 1 >>, captured) /\ to = Jtag!Clock(r[2], << 0, 1 >>, captured)
  <2>1. r[0] = c /\ \A i \in 1..3 : r[i] = Jtag!Clock(r[i - 1], p[i], captured)
    BY <1>1, <1>3 DEF RunOf
  <2>2. 1 \in 1..3 /\ 2 \in 1..3 /\ 3 \in 1..3 /\ 1 - 1 = 0 /\ 2 - 1 = 1 /\ 3 - 1 = 2
    OBVIOUS
  <2> QED BY <1>1, <1>3, <2>1, <2>2
<1> DEFINE x == r[1]
           y == r[2]
<1>5. x.tap = "Exit1DR" /\ x.irs = c.irs
  <2>1. 1 \in Bit /\ c.tap \in Shift
    BY <1>2 DEF Bit, Shift
  <2> QED BY <1>2, <1>4, <2>1, ShiftsOnce DEF ExitOf
<1>6. Ending(x, y, to, captured)
  BY <1>4, <1>5 DEF Ending
<1> HIDE DEF x, y
<1>7. Context(to) /\ to.tap = "Idle" /\ to.irs = x.irs
  BY Zenon, <1>5, <1>6, EndsDr
<1> QED BY <1>5, <1>7

(* The commands.  What the debugger describes is the chain that is there.  *)
Device(dev, of) ==
    /\ dev = [count |-> dev.count, index |-> dev.index, ir_length |-> dev.ir_length,
              ir_before |-> dev.ir_before, ir_after |-> dev.ir_after]
    /\ dev.index \in 0..Len(of) /\ dev.count \in { 0, Len(of) }
    /\ dev.count # 0 =>
          /\ dev.ir_length = of
          /\ \A n \in 1..Len(of) :
                /\ dev.ir_before[n] = Jtag!Before(of, n)
                /\ dev.ir_after[n] = Jtag!Before(of, Len(of) + 1) - Jtag!Before(of, n) - of[n]

(* The inductive invariant: the instruction of the last transfer is still  *)
(* in, if the program does not scan it again.                              *)
StillIn == \A i \in 0..Len(chain) : \A code \in Codes : selected = << i, code >> => irs = Selection(i + 1, code)

JtagInv ==
    /\ chain \in ScanChains /\ Device(jtag_dev, chain) /\ tap \in DOMAIN Jtag!TapNext
    /\ \A d \in 1..Len(chain) : irs[d] \in Jtag!Bits(chain[d])
    /\ StillIn /\ Jtag!ScanExact

Addressing(s, index, dev) ==
    /\ ChainSums(s) /\ Device(jtag_dev, chain) /\ index \in 0..Len(chain) /\ index < jtag_dev.count
    /\ dev = Jtag!At(index)

LEMMA Addressed ==
    ASSUME NEW s, NEW index, NEW dev, Addressing(s, index, dev)
    PROVE  /\ Describes(dev, s, index + 1) /\ index + 1 \in 1..Len(chain)
           /\ dev.index = index /\ Device(dev, chain) /\ dev.count = Len(chain)
<1> DEFINE N == Len(chain)
           n == index + 1
<1>1. ChainSums(s) /\ Device(jtag_dev, chain) /\ index \in 0..N /\ index < jtag_dev.count /\ dev = Jtag!At(index)
  BY DEF Addressing
<1>2. N \in Nat /\ jtag_dev.count \in { 0, N }
  BY <1>1 DEF ChainSums, Device
<1>3. jtag_dev.count = N /\ jtag_dev.count # 0 /\ n \in 1..N /\ index \in Nat
  BY ONLY <1>1, <1>2
<1>4. /\ dev.index = index /\ dev.count = N /\ dev.ir_length = jtag_dev.ir_length
      /\ dev.ir_before = jtag_dev.ir_before /\ dev.ir_after = jtag_dev.ir_after
      /\ dev = [count |-> dev.count, index |-> dev.index, ir_length |-> dev.ir_length,
                ir_before |-> dev.ir_before, ir_after |-> dev.ir_after]
  BY <1>1, <1>3 DEF Jtag!At, Device
<1>5. Device(dev, chain)
  <2>1. /\ jtag_dev.ir_length = chain
        /\ \A k \in 1..N : /\ jtag_dev.ir_before[k] = Jtag!Before(chain, k)
                           /\ jtag_dev.ir_after[k] = Jtag!Before(chain, N + 1) - Jtag!Before(chain, k) - chain[k]
    BY <1>1, <1>3 DEF Device
  <2> QED BY <1>1, <1>4, <2>1 DEF Device
<1>6. Describes(dev, s, n)
  <2>1. /\ dev.ir_length = chain /\ dev.ir_before[n] = Jtag!Before(chain, n)
        /\ dev.ir_after[n] = Jtag!Before(chain, N + 1) - Jtag!Before(chain, n) - chain[n]
    BY <1>3, <1>4, <1>5 DEF Device
  <2>2. Jtag!Before(chain, n) = s[n - 1] /\ Jtag!Before(chain, N + 1) = s[N]
    <3>1. n \in 1..N + 1 /\ N + 1 \in 1..N + 1 /\ N + 1 - 1 = N
      BY <1>2, <1>3
    <3> QED BY <1>1, <3>1 DEF ChainSums
  <2>3. s[n] = s[n - 1] + chain[n] /\ s[n - 1] \in Nat /\ s[N] \in Nat /\ chain[n] \in Nat
    <3>1. n - 1 \in 0..N /\ N \in 0..N
      BY <1>2, <1>3
    <3> QED BY <1>1, <1>3, <3>1 DEF ChainSums
  <2> HIDE DEF n
  <2>4. dev.ir_after[n] = s[N] - s[n]
    BY <2>1, <2>2, <2>3
  <2> QED BY <1>4, <2>1, <2>2, <2>4 DEF Describes, n
<1> QED BY <1>3, <1>4, <1>5, <1>6

(* An instruction scan, its hypotheses in one.                             *)
IrScanning(s, code, n, dev, c, to) ==
    /\ ChainSums(s) /\ code \in Codes /\ n \in 1..Len(chain) /\ Describes(dev, s, n) /\ c.tap = "Idle"
    /\ to = Jtag!Run(c, Jtag!JTAG_IR(dev, code), << >>)

LEMMA IrScans ==
    ASSUME NEW s, NEW code, NEW n, NEW dev, NEW c, NEW to, IrScanning(s, code, n, dev, c, to)
    PROVE  Context(to) /\ to.tap = "Idle" /\ to.irs = Selection(n, code) /\ to.update = c.update
<1>1. ChainSums(s) /\ code \in Codes /\ n \in 1..Len(chain) /\ Describes(dev, s, n) /\ c.tap = "Idle"
  BY DEF IrScanning
<1>2. to = Jtag!Run(c, Jtag!JTAG_IR(dev, code), << >>)
  BY DEF IrScanning
<1> QED BY <1>1, <1>2, IrScan

LEMMA NowIs == Context(Jtag!Now) /\ Jtag!Now.tap = tap /\ Jtag!Now.irs = irs /\ Jtag!Now.out = << >>
BY DEF Context, Jtag!Now

LEMMA NoClocks == ASSUME NEW c, NEW captured PROVE Jtag!Run(c, << >>, captured) = c
<1>1. Len(<< >>) = 0 /\ 0 \in Nat
  OBVIOUS
<1>2. PICK r : RunOf(r, c, << >>, captured) /\ Jtag!Run(c, << >>, captured) = r[Len(<< >>)]
  BY <1>1, RunIs
<1> QED BY <1>1, <1>2 DEF RunOf

(* The instructions of a selection have their lengths.                     *)
LEMMA SelectionFits ==
    ASSUME NEW s, ChainSums(s), NEW code \in Codes, NEW n
    PROVE  \A d \in 1..Len(chain) : Selection(n, code)[d] \in Jtag!Bits(chain[d])
<1> SUFFICES ASSUME NEW d \in 1..Len(chain) PROVE Selection(n, code)[d] \in Jtag!Bits(chain[d])
  OBVIOUS
<1>1. chain[d] \in Nat /\ chain[d] >= 4 /\ d \in Jtag!Devices
  BY DEF ChainSums
<1>2. CASE d = n
  <2>1. Jtag!Ir(code, chain[d]) \in Seq(Bit) /\ Len(Jtag!Ir(code, chain[d])) = chain[d]
    BY <1>1, IrIs
  <2>2. Selection(n, code)[d] = Jtag!Ir(code, chain[d])
    BY <1>1, <1>2 DEF Selection
  <2> QED BY <2>1, <2>2 DEF Jtag!Bits, Bit
<1>3. CASE d # n
  <2>1. Selection(n, code)[d] = Jtag!Rep(chain[d], 1)
    BY <1>1, <1>3 DEF Selection
  <2> QED BY <2>1 DEF Jtag!Bits, Jtag!Rep
<1> QED BY <1>2, <1>3

(* A scan ends: what is left to show of it is what it sent and read.       *)
LEMMA AfterScan ==
    ASSUME NEW s, NEW index, NEW code, NEW dev, Addressing(s, index, dev), chain \in ScanChains,
           code \in Codes, chain' = chain, jtag_dev' = dev, tap' = "Idle", irs' = Selection(index + 1, code),
           selected' = << >> \/ selected' = << index, code >>, lastScan'.code = code,
           Jtag!Delivered', Jtag!Returned'
    PROVE  JtagInv'
<1>0. /\ dev.index = index /\ Device(dev, chain) /\ index \in 0..Len(chain) /\ ChainSums(s)
  BY Zenon, Addressed DEF Addressing
<1>1. Device(jtag_dev, chain)'
  BY <1>0 DEF Device
<1>2. tap' \in DOMAIN Jtag!TapNext
  BY DEF Jtag!TapNext
<1>3. (\A d \in 1..Len(chain) : irs[d] \in Jtag!Bits(chain[d]))'
  <2>1. \A d \in 1..Len(chain) : Selection(index + 1, code)[d] \in Jtag!Bits(chain[d])
    BY <1>0, SelectionFits
  <2> QED BY <2>1 DEF Jtag!Bits
<1>4. StillIn'
  <2> SUFFICES ASSUME NEW i \in 0..Len(chain), NEW o \in Codes, selected' = << i, o >>
               PROVE  irs' = Selection(i + 1, o)'
    BY DEF StillIn
  <2>1. selected' # << >>
    OBVIOUS
  <2>2. i = index /\ o = code
    BY <2>1
  <2>3. Selection(index + 1, code)' = Selection(index + 1, code)
    BY DEF Selection, Jtag!Devices
  <2> QED BY <2>2, <2>3
<1>5. Jtag!OneSelected'
  <2>1. irs' = [d \in Jtag!Devices |-> IF d = index + 1 THEN Jtag!Ir(code, chain[d]) ELSE Jtag!Rep(chain[d], 1)]
    BY DEF Selection
  <2>2. Jtag!Devices' = Jtag!Devices
    BY DEF Jtag!Devices
  <2>3. jtag_dev'.index = index
    BY <1>0
  <2> QED BY <2>1, <2>2, <2>3 DEF Jtag!OneSelected
<1>6. Jtag!BackToIdle'
  BY DEF Jtag!BackToIdle
<1> QED BY <1>1, <1>2, <1>3, <1>4, <1>5, <1>6 DEF JtagInv, Jtag!ScanExact

LEMMA AddressedIn ==
    ASSUME Jtag!ScanAssumption, JtagInv, NEW index \in 0..Len(chain), index < jtag_dev.count,
           NEW dev, dev = Jtag!At(index)
    PROVE  \E s : ChainSums(s) /\ Addressing(s, index, dev)
<1>1. PICK s : ChainSums(s)
  BY ChainIs DEF JtagInv
<1> QED BY <1>1 DEF Addressing, JtagInv

LEMMA IdcodeStep ==
    ASSUME Jtag!ScanAssumption, JtagInv, NEW index \in 0..Len(chain), NEW held \in Words,
           Jtag!DAP_JTAG_IDCode(index, held)
    PROVE  JtagInv'
<1> DEFINE dev == Jtag!At(index)
           n == index + 1
           code == Jtag!JTAG_IDCODE
           c1 == Jtag!Run(Jtag!Now, Jtag!JTAG_IR(dev, code), << >>)
           c == [c1 EXCEPT !.out = << >>]
           to == Jtag!Run(c, Jtag!DrHead(dev) \o Jtag!Exit(Jtag!Rep(W, << 0, 1 >>), 0) \o Jtag!Update,
                          Jtag!Captured(c1, dev, held))
<1>1. /\ tap = "Idle" /\ index < jtag_dev.count /\ chain' = chain /\ selected' = << >>
      /\ tap' = to.tap /\ irs' = to.irs /\ jtag_dev' = dev
      /\ lastScan' = [Jtag!Quiet EXCEPT !.call = "idcode", !.code = code, !.held = held,
                                        !.data = Jtag!Word(to.out, index)]
  BY DEF Jtag!DAP_JTAG_IDCode, Jtag!Became
<1> HIDE DEF dev
<1>2. PICK s : ChainSums(s) /\ Addressing(s, index, dev)
  BY <1>1, AddressedIn DEF dev
<1>3. /\ Describes(dev, s, n) /\ n \in 1..Len(chain) /\ dev.index = index
  BY <1>2, Addressed
<1>4. code \in Codes /\ W \in Nat \ {0} /\ held \in Seq(Bit) /\ Len(held) = W
  BY WordIs DEF Codes, Jtag!ScanAssumption
<1>5. Context(c1) /\ c1.tap = "Idle" /\ c1.irs = Selection(n, code)
  <2>1. IrScanning(s, code, n, dev, Jtag!Now, c1)
    BY <1>1, <1>2, <1>3, <1>4, NowIs DEF IrScanning
  <2> QED BY ONLY <2>1, IrScans
<1> HIDE DEF c1
<1>6. c.tap = "Idle" /\ c.out = << >> /\ c.irs = c1.irs
  BY <1>5, Cleared
<1> HIDE DEF c
<1>7. Loaded(c1, dev, held, Selection(n, code), n, W)
  <2>1. Selected(Selection(n, code), n, W)
    BY <1>2, <1>3, <1>4, SelectionIs
  <2> QED BY <1>3, <1>4, <1>5, <2>1 DEF Loaded
<1>8. IdcodeScan(c, to, c1, dev, held, Selection(n, code), n)
  BY <1>3, <1>6, <1>7 DEF IdcodeScan
<1>9. Context(to) /\ to.tap = "Idle" /\ to.irs = c.irs /\ Jtag!Word(to.out, dev.index) = held
  BY ONLY <1>4, <1>8, IdcodeScans
<1> HIDE DEF to
<1>10. lastScan'.call = "idcode" /\ lastScan'.code = code /\ lastScan'.held = held /\ lastScan'.data = held
  BY <1>1, <1>3, <1>9 DEF Jtag!Quiet
<1>11. Jtag!Delivered' /\ Jtag!Returned'
  BY <1>10 DEF Jtag!Delivered, Jtag!Returned
<1> HIDE DEF code
<1>12. chain \in ScanChains /\ irs' = Selection(index + 1, code) /\ tap' = "Idle"
  BY <1>1, <1>5, <1>6, <1>9 DEF JtagInv
<1> QED BY <1>1, <1>2, <1>4, <1>10, <1>11, <1>12, AfterScan

LEMMA AbortStep ==
    ASSUME Jtag!ScanAssumption, JtagInv, NEW index \in 0..Len(chain), NEW word \in Words,
           Jtag!DAP_JTAG_WriteAbort(index, word)
    PROVE  JtagInv'
<1> DEFINE dev == Jtag!At(index)
           n == index + 1
           code == Jtag!JTAG_ABORT
           zeros == Jtag!Rep(3, 0)
           held == Jtag!Rep(3 + W, 0)
           c1 == Jtag!Run(Jtag!Now, Jtag!JTAG_IR(dev, code), << >>)
           to == Jtag!Run(c1, Jtag!DrHead(dev) \o Jtag!Tdi(zeros) \o Jtag!Exit(Jtag!Tdi(word), Jtag!Behind(dev))
                                \o Jtag!Update,
                          Jtag!Captured(c1, dev, held))
<1>1. /\ tap = "Idle" /\ index < jtag_dev.count /\ chain' = chain /\ selected' = << >>
      /\ tap' = to.tap /\ irs' = to.irs /\ jtag_dev' = dev
      /\ lastScan' = [Jtag!Quiet EXCEPT !.call = "abort", !.code = code, !.ack = Jtag!AckOk,
                                        !.sent = zeros \o word, !.update = to.update]
  BY DEF Jtag!DAP_JTAG_WriteAbort, Jtag!Became
<1> HIDE DEF dev
<1>2. PICK s : ChainSums(s) /\ Addressing(s, index, dev)
  BY <1>1, AddressedIn DEF dev
<1>3. /\ Describes(dev, s, n) /\ n \in 1..Len(chain) /\ dev.index = index /\ dev.count = Len(chain)
  BY <1>2, Addressed
<1>4. code \in Codes /\ code # Jtag!JTAG_IDCODE /\ W \in Nat \ {0} /\ word \in Seq(Bit) /\ Len(word) = W
  BY WordIs DEF Codes, Jtag!ScanAssumption, Jtag!JTAG_ABORT, Jtag!JTAG_IDCODE
<1>5. Context(c1) /\ c1.tap = "Idle" /\ c1.irs = Selection(n, code)
  <2>1. IrScanning(s, code, n, dev, Jtag!Now, c1)
    BY <1>1, <1>2, <1>3, <1>4, NowIs DEF IrScanning
  <2> QED BY ONLY <2>1, IrScans
<1> HIDE DEF c1
<1>6. Loaded(c1, dev, held, Selection(n, code), n, 3 + W)
  <2>1. Selected(Selection(n, code), n, 3 + W)
    <3>1. Selected(Selection(n, code), n, IF code = Jtag!JTAG_IDCODE THEN W ELSE 3 + W)
      BY <1>2, <1>3, <1>4, SelectionIs
    <3> HIDE DEF code
    <3> QED BY <1>4, <3>1
  <2>2. held \in Seq(Bit) /\ Len(held) = 3 + W
    <3> DEFINE k == 3 + W
    <3>1. 0 \in Bit /\ k \in Nat
      BY <1>4 DEF Bit
    <3>2. held = Jtag!Rep(k, 0)
      OBVIOUS
    <3> HIDE DEF k, held
    <3>3. held \in Seq(Bit) /\ Len(held) = k
      BY ONLY Zenon, <3>1, <3>2, RepIs
    <3> QED BY ONLY <3>3 DEF k
  <2> QED BY <1>3, <1>5, <2>1, <2>2 DEF Loaded
<1>7. dev.index \in Nat
  BY <1>3
<1>8. AbortScan(c1, to, c1, dev, word, Selection(n, code), n, held)
  BY <1>3, <1>4, <1>5, <1>6, <1>7 DEF AbortScan
<1>9. Context(to) /\ to.tap = "Idle" /\ to.irs = c1.irs /\ to.update[n] = zeros \o word
  <2>1. W \in Nat \ {0}
    BY <1>4
  <2> DEFINE z == Selection(n, code)
             three == Jtag!Rep(3, 0)
  <2>2. AbortScan(c1, to, c1, dev, word, z, n, held)
    BY <1>8
  <2> HIDE DEF z, n, three
  <2>3. Context(to) /\ to.tap = "Idle" /\ to.irs = c1.irs /\ to.update[n] = three \o word
    BY ONLY <2>1, <2>2, AbortScans DEF three
  <2> QED BY ONLY <2>3 DEF three
<1> HIDE DEF to, held
<1>10. /\ lastScan'.call = "abort" /\ lastScan'.code = code
       /\ lastScan'.sent = zeros \o word /\ lastScan'.update = to.update
  BY <1>1 DEF Jtag!Quiet
<1> HIDE DEF zeros, code
<1>11. Jtag!Delivered' /\ Jtag!Returned'
  <2>1. jtag_dev'.index + 1 = n
    BY <1>1, <1>3
  <2> QED BY Zenon, <1>9, <1>10, <2>1 DEF Jtag!Delivered, Jtag!Returned
<1>12. chain \in ScanChains /\ irs' = Selection(index + 1, code) /\ tap' = "Idle"
  BY <1>1, <1>5, <1>9 DEF JtagInv
<1> QED BY <1>1, <1>2, <1>4, <1>10, <1>11, <1>12, AfterScan

LEMMA BitsAre == ASSUME NEW k \in Nat, NEW q \in [1..k -> Bit] PROVE q \in Seq(Bit) /\ Len(q) = k
OBVIOUS

(* The scans of a transfer, until the acknowledge is known.                *)
Transferring(index, code, req, ack, held, dev, c1, c2) ==
    /\ index \in 0..Len(chain) /\ index < jtag_dev.count /\ tap = "Idle"
    /\ code \in { Jtag!JTAG_DPACC, Jtag!JTAG_APACC } /\ req \in ScanRequests
    /\ ack \in { Jtag!AckOk, Jtag!AckWait } /\ held \in Words
    /\ dev = Jtag!At(index)
    /\ c1 = Jtag!Run(Jtag!Now, Jtag!Selecting(dev, code), << >>)
    /\ c2 = Jtag!Run([c1 EXCEPT !.out = << >>], Jtag!DrHead(dev) \o Jtag!Tdi(req),
                     Jtag!Captured(c1, dev, ack \o held))

LEMMA TransferScans ==
    ASSUME Jtag!ScanAssumption, JtagInv, NEW index, NEW code, NEW req, NEW ack, NEW held, NEW dev, NEW c1,
           NEW c2, Transferring(index, code, req, ack, held, dev, c1, c2)
    PROVE  /\ Context(c2) /\ c2.tap = "ShiftDR" /\ c2.irs = Selection(index + 1, code)
           /\ Between(c2.sr, req, held) /\ SubSeq(c2.out, Len(c2.out) - 2, Len(c2.out)) = ack
           /\ Selected(Selection(index + 1, code), index + 1, 3 + W)
<1> DEFINE n == index + 1
           c == [c1 EXCEPT !.out = << >>]
<1>0. /\ index \in 0..Len(chain) /\ index < jtag_dev.count /\ tap = "Idle"
      /\ code \in { Jtag!JTAG_DPACC, Jtag!JTAG_APACC } /\ req \in ScanRequests
      /\ ack \in { Jtag!AckOk, Jtag!AckWait } /\ held \in Words
      /\ dev = Jtag!At(index)
      /\ c1 = Jtag!Run(Jtag!Now, Jtag!Selecting(dev, code), << >>)
      /\ c2 = Jtag!Run(c, Jtag!DrHead(dev) \o Jtag!Tdi(req), Jtag!Captured(c1, dev, ack \o held))
  BY DEF Transferring
<1> USE <1>0
<1>1. PICK s : ChainSums(s) /\ Addressing(s, index, dev)
  BY AddressedIn
<1>2. /\ Describes(dev, s, n) /\ n \in 1..Len(chain) /\ dev.index = index /\ dev.index \in Nat
  BY <1>1, Addressed
<1>3. /\ code \in Codes /\ code # Jtag!JTAG_IDCODE /\ W \in Nat \ {0}
      /\ held \in Seq(Bit) /\ Len(held) = W
  BY WordIs DEF Codes, Jtag!ScanAssumption, Jtag!JTAG_DPACC, Jtag!JTAG_APACC, Jtag!JTAG_IDCODE
<1>4. req \in Seq(Bit) /\ Len(req) = 3 /\ ack \in Seq(Bit) /\ Len(ack) = 3
  <2>1. req \in [1..3 -> { 0, 1 }]
    BY DEF Jtag!ScanAssumption
  <2>2. req \in Seq(Bit) /\ Len(req) = 3
    <3>1. 3 \in Nat /\ req \in [1..3 -> Bit]
      BY <2>1 DEF Bit
    <3> QED BY ONLY Zenon, <3>1, BitsAre
  <2>3. \A a, b, e \in Bit : << a, b, e >> \in Seq(Bit) /\ Len(<< a, b, e >>) = 3
    OBVIOUS
  <2>4. 0 \in Bit /\ 1 \in Bit
    BY DEF Bit
  <2> QED BY Zenon, <2>2, <2>3, <2>4 DEF Jtag!AckOk, Jtag!AckWait
<1>5. Context(c1) /\ c1.tap = "Idle" /\ c1.irs = Selection(n, code)
  <2>1. CASE selected = << dev.index, code >>
    <3>1. c1 = Jtag!Now
      BY <2>1, NoClocks DEF Jtag!Selecting
    <3>2. irs = Selection(n, code)
      BY <1>2, <1>3, <2>1 DEF JtagInv, StillIn
    <3> QED BY <3>1, <3>2, NowIs
  <2>2. CASE selected # << dev.index, code >>
    <3>1. IrScanning(s, code, n, dev, Jtag!Now, c1)
      BY <1>1, <1>2, <1>3, <2>2, NowIs DEF IrScanning, Jtag!Selecting
    <3> QED BY ONLY <3>1, IrScans
  <2> QED BY <2>1, <2>2
<1>6. c.tap = "Idle" /\ c.out = << >> /\ c.irs = c1.irs
  BY <1>5, Cleared
<1>7. Selected(Selection(n, code), n, 3 + W)
  <2>1. Selected(Selection(n, code), n, IF code = Jtag!JTAG_IDCODE THEN W ELSE 3 + W)
    BY <1>1, <1>2, <1>3, SelectionIs
  <2> QED BY <1>3, <2>1
<1>8. Loaded(c1, dev, ack \o held, Selection(n, code), n, 3 + W)
  <2>1. ack \o held \in Seq(Bit) /\ Len(ack \o held) = 3 + W
    <3>1. ack \in Seq(Bit) /\ held \in Seq(Bit)
      BY <1>3, <1>4
    <3>2. ack \o held \in Seq(Bit) /\ Len(ack \o held) = Len(ack) + Len(held)
      BY ONLY <3>1, JoinIs
    <3> QED BY <1>3, <1>4, <3>2
  <2> QED BY <1>2, <1>5, <1>7, <2>1 DEF Loaded
<1> HIDE DEF c
<1>9. HeadScan(c, c2, c1, dev, req, ack, held, Selection(n, code), n)
  BY <1>2, <1>3, <1>4, <1>6, <1>8 DEF HeadScan, c
<1>10. /\ Context(c2) /\ c2.tap = "ShiftDR" /\ c2.irs = c.irs /\ Between(c2.sr, req, held)
       /\ SubSeq(c2.out, Len(c2.out) - 2, Len(c2.out)) = ack
  <2>1. W \in Nat \ {0}
    BY <1>3
  <2> QED BY ONLY Zenon, <1>9, <2>1, HeadScans
<1> QED BY Zenon, <1>5, <1>6, <1>7, <1>10

LEMMA ScanTransferStep ==
    ASSUME Jtag!ScanAssumption, JtagInv, NEW index \in 0..Len(chain),
           NEW code \in { Jtag!JTAG_DPACC, Jtag!JTAG_APACC }, NEW req \in ScanRequests, NEW word \in Words,
           NEW ack \in { Jtag!AckOk, Jtag!AckWait }, NEW held \in Words,
           Jtag!JTAG_Transfer(index, code, req, word, ack, held)
    PROVE  JtagInv'
<1> DEFINE dev == Jtag!At(index)
           n == index + 1
           c1 == Jtag!Run(Jtag!Now, Jtag!Selecting(dev, code), << >>)
           dr == Jtag!Captured(c1, dev, ack \o held)
           c2 == Jtag!Run([c1 EXCEPT !.out = << >>], Jtag!DrHead(dev) \o Jtag!Tdi(req), dr)
           got == SubSeq(c2.out, Len(c2.out) - 2, Len(c2.out))
           c == [c2 EXCEPT !.out = << >>]
           c3 == Jtag!Run(c, Jtag!TransferTail(dev, got = Jtag!AckOk, word), dr)
<1>1. /\ tap = "Idle" /\ index < jtag_dev.count /\ chain' = chain /\ selected' = << index, code >>
      /\ tap' = c3.tap /\ irs' = c3.irs /\ jtag_dev' = dev
      /\ lastScan' = [call |-> "transfer", code |-> code, sent |-> req \o word, held |-> held,
                      ack |-> got, update |-> c3.update,
                      data |-> IF got = Jtag!AckOk THEN SubSeq(c3.out, 1, W) ELSE << >>]
  BY DEF Jtag!JTAG_Transfer, Jtag!Became
<1>2. PICK s : ChainSums(s) /\ Addressing(s, index, dev)
  BY <1>1, AddressedIn
<1>3. n \in 1..Len(chain) /\ dev.index = index /\ dev.index \in Nat /\ dev.count = Len(chain)
  BY <1>2, Addressed
<1>4. code \in Codes /\ W \in Nat \ {0} /\ word \in Seq(Bit) /\ Len(word) = W
  BY WordIs DEF Codes, Jtag!ScanAssumption
<1>5. /\ Context(c2) /\ c2.tap = "ShiftDR" /\ c2.irs = Selection(n, code)
      /\ Between(c2.sr, req, held) /\ got = ack
      /\ Selected(Selection(n, code), n, 3 + W)
  <2>1. Transferring(index, code, req, ack, held, dev, c1, c2)
    BY <1>1 DEF Transferring
  <2> HIDE DEF dev, c1, c2
  <2>2. /\ Context(c2) /\ c2.tap = "ShiftDR" /\ c2.irs = Selection(index + 1, code)
        /\ Between(c2.sr, req, held) /\ SubSeq(c2.out, Len(c2.out) - 2, Len(c2.out)) = ack
        /\ Selected(Selection(index + 1, code), index + 1, 3 + W)
    BY Zenon, <2>1, TransferScans
  <2> QED BY Zenon, <2>2
<1> HIDE DEF dev, dr, c2, got
<1>6. c.tap = "ShiftDR" /\ c.sr = c2.sr /\ c.out = << >> /\ c.irs = Selection(n, code)
  BY <1>5, Cleared
<1> HIDE DEF c
<1>7. c3.tap = "Idle" /\ c3.irs = c.irs
      /\ (got = Jtag!AckOk => c3.update[n] = req \o word /\ SubSeq(c3.out, 1, W) = held)
  <2>1. CASE got = Jtag!AckOk
    <3>1. TailScan(c, c3, dr, dev, word, req, held, Selection(n, code), n)
      BY <1>3, <1>4, <1>5, <1>6, <2>1 DEF TailScan, Jtag!TransferTail
    <3>2. W \in Nat \ {0}
      BY <1>4
    <3> HIDE DEF c3
    <3>3. /\ c3.tap = "Idle" /\ c3.irs = c.irs
          /\ c3.update[n] = req \o word /\ SubSeq(c3.out, 1, W) = held
      BY ONLY <3>1, <3>2, TailScans
    <3> QED BY <3>3
  <2>2. CASE got # Jtag!AckOk
    <3>1. WaitScan(c, c3, dr)
      BY <1>6, <2>2 DEF WaitScan, Jtag!TransferTail
    <3> HIDE DEF c3
    <3>2. c3.tap = "Idle" /\ c3.irs = c.irs
      BY ONLY <3>1, WaitScans
    <3> QED BY <2>2, <3>2
  <2> QED BY <2>1, <2>2
<1> HIDE DEF c3
<1>8. /\ lastScan'.call = "transfer" /\ lastScan'.code = code /\ lastScan'.sent = req \o word
      /\ lastScan'.held = held /\ lastScan'.ack = got /\ lastScan'.update = c3.update
      /\ lastScan'.data = IF got = Jtag!AckOk THEN SubSeq(c3.out, 1, W) ELSE << >>
  BY <1>1
<1>9. Jtag!Delivered' /\ Jtag!Returned'
  <2>1. jtag_dev'.index + 1 = n
    BY <1>1, <1>3
  <2> QED BY Zenon, <1>7, <1>8, <2>1 DEF Jtag!Delivered, Jtag!Returned
<1>10. chain \in ScanChains /\ irs' = Selection(index + 1, code) /\ tap' = "Idle"
  BY <1>1, <1>6, <1>7 DEF JtagInv
<1> QED BY <1>1, <1>2, <1>4, <1>8, <1>9, <1>10, AfterScan

LEMMA ConfigureStep ==
    ASSUME Jtag!ScanAssumption, JtagInv, Jtag!DAP_JTAG_Configure
    PROVE  JtagInv'
<1> DEFINE N == Len(chain)
<1>1. PICK s : ChainSums(s)
  BY ChainIs DEF JtagInv
<1>2. /\ jtag_dev' = [count |-> N, index |-> jtag_dev.index, ir_length |-> chain,
                      ir_before |-> [n \in Jtag!Devices |-> Jtag!SumTo(n - 1)],
                      ir_after |-> [n \in Jtag!Devices |-> Jtag!After(n, Jtag!SumTo(N) - Jtag!SumTo(n - 1))]]
      /\ selected' = << >> /\ lastScan'.call = "none"
      /\ UNCHANGED << chain, tap, irs, sr >>
  BY DEF Jtag!DAP_JTAG_Configure, Jtag!Quiet
<1>3. N \in Nat /\ Jtag!Devices = 1..N
  BY <1>1 DEF ChainSums
<1>4. ASSUME NEW n \in 1..N
      PROVE  /\ jtag_dev'.ir_before[n] = Jtag!Before(chain, n)
             /\ jtag_dev'.ir_after[n] = Jtag!Before(chain, N + 1) - Jtag!Before(chain, n) - chain[n]
  <2>1. n - 1 + 1 = n
    BY <1>3
  <2>2. Jtag!SumTo(n - 1) = Jtag!Before(chain, n) /\ Jtag!SumTo(N) = Jtag!Before(chain, N + 1)
    BY <2>1 DEF Jtag!SumTo
  <2> QED BY <1>2, <1>3, <2>2 DEF Jtag!After
<1>5. Device(jtag_dev, chain)'
  <2>1. jtag_dev.index \in 0..N
    BY DEF JtagInv, Device
  <2> QED BY Zenon, <1>2, <1>4, <2>1 DEF Device
<1>6. StillIn'
  BY <1>2 DEF StillIn
<1>7. Jtag!ScanExact'
  BY <1>2 DEF Jtag!ScanExact, Jtag!OneSelected, Jtag!BackToIdle, Jtag!Delivered, Jtag!Returned, Jtag!Scanned
<1>8. (\A d \in 1..Len(chain) : irs[d] \in Jtag!Bits(chain[d]))'
  BY <1>2 DEF JtagInv, Jtag!Bits
<1> QED BY <1>2, <1>5, <1>6, <1>7, <1>8 DEF JtagInv

LEMMA RefusedStep ==
    ASSUME JtagInv, NEW index \in 0..Len(chain), Jtag!Refused(index)
    PROVE  JtagInv'
<1>1. /\ jtag_dev' = [jtag_dev EXCEPT !.index = index]
      /\ selected' = << >> /\ lastScan'.call = "none"
      /\ UNCHANGED << chain, tap, irs, sr >>
  BY DEF Jtag!Refused, Jtag!Quiet, Jtag!At
<1>2. Device(jtag_dev, chain)'
  <2>1. /\ jtag_dev'.index = index /\ jtag_dev'.count = jtag_dev.count /\ jtag_dev'.ir_length = jtag_dev.ir_length
        /\ jtag_dev'.ir_before = jtag_dev.ir_before /\ jtag_dev'.ir_after = jtag_dev.ir_after
        /\ jtag_dev' = [count |-> jtag_dev'.count, index |-> jtag_dev'.index, ir_length |-> jtag_dev'.ir_length,
                        ir_before |-> jtag_dev'.ir_before, ir_after |-> jtag_dev'.ir_after]
    BY <1>1 DEF JtagInv, Device
  <2> QED BY <1>1, <2>1 DEF JtagInv, Device
<1>3. StillIn'
  BY <1>1 DEF StillIn
<1>4. Jtag!ScanExact'
  BY <1>1 DEF Jtag!ScanExact, Jtag!OneSelected, Jtag!BackToIdle, Jtag!Delivered, Jtag!Returned, Jtag!Scanned
<1>5. (\A d \in 1..Len(chain) : irs[d] \in Jtag!Bits(chain[d]))'
  BY <1>1 DEF JtagInv, Jtag!Bits
<1> QED BY <1>1, <1>2, <1>3, <1>4, <1>5 DEF JtagInv

LEMMA SequenceStep ==
    ASSUME JtagInv, NEW n \in { 1, 8 }, NEW tms \in 0..1, Jtag!JTAG_Sequence(n, tms)
    PROVE  JtagInv'
<1>1. /\ tap' \in { "Reset", "Idle", "SelectDR", "SelectIR" }
      /\ irs' = irs \/ irs' = [d \in Jtag!Devices |-> Jtag!Rep(chain[d], 1)]
      /\ selected' = << >> /\ lastScan'.call = "none"
      /\ UNCHANGED << chain, jtag_dev, sr >>
  <2> DEFINE path[i \in 0..n] == IF i = 0 THEN tap ELSE Jtag!TapNext[path[i - 1]][tms + 1]
  <2> HIDE DEF path
  <2>1. /\ \A i \in 1..n : path[i] \in {"Reset", "Idle", "SelectDR", "SelectIR"}
        /\ tap' = path[n]
        /\ irs' = IF \E i \in 1..n : path[i] = "Reset"
                  THEN [d \in Jtag!Devices |-> Jtag!Rep(chain[d], 1)] ELSE irs
        /\ lastScan' = Jtag!Quiet /\ selected' = << >>
        /\ UNCHANGED << chain, jtag_dev, sr >>
    BY DEF Jtag!JTAG_Sequence, path
  <2>2. n \in 1..n
    OBVIOUS
  <2> QED BY <2>1, <2>2 DEF Jtag!Quiet
<1>2. Device(jtag_dev, chain)'
  BY <1>1 DEF JtagInv, Device
<1>3. StillIn'
  BY <1>1 DEF StillIn
<1>4. Jtag!ScanExact'
  BY <1>1 DEF Jtag!ScanExact, Jtag!OneSelected, Jtag!BackToIdle, Jtag!Delivered, Jtag!Returned, Jtag!Scanned
<1>5. (\A d \in 1..Len(chain) : irs[d] \in Jtag!Bits(chain[d]))'
  <2>1. \A d \in 1..Len(chain) : Jtag!Rep(chain[d], 1) \in Jtag!Bits(chain[d])
    BY DEF Jtag!Rep, Jtag!Bits
  <2>2. \A d \in 1..Len(chain) : irs'[d] = irs[d] \/ irs'[d] = Jtag!Rep(chain[d], 1)
    BY <1>1 DEF Jtag!Devices
  <2> QED BY <1>1, <2>1, <2>2 DEF JtagInv, Jtag!Bits
<1>6. tap' \in DOMAIN Jtag!TapNext
  BY <1>1 DEF Jtag!TapNext
<1> QED BY <1>1, <1>2, <1>3, <1>4, <1>5, <1>6 DEF JtagInv

LEMMA JtagStep ==
    ASSUME Jtag!ScanAssumption, JtagInv, Jtag!Next
    PROVE  JtagInv'
<1>1. CASE Jtag!DAP_JTAG_Configure
  BY <1>1, ConfigureStep
<1>2. ASSUME NEW index \in 0..Len(chain),
             \/ Jtag!Refused(index)
             \/ \E code \in { Jtag!JTAG_DPACC, Jtag!JTAG_APACC }, req \in ScanRequests, word \in Words,
                   ack \in { Jtag!AckOk, Jtag!AckWait }, held \in Words :
                     Jtag!JTAG_Transfer(index, code, req, word, ack, held)
             \/ \E held \in Words : Jtag!DAP_JTAG_IDCode(index, held)
             \/ \E word \in Words : Jtag!DAP_JTAG_WriteAbort(index, word)
      PROVE  JtagInv'
  <2>1. CASE Jtag!Refused(index)
    BY <2>1, RefusedStep
  <2>2. ASSUME NEW code \in { Jtag!JTAG_DPACC, Jtag!JTAG_APACC }, NEW req \in ScanRequests, NEW word \in Words,
               NEW ack \in { Jtag!AckOk, Jtag!AckWait }, NEW held \in Words,
               Jtag!JTAG_Transfer(index, code, req, word, ack, held)
        PROVE  JtagInv'
    BY <2>2, ScanTransferStep
  <2>3. ASSUME NEW held \in Words, Jtag!DAP_JTAG_IDCode(index, held) PROVE JtagInv'
    BY <2>3, IdcodeStep
  <2>4. ASSUME NEW word \in Words, Jtag!DAP_JTAG_WriteAbort(index, word) PROVE JtagInv'
    BY <2>4, AbortStep
  <2> QED BY <1>2, <2>1, <2>2, <2>3, <2>4
<1>3. ASSUME NEW n \in { 1, 8 }, NEW tms \in 0..1, Jtag!JTAG_Sequence(n, tms) PROVE JtagInv'
  BY <1>3, SequenceStep
<1> QED BY <1>1, <1>2, <1>3 DEF Jtag!Next

LEMMA JtagInit == ASSUME Jtag!ScanAssumption, Jtag!Init PROVE JtagInv
<1>1. /\ chain \in ScanChains /\ tap = "Reset" /\ selected = << >> /\ lastScan.call = "none"
      /\ jtag_dev = [count |-> 0, index |-> 0, ir_length |-> << >>, ir_before |-> << >>, ir_after |-> << >>]
      /\ irs = [d \in Jtag!Devices |-> Jtag!Rep(chain[d], 1)]
  BY DEF Jtag!Init, Jtag!Quiet
<1>2. PICK s : ChainSums(s)
  BY <1>1, ChainIs
<1>3. Device(jtag_dev, chain)
  <2>1. 0 \in 0..Len(chain)
    BY <1>2 DEF ChainSums
  <2> QED BY <1>1, <2>1 DEF Device
<1>4. StillIn
  BY <1>1 DEF StillIn
<1>5. Jtag!ScanExact
  BY <1>1 DEF Jtag!ScanExact, Jtag!OneSelected, Jtag!BackToIdle, Jtag!Delivered, Jtag!Returned, Jtag!Scanned
<1>6. \A d \in 1..Len(chain) : irs[d] \in Jtag!Bits(chain[d])
  BY <1>1 DEF Jtag!Devices, Jtag!Rep, Jtag!Bits
<1>7. tap \in DOMAIN Jtag!TapNext
  BY <1>1 DEF Jtag!TapNext
<1> QED BY <1>1, <1>3, <1>4, <1>5, <1>6, <1>7 DEF JtagInv

LEMMA JtagSafe == Spec => []JtagInv
<1>1. Jtag!ScanAssumption
  BY PartsAssumption DEF PartsAssumption
<1>2. Init => JtagInv
  BY <1>1, JtagInit DEF Init
<1>3. JtagInv /\ [Next]_vars => JtagInv'
  <2>1. SUFFICES ASSUME JtagInv, [Next]_vars PROVE JtagInv'
    OBVIOUS
  <2>2. CASE UNCHANGED scan
    <3>1. UNCHANGED << chain, jtag_dev, selected, tap, irs, sr, lastScan >>
      BY <2>2 DEF scan
    <3>2. Device(jtag_dev, chain)' /\ StillIn'
      BY <2>1, <3>1 DEF JtagInv, Device, StillIn, Selection, Jtag!Devices
    <3>3. Jtag!ScanExact'
      BY <2>1, <3>1 DEF JtagInv, Jtag!ScanExact, Jtag!OneSelected, Jtag!BackToIdle, Jtag!Delivered, Jtag!Returned,
                        Jtag!Scanned, Jtag!Devices
    <3>4. (\A d \in 1..Len(chain) : irs[d] \in Jtag!Bits(chain[d]))'
      BY <2>1, <3>1 DEF JtagInv, Jtag!Bits
    <3> QED BY <2>1, <3>1, <3>2, <3>3, <3>4 DEF JtagInv
  <2>3. CASE Jtag!Next
    BY <1>1, <2>1, <2>3, JtagStep
  <2> QED BY <2>1, <2>2, <2>3 DEF Next, vars
<1> QED BY <1>2, <1>3, PTL DEF Spec

(* Every JTAG scan addresses the device the debugger asked for and no      *)
(* other, gives it the request and the word that were sent, returns the    *)
(* word it held, and leaves the chain in Run-Test/Idle: for a chain of any *)
(* length, devices with instructions of any length from four bits on, and  *)
(* words of any width, whatever was scanned before.                        *)
THEOREM ScansExact == Spec => []ScanExact
<1>1. JtagInv => ScanExact
  BY DEF JtagInv, ScanExact
<1> QED BY <1>1, JtagSafe, PTL

==============================================================================
