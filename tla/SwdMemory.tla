------------------------------ MODULE SwdMemory ------------------------------
(***************************************************************************)
(* The probe as a debugger of its own: swd_host.c reads and writes the     *)
(* memory of the target through the memory access port.  A range is cut    *)
(* into bytes and blocks of words; the registers SELECT and CSW are        *)
(* written only when a cache (dap_state) says that they differ; words are  *)
(* read one transfer late.  Any transfer may fail after its hundred        *)
(* retries, and one that was acknowledged may fail on the bus later.       *)
(***************************************************************************)
EXTENDS Integers, Sequences

CONSTANTS
    MemSize,      \* bytes of target memory
    Page,         \* TARGET_AUTO_INCREMENT_PAGE_SIZE, where TAR wraps
    Ranges,       \* the pairs << address, size >> asked for
    MaxOps, MaxFaults

MemoryAssumption ==
    /\ MemSize \in Nat \ {0} /\ Page \in Nat \ {0} /\ Page % 4 = 0 /\ MemSize % Page = 0
    /\ MaxOps \in Nat /\ MaxFaults \in Nat
    /\ \A r \in Ranges : r[1] \in Nat /\ r[2] \in Nat /\ r[1] + r[2] <= MemSize

Addresses == 0..(MemSize - 1)

VARIABLES
    select, csw,                         \* dap_state
    SELECT, CSW, TAR, mem, posted, sticky,   \* the target; posted is in RDBUFF
    op, address, size,                   \* the call, and what is left of it
    block,                               \* bytes of the piece at hand
    pc, access,                          \* accesses done of the piece
    got,                                 \* the bytes read
    result,                              \* 1, 0, or -1 during the call
    ops, faults

host == << select, csw >>
target == << SELECT, CSW, TAR, mem, posted, sticky >>
piece == << op, address, size, block >>
vars == << host, target, piece, pc, access, got, result, ops, faults >>

Word(a) == (a - (a % 4))..(a - (a % 4) + 3)
Lanes == 0..3
IDR == -1   \* the value of that register

----------------------------------------------------------------------------
(* The target                                                              *)

(* One transfer: it is carried out, or fails for good and the call is over *)
(* with 0.  After a bus error all but an abort fail.                       *)
Ok == ~sticky
Fails ==
    /\ faults < MaxFaults \/ sticky
    /\ faults' = IF sticky THEN faults ELSE faults + 1
    /\ result' = 0 /\ pc' = "idle"

(* The bytes an access touches, and where TAR goes within its page         *)
Touched == IF CSW = 32 THEN Word(TAR) ELSE { TAR }
Incremented == TAR - (TAR % Page) + ((TAR + (IF CSW = 32 THEN 4 ELSE 1)) % Page)

(* Data register: the access happens, or is acknowledged and lost.         *)
BusError == faults < MaxFaults /\ faults' = faults + 1 /\ sticky' = TRUE
                /\ UNCHANGED << TAR, mem, posted >>
BusWrite(lane) ==
    /\ mem' = [ a \in Addresses |-> IF a \in Touched THEN lane[a % 4] ELSE mem[a] ]
    /\ TAR' = Incremented
    /\ UNCHANGED << posted, sticky, faults >>
BusRead ==
    /\ posted' = [ l \in Lanes |-> IF \E a \in Touched : a % 4 = l
                                   THEN mem[CHOOSE a \in Touched : a % 4 = l] ELSE 0 ]
    /\ TAR' = Incremented
    /\ UNCHANGED << mem, sticky, faults >>

----------------------------------------------------------------------------
(* swd_host.c                                                              *)

(* Mutant: what is left is not looked at. *)
BlockWholePage(a, s) == Page - (a % Page)

(* Up to the page the auto-increment stays in, complete words only         *)
Block(a, s) ==
    LET n == Page - (a % Page) IN IF s < n THEN s - (s % 4) ELSE n

(* Bytes up to a word, then blocks, then the bytes that remain             *)
Piece(a, s) == IF a % 4 # 0 \/ s <= 3 THEN 1 ELSE Block(a, s)
Width == IF address % 4 # 0 \/ size <= 3 THEN 8 ELSE 32
Accesses == IF Width = 8 THEN 1 ELSE block \div 4

(* swd_write_memory and swd_read_memory go on with the next piece.         *)
Continue(a, s) ==
    /\ address' = a /\ size' = s /\ access' = 0
    /\ IF s = 0 THEN result' = 1 /\ pc' = "idle" /\ block' = 0
                ELSE result' = -1 /\ pc' = "select" /\ block' = Piece(a, s)

(* The cache of CSW is wrong: a write of it has failed, and none has       *)
(* arrived since.                                                          *)
Misled == csw \notin { 0, CSW }

Call(kind, a, s) ==
    /\ pc = "idle" /\ ops < MaxOps
    /\ op' = [ kind |-> kind, address |-> a, size |-> s, before |-> mem, misled |-> Misled ]
    /\ Continue(a, s)
    /\ ops' = ops + 1 /\ got' = << >>
    /\ UNCHANGED << host, target, faults >>

swd_write_memory(a, s) == Call("write", a, s)
swd_read_memory(a, s) == Call("read", a, s)

(* swd_read_ap(IDR): another bank of registers                             *)
swd_read_ap ==
    /\ pc = "idle" /\ ops < MaxOps
    /\ op' = [ kind |-> "ap", address |-> 0, size |-> 0, before |-> mem, misled |-> Misled ]
    /\ pc' = "select" /\ result' = -1
    /\ ops' = ops + 1 /\ got' = << >>
    /\ UNCHANGED << host, target, address, size, block, access, faults >>

swd_clear_errors ==
    /\ pc = "idle" /\ ops < MaxOps
    /\ sticky' = FALSE /\ ops' = ops + 1
    /\ UNCHANGED << host, SELECT, CSW, TAR, mem, posted, piece, pc, access, got, result,
                    faults >>

Bank == IF op.kind = "ap" THEN "IDR" ELSE "MEM"

(* Mutant: the cache is set before the answer. *)
WriteDpEarly(bank, next) ==
    /\ select' = bank
    /\ \/ select = bank /\ pc' = next /\ UNCHANGED << SELECT, faults, result >>
       \/ select # bank /\ Ok /\ SELECT' = bank /\ pc' = next /\ UNCHANGED << faults, result >>
       \/ select # bank /\ Fails /\ UNCHANGED SELECT

(* DP_SELECT: no transfer if the cache holds the bank, and the cache is    *)
(* set by a transfer that was acknowledged.                                *)
swd_write_dp(bank, next) ==
    \/ /\ select = bank /\ pc' = next
       /\ UNCHANGED << select, SELECT, faults, result >>
    \/ /\ select # bank /\ Ok
       /\ SELECT' = bank /\ select' = bank /\ pc' = next /\ UNCHANGED << faults, result >>
    \/ /\ select # bank /\ Fails /\ UNCHANGED << select, SELECT >>

Select ==
    /\ pc = "select"
    /\ swd_write_dp(Bank, IF op.kind = "ap" THEN "dummy" ELSE "csw")
    /\ UNCHANGED << csw, CSW, TAR, mem, posted, sticky, piece, access, got, ops >>

(* swd_write_ap(AP_CSW): here the cache is set before the transfer.        *)
swd_write_ap ==
    /\ pc = "csw"
    /\ csw' = Width
    /\ \/ csw = Width /\ pc' = "tar" /\ UNCHANGED << CSW, faults, result >>
       \/ csw # Width /\ Ok /\ CSW' = Width /\ pc' = "check" /\ UNCHANGED << faults, result >>
       \/ csw # Width /\ Fails /\ UNCHANGED CSW
    /\ UNCHANGED << select, SELECT, TAR, mem, posted, sticky, piece, access, got, ops >>

(* ... and RDBUFF read to see whether it arrived                           *)
CheckCsw ==
    /\ pc = "check"
    /\ \/ Ok /\ pc' = "tar" /\ UNCHANGED << faults, result >>
       \/ Fails
    /\ UNCHANGED << host, target, piece, access, got, ops >>

WriteTar ==
    /\ pc = "tar"
    /\ \/ Ok /\ TAR' = address /\ pc' = "drw" /\ UNCHANGED << faults, result >>
       \/ Fails /\ UNCHANGED TAR
    /\ UNCHANGED << host, SELECT, CSW, mem, posted, sticky, piece, access, got, ops >>

(* Byte i of the data is its number; a byte goes to its lane with zeros    *)
(* beside it.                                                              *)
DataFor(a) == a - op.address + 1
Written == [ l \in Lanes |->
    IF Width = 8 THEN IF l = address % 4 THEN DataFor(address) ELSE 0
                 ELSE DataFor(address + 4 * access + l) ]
Bytes(p) == IF Width = 8 THEN << p[address % 4] >> ELSE << p[0], p[1], p[2], p[3] >>

(* swd_write_block and swd_write_data                                      *)
swd_write_block ==
    /\ pc = "drw" /\ op.kind = "write" /\ access < Accesses
    /\ \/ /\ Ok /\ access' = access + 1
          /\ BusWrite(Written) \/ BusError
          /\ UNCHANGED << pc, result >>
       \/ Fails /\ UNCHANGED << TAR, mem, posted, sticky, access >>
    /\ UNCHANGED << host, SELECT, CSW, piece, got, ops >>

(* Mutant: the first read is taken for data. *)
ReadFirstKept ==
    /\ pc = "drw" /\ op.kind = "read" /\ access < Accesses
    /\ Ok /\ access' = access + 1
    /\ got' = IF access = 0 /\ Accesses = 1 THEN got ELSE got \o Bytes(posted)
    /\ BusRead
    /\ UNCHANGED << host, SELECT, CSW, piece, pc, result, ops >>

(* swd_read_block and swd_read_data: what a read returns is the value of   *)
(* the read before it; the first one is thrown away.                       *)
swd_read_block ==
    /\ pc = "drw" /\ op.kind = "read" /\ access < Accesses
    /\ \/ /\ Ok /\ access' = access + 1
          /\ got' = IF access = 0 THEN got ELSE got \o Bytes(posted)
          /\ BusRead \/ BusError
          /\ UNCHANGED << pc, result >>
       \/ Fails /\ UNCHANGED << TAR, mem, posted, sticky, access, got >>
    /\ UNCHANGED << host, SELECT, CSW, piece, ops >>

(* Mutant: a write is not checked. *)
RdbuffUnread ==
    \/ /\ Ok \/ op.kind = "write"
       /\ UNCHANGED faults
       /\ got' = IF op.kind = "read" THEN got \o Bytes(posted) ELSE got
       /\ Continue(address + block, size - block)
    \/ Fails /\ UNCHANGED << got, address, size, block, access >>

(* The last word, or whether the writes arrived                            *)
Rdbuff ==
    \/ /\ Ok /\ UNCHANGED faults
       /\ got' = IF op.kind = "read" THEN got \o Bytes(posted) ELSE got
       /\ Continue(address + block, size - block)
    \/ Fails /\ UNCHANGED << got, address, size, block, access >>

EndOfPiece ==
    /\ pc = "drw" /\ access = Accesses
    /\ Rdbuff
    /\ UNCHANGED << host, target, op, ops >>

(* swd_read_ap reads twice; whether the first read went well is not asked. *)
DummyRead ==
    /\ pc = "dummy" /\ pc' = "apread"
    /\ \/ Ok /\ posted' = [ l \in Lanes |-> IDR ] /\ UNCHANGED faults
       \/ /\ faults < MaxFaults \/ sticky
          /\ faults' = IF sticky THEN faults ELSE faults + 1
          /\ UNCHANGED posted
    /\ UNCHANGED << host, SELECT, CSW, TAR, mem, sticky, piece, access, got, result, ops >>

ApRead ==
    /\ pc = "apread"
    /\ \/ /\ Ok /\ got' = << posted[0] >> /\ posted' = [ l \in Lanes |-> IDR ]
          /\ result' = 1 /\ pc' = "idle" /\ UNCHANGED faults
       \/ Fails /\ UNCHANGED << got, posted >>
    /\ UNCHANGED << host, SELECT, CSW, TAR, mem, sticky, piece, access, ops >>

(* After swd_init_debug: SELECT is known, CSW is not.                      *)
Init ==
    /\ select = "MEM" /\ csw = 0
    /\ SELECT = "MEM" /\ CSW \in { 8, 32 } /\ TAR = 0 /\ sticky = FALSE
    /\ mem = [ a \in Addresses |-> 100 + a ] /\ posted = [ l \in Lanes |-> 0 ]
    /\ op = [ kind |-> "none", address |-> 0, size |-> 0, before |-> mem, misled |-> FALSE ]
    /\ address = 0 /\ size = 0 /\ block = 0 /\ pc = "idle" /\ access = 0
    /\ got = << >> /\ result = -1 /\ ops = 0 /\ faults = 0

Done == pc = "idle" /\ ops = MaxOps /\ UNCHANGED vars

Next ==
    \/ \E r \in Ranges : swd_write_memory(r[1], r[2]) \/ swd_read_memory(r[1], r[2])
    \/ swd_read_ap \/ swd_clear_errors
    \/ Select \/ swd_write_ap \/ CheckCsw \/ WriteTar
    \/ swd_write_block \/ swd_read_block \/ EndOfPiece \/ DummyRead \/ ApRead
    \/ Done

Spec == Init /\ [][Next]_vars

----------------------------------------------------------------------------

(* Every variable has its type.                                            *)
TypeOK ==
    /\ select \in { "MEM", "IDR" } /\ SELECT \in { "MEM", "IDR" }
    /\ csw \in { 0, 8, 32 } /\ CSW \in { 8, 32 }
    /\ TAR \in Addresses /\ DOMAIN mem = Addresses /\ sticky \in BOOLEAN
    /\ address + size <= MemSize /\ block <= size
    /\ pc \in { "idle", "select", "csw", "check", "tar", "drw", "dummy", "apread" }
    /\ access \in 0..Page /\ result \in -1..1
    /\ ops \in 0..MaxOps /\ faults \in 0..MaxFaults

(* The cache of SELECT is what the target has, after failures too: a skip  *)
(* of the write never leaves the wrong bank.                               *)
SelectCached == select = SELECT

InRange(a) == a >= op.address /\ a < op.address + op.size

(* A write that is reported done is in memory, byte by byte, although it   *)
(* was cut into pieces and acknowledged before it happened; nothing beside *)
(* it changed, not even when it failed.  It must not begin with a cache of *)
(* CSW that is wrong.                                                      *)
WriteExact ==
    op.kind = "write" /\ ~op.misled => \A a \in Addresses :
        IF InRange(a) THEN result = 1 => mem[a] = DataFor(a) ELSE mem[a] = op.before[a]

(* A read that is reported done returned the bytes of the range in order,  *)
(* unless it began with a wrong cache of CSW.                              *)
ReadExact ==
    op.kind = "read" /\ result = 1 /\ ~op.misled =>
        got = [ i \in 1..op.size |-> mem[op.address + i - 1] ]

(* With a wrong cache, where the width of the accesses is not the one that *)
(* was meant and what is reported need not be so, a write still changes no *)
(* word but those of its range.                                            *)
WriteContained ==
    op.kind = "write" => \A a \in Addresses :
        (\A b \in Word(a) : ~InRange(b)) => mem[a] = op.before[a]

(* What a call reports to have written or read is so, if the cache of CSW  *)
(* was right when it began, and otherwise it stays within its words; and   *)
(* the cache of SELECT, which later calls rely on, is always right.        *)
MemoryExact == SelectCached /\ WriteExact /\ ReadExact /\ WriteContained

=============================================================================
