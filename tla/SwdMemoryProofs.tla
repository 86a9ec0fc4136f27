--------------------------- MODULE SwdMemoryProofs ---------------------------
(***************************************************************************)
(* Memory that SwdMemory reports as written or read is so: how far a call  *)
(* has come at each access, and that its pieces make up the range.         *)
(***************************************************************************)
EXTENDS SwdMemory, SequenceTheorems, TLAPS

----------------------------------------------------------------------------
(* The inductive invariant                                                 *)

TypeInv ==
    /\ select \in { "MEM", "IDR" } /\ select = SELECT
    /\ csw \in { 0, 8, 32 } /\ CSW \in { 8, 32 }
    /\ TAR \in Addresses /\ mem \in [ Addresses -> Int ] /\ posted \in [ Lanes -> Int ]
    /\ sticky \in BOOLEAN /\ op.misled \in BOOLEAN
    /\ op.kind \in { "none", "write", "read", "ap" }
    /\ op.address \in Nat /\ op.size \in Nat /\ op.address + op.size <= MemSize
    /\ address \in Nat /\ size \in Nat /\ address + size <= MemSize
    /\ block \in Nat /\ block <= size /\ access \in 0..Page
    /\ pc \in { "idle", "select", "csw", "check", "tar", "drw", "dummy", "apread" }
    /\ result \in -1..1 /\ (pc # "idle" => result = -1)
    /\ ops \in 0..MaxOps /\ faults \in 0..MaxFaults

(* The bytes of an access *)
Step == IF Width = 8 THEN 1 ELSE 4
Busy == pc # "idle" /\ op.kind \in { "write", "read" }

(* How far a call has come: the pieces done, and of the piece at hand the  *)
(* accesses done, which went to the right addresses.                       *)
CallInv ==
    /\ pc \in { "csw", "check", "tar", "drw" } => op.kind \in { "write", "read" }
    /\ pc \in { "dummy", "apread" } => op.kind = "ap"
    /\ pc = "select" => op.kind # "none"
    /\ Busy => /\ op.address <= address /\ address + size = op.address + op.size
               /\ size > 0 /\ block = Piece(address, size)
               /\ pc # "drw" => access = 0
               /\ access <= Accesses
    /\ Busy /\ ~op.misled => csw = 0 \/ csw = CSW
    /\ ~op.misled /\ pc \in { "check", "tar", "drw" } => CSW = Width
    /\ ~op.misled /\ pc = "drw" /\ ~sticky /\ access < Accesses => TAR = address + Step * access

(* A write: nothing beside the range, all of the pieces done, and of the   *)
(* piece at hand what no bus error has swallowed                           *)
WriteInv ==
    op.kind = "write" /\ ~op.misled => \A a \in Addresses :
        /\ ~InRange(a) => mem[a] = op.before[a]
        /\ Busy /\ op.address <= a /\ a < address => mem[a] = DataFor(a)
        /\ pc = "drw" /\ ~sticky /\ address <= a /\ a < address + Step * access =>
              mem[a] = DataFor(a)
        /\ result = 1 /\ InRange(a) => mem[a] = DataFor(a)

(* A read: the bytes got are the first of the range, one access late, and  *)
(* the bytes of the last access wait in RDBUFF.                            *)
Prefix(n) == [ i \in 1..n |-> mem[op.address + i - 1] ]
Got == address - op.address
         + (IF pc = "drw" /\ access > 0 THEN Step * (access - 1) ELSE 0)
ReadInv ==
    op.kind = "read" /\ ~op.misled =>
        /\ Busy => got = Prefix(Got)
        /\ pc = "drw" /\ ~sticky /\ access > 0 => \A i \in 0..(Step - 1) :
              posted[(address + i) % 4] = mem[address + Step * (access - 1) + i]
        /\ result = 1 => got = Prefix(op.size)

ExactInv == TypeInv /\ CallInv /\ WriteInv /\ ReadInv

----------------------------------------------------------------------------
(* Numbers                                                                 *)

LEMMA Parameters ==
    ASSUME MemoryAssumption
    PROVE  /\ MemSize \in Nat \ {0} /\ Page \in Nat /\ Page >= 4 /\ Page % 4 = 0
           /\ MaxOps \in Nat /\ MaxFaults \in Nat
BY DEF MemoryAssumption

(* Within a page the address register counts on. *)
LEMMA NoWrap ==
    ASSUME NEW P \in Nat \ {0}, NEW a \in Nat, NEW k \in Nat, (a % P) + k < P
    PROVE  a - (a % P) + ((a + k) % P) = a + k
<1> DEFINE q == a \div P
           r == a % P
<1>1. q \in Nat /\ r \in 0..(P - 1) /\ a = P * q + r
  OBVIOUS
<1>2. (a + k) % P = r + k
  <2> DEFINE q2 == (a + k) \div P
             r2 == (a + k) % P
  <2>1. q2 \in Nat /\ r2 \in 0..(P - 1) /\ a + k = P * q2 + r2
    OBVIOUS
  <2>2. P * q + (r + k) = P * q2 + r2 /\ r + k \in 0..(P - 1)
    BY <1>1, <2>1
  <2> HIDE DEF q, r, q2, r2
  <2>3. P * q2 - P * q = P * (q2 - q)
    BY <1>1, <2>1
  <2>4. CASE q2 - q >= 1
    <3>1. P * (q2 - q) >= P
      BY <1>1, <2>1, <2>4
    <3> QED
      BY <1>1, <2>1, <2>2, <2>3, <3>1
  <2>5. CASE q2 - q <= -1
    <3>1. P * (q2 - q) <= -P
      BY <1>1, <2>1, <2>5
    <3> QED
      BY <1>1, <2>1, <2>2, <2>3, <3>1
  <2>6. CASE q2 = q
    BY <1>1, <2>1, <2>2, <2>6
  <2>7. r2 = r + k
    BY <1>1, <2>1, <2>4, <2>5, <2>6
  <2> QED
    BY <2>7 DEF r, r2
<1> QED
  BY <1>1, <1>2

(* It never leaves the memory. *)
LEMMA InMemory ==
    ASSUME NEW P \in Nat \ {0}, NEW M \in Nat, M % P = 0, NEW a \in 0..(M - 1), NEW r \in 0..(P - 1)
    PROVE  a - (a % P) + r \in 0..(M - 1)
<1> DEFINE q == a \div P
           m == M \div P
<1>1. q \in Nat /\ a % P \in 0..(P - 1) /\ a = P * q + (a % P) /\ m \in Nat /\ M = P * m
  OBVIOUS
<1>2. q + 1 <= m
  <2> SUFFICES ASSUME m <= q PROVE FALSE
    BY <1>1
  <2>1. P * m <= P * q
    BY <1>1
  <2> QED
    BY <1>1, <2>1
<1>3. P * (q + 1) <= P * m /\ P * (q + 1) = P * q + P
  BY <1>1, <1>2
<1> QED
  BY <1>1, <1>3

(* A block of words ends where its page does, or before.                   *)
LEMMA BlockFits ==
    ASSUME MemoryAssumption, NEW a \in Nat, NEW s \in Nat, a % 4 = 0, s >= 4
    PROVE  /\ Block(a, s) \in Nat /\ Block(a, s) >= 4 /\ Block(a, s) <= s
           /\ Block(a, s) % 4 = 0 /\ (a % Page) + Block(a, s) <= Page
<1>1. Page \in Nat /\ Page >= 4 /\ Page % 4 = 0
  BY Parameters
<1>2. a % Page \in 0..(Page - 1)
  BY <1>1
<1>3. (a % Page) % 4 = 0
  <2> DEFINE q == a \div Page
             w == Page \div 4
  <2>1. q \in Nat /\ a = Page * q + (a % Page) /\ w \in Nat /\ Page = 4 * w
    BY <1>1
  <2>2. a = 4 * (w * q) + (a % Page) /\ w * q \in Nat
    BY <2>1
  <2> QED
    BY <1>2, <2>2
<1>4. CASE s < Page - (a % Page)
  BY <1>1, <1>2, <1>4 DEF Block
<1>5. CASE s >= Page - (a % Page)
  BY <1>1, <1>2, <1>3, <1>5 DEF Block
<1> QED
  BY <1>1, <1>2, <1>4, <1>5

----------------------------------------------------------------------------
(* The piece at hand                                                       *)

LEMMA PieceFits ==
    ASSUME MemoryAssumption, NEW a \in Nat, NEW s \in Nat, s > 0
    PROVE  Piece(a, s) \in Nat /\ Piece(a, s) >= 1 /\ Piece(a, s) <= s /\ Piece(a, s) <= Page
<1>1. CASE a % 4 # 0 \/ s <= 3
  BY <1>1, Parameters DEF Piece
<1>2. CASE a % 4 = 0 /\ s >= 4
  <2>1. Piece(a, s) = Block(a, s)
    BY <1>2 DEF Piece
  <2>2. a % Page \in 0..(Page - 1) /\ Page \in Nat
    BY Parameters
  <2>3. /\ Block(a, s) \in Nat /\ Block(a, s) >= 4 /\ Block(a, s) <= s
        /\ Block(a, s) % 4 = 0 /\ (a % Page) + Block(a, s) <= Page
    BY <1>2, BlockFits, Zenon
  <2> HIDE DEF MemoryAssumption
  <2> QED
    BY <2>1, <2>2, <2>3
<1> QED
  BY <1>1, <1>2

LEMMA Quarter ==
    ASSUME NEW b \in Nat, b % 4 = 0
    PROVE  b \div 4 \in Nat /\ 4 * (b \div 4) = b
OBVIOUS

LEMMA Widths ==
    ASSUME MemoryAssumption, TypeInv, size > 0, block = Piece(address, size)
    PROVE  /\ Step \in { 1, 4 } /\ (Step = 1 <=> Width = 8) /\ (Step = 4 <=> Width = 32)
           /\ Accesses \in 1..Page /\ Step * Accesses = block
           /\ Step = 4 => address % 4 = 0 /\ (address % Page) + block <= Page
<1>0. address \in Nat /\ size \in Nat /\ Page \in Nat /\ Page >= 4
  BY Parameters DEF TypeInv
<1>1. CASE Width = 8
  BY <1>0, <1>1 DEF Width, Step, Accesses, Piece
<1>2. CASE Width # 8
  <2>1. /\ Width = 32 /\ Step = 4 /\ block = Block(address, size)
        /\ address % 4 = 0 /\ size >= 4 /\ Accesses = block \div 4
    BY <1>0, <1>2 DEF Width, Step, Accesses, Piece
  <2>2. /\ block \in Nat /\ block >= 4 /\ block % 4 = 0 /\ (address % Page) + block <= Page
        /\ address % Page \in Nat
    <3>1. /\ Block(address, size) \in Nat /\ Block(address, size) >= 4
          /\ Block(address, size) <= size /\ Block(address, size) % 4 = 0
          /\ (address % Page) + Block(address, size) <= Page
      BY <1>0, <2>1, BlockFits, Zenon
    <3> QED
      BY <1>0, <2>1, <3>1
  <2>3. block <= Page
    BY <1>0, <2>2
  <2>4. 4 * (block \div 4) = block /\ block \div 4 \in 1..Page
    <3>1. block \div 4 \in Nat /\ 4 * (block \div 4) = block
      BY <2>2, Quarter, Zenon
    <3> QED
      BY <1>0, <2>2, <2>3, <3>1
  <2> QED
    BY <2>1, <2>2, <2>4
<1> QED
  BY <1>1, <1>2

(* An access of the piece touches its bytes, and the address register is   *)
(* where the next one begins.                                              *)
Ready ==
    /\ CSW = Width /\ TAR = address + Step * access /\ access < Accesses
    /\ size > 0 /\ block = Piece(address, size)

LEMMA AccessFits ==
    ASSUME MemoryAssumption, TypeInv, Ready
    PROVE  /\ \A a \in Int : a \in Touched <=> TAR <= a /\ a < TAR + Step
           /\ TAR >= address /\ TAR + Step <= address + block
           /\ access + 1 < Accesses => Incremented = TAR + Step
           /\ Step = 4 => TAR % 4 = 0
<1>0. /\ address \in Nat /\ access \in Nat /\ TAR \in Nat /\ Page \in Nat \ {0} /\ block \in Nat
      /\ Accesses \in Nat /\ Step \in { 1, 4 } /\ Step * Accesses = block
      /\ (Step = 1 <=> Width = 8) /\ (Step = 4 <=> Width = 32)
      /\ Step = 4 => address % 4 = 0 /\ (address % Page) + block <= Page
      /\ TAR = address + Step * access /\ access < Accesses /\ CSW = Width
  <2>1. /\ size > 0 /\ block = Piece(address, size)
        /\ TAR = address + Step * access /\ access < Accesses /\ CSW = Width
    BY DEF Ready
  <2>2. /\ Step \in { 1, 4 } /\ (Step = 1 <=> Width = 8) /\ (Step = 4 <=> Width = 32)
        /\ Accesses \in 1..Page /\ Step * Accesses = block
        /\ Step = 4 => address % 4 = 0 /\ (address % Page) + block <= Page
    BY <2>1, Widths, Zenon
  <2>3. /\ address \in Nat /\ access \in 0..Page /\ TAR \in 0..(MemSize - 1)
        /\ block \in Nat /\ Page \in Nat \ {0} /\ MemSize \in Nat
    BY Parameters DEF TypeInv, Addresses
  <2> QED
    BY <2>1, <2>2, <2>3
<1>1. TAR >= address /\ TAR + Step <= address + block
  BY <1>0
<1>2. CASE Step = 1
  <2>1. Touched = { TAR } /\ Incremented = TAR - (TAR % Page) + ((TAR + 1) % Page)
    BY <1>0, <1>2 DEF Touched, Incremented
  <2>2. Accesses = 1
    BY <1>0, <1>2 DEF Accesses
  <2> QED
    BY <1>0, <1>1, <1>2, <2>1, <2>2
<1>3. CASE Step = 4
  <2>1. TAR % 4 = 0
    BY <1>0, <1>3
  <2>2. Touched = TAR..(TAR + 3)
    BY <1>0, <1>3, <2>1 DEF Touched, Word
  <2>3. Incremented = TAR - (TAR % Page) + ((TAR + 4) % Page)
    BY <1>0, <1>3 DEF Incremented
  <2>4. ASSUME access + 1 < Accesses
        PROVE  Incremented = TAR + 4
    <3>1. 4 * access + 8 <= block
      BY <1>0, <1>3, <2>4
    <3>2. address - (address % Page) + ((address + (4 * access)) % Page) = address + (4 * access)
      <4>1. (address % Page) + (4 * access) < Page
        BY <1>0, <1>3, <3>1
      <4>2. 4 * access \in Nat
        BY <1>0
      <4> QED
        BY <1>0, <4>1, <4>2, NoWrap, Zenon
    <3>3. TAR % Page = (address % Page) + 4 * access
      <4>1. TAR = address + (4 * access)
        BY <1>0, <1>3
      <4>2. address % Page \in Int /\ (address + (4 * access)) % Page \in Int
        BY <1>0
      <4> QED
        BY <1>0, <3>2, <4>1, <4>2
    <3>4. (TAR % Page) + 4 < Page
      BY <1>0, <1>3, <3>1, <3>3
    <3> QED
      <4>1. TAR - (TAR % Page) + ((TAR + 4) % Page) = TAR + 4
        <5>1. 4 \in Nat
          OBVIOUS
        <5> QED
          BY <1>0, <3>4, <5>1, NoWrap, Zenon
      <4> QED
        BY <2>3, <4>1
  <2> QED
    BY <1>0, <1>1, <1>3, <2>1, <2>2, <2>4
<1> QED
  BY <1>0, <1>2, <1>3

----------------------------------------------------------------------------
(* The steps that do not touch the data                                    *)

(* What depends on the piece at hand is kept with it. *)
LEMMA SamePiece ==
    ASSUME UNCHANGED piece
    PROVE  /\ Width' = Width /\ Step' = Step /\ Accesses' = Accesses
           /\ op' = op /\ address' = address /\ size' = size /\ block' = block
           /\ Piece(address, size)' = Piece(address, size)
BY DEF piece, Width, Step, Accesses, Piece, Block

(* A step of a call that leaves memory and what was read alone, and either *)
(* ends the call with 0 or leaves the piece where it is                    *)
Quiet ==
    /\ pc # "idle" /\ UNCHANGED << op, address, size, block, mem, posted, got >>
    /\ \/ pc' = "idle" /\ result' = 0
       \/ result' = -1 /\ (pc' = "drw" => access' = 0) /\ (pc = "drw" => access = 0)

LEMMA QuietStep ==
    ASSUME TypeInv, WriteInv, ReadInv, Quiet
    PROVE  WriteInv' /\ ReadInv'
<1>1. /\ op' = op /\ address' = address /\ size' = size /\ mem' = mem /\ got' = got
      /\ Width' = Width /\ Step' = Step /\ pc # "idle" /\ result' # 1
      /\ pc' = "drw" => access' = 0
      /\ pc' # "idle" /\ pc = "drw" => access = 0
  BY DEF Quiet, Width, Step
<1>2. WriteInv'
  <2> SUFFICES ASSUME op.kind = "write", ~op.misled, NEW a \in Addresses
               PROVE  /\ ~InRange(a) => mem[a] = op.before[a]
                      /\ (pc' # "idle" /\ op.address <= a /\ a < address) => mem[a] = DataFor(a)
    <3>1. ASSUME NEW a \in Addresses, pc' = "drw", address <= a, a < address + Step * access'
          PROVE  FALSE
      BY <1>1, <3>1 DEF TypeInv, Addresses, Step
    <3> QED
      BY <1>1, <3>1 DEF WriteInv, InRange, DataFor, Busy
  <2>1. ~op.misled
    BY <1>1
  <2> QED
    BY <1>1, <2>1 DEF WriteInv, Busy
<1>3. ReadInv'
  <2>1. ASSUME op.kind = "read", ~op.misled, pc' # "idle"
        PROVE  Got' = Got /\ got = Prefix(Got)
    BY <1>1, <2>1 DEF Got, ReadInv, Busy
  <2>2. ASSUME op.kind = "read", ~op.misled, pc' # "idle"
        PROVE  got' = Prefix(Got)'
    BY <1>1, <2>1, <2>2 DEF Prefix
  <2>3. ~(pc' = "drw" /\ access' > 0)
    BY <1>1
  <2> QED
    BY <1>1, <2>2, <2>3 DEF ReadInv, Busy
<1> QED
  BY <1>2, <1>3

(* A transfer that fails for good *)
LEMMA FailsEffect ==
    ASSUME MemoryAssumption, TypeInv, Fails
    PROVE  faults' \in 0..MaxFaults /\ result' = 0 /\ pc' = "idle"
BY Parameters DEF Fails, TypeInv

LEMMA SelectStep ==
    ASSUME MemoryAssumption, ExactInv, Select
    PROVE  ExactInv'
<1> USE DEF ExactInv
<1>1. /\ pc = "select" /\ UNCHANGED << csw, CSW, TAR, mem, posted, sticky, op, address, size,
                                       block, access, got, ops >>
      /\ UNCHANGED piece
      /\ select' \in { "MEM", "IDR" } /\ select' = SELECT'
  BY DEF Select, swd_write_dp, TypeInv, Bank, piece
<1>2. \/ pc' = (IF op.kind = "ap" THEN "dummy" ELSE "csw") /\ UNCHANGED << faults, result >>
      \/ pc' = "idle" /\ result' = 0 /\ faults' \in 0..MaxFaults
  BY FailsEffect DEF Select, swd_write_dp
<1>3. TypeInv'
  BY <1>1, <1>2 DEF TypeInv
<1>4. CallInv'
  BY <1>1, <1>2, SamePiece DEF CallInv, Busy, TypeInv
<1>5. Quiet
  BY <1>1, <1>2 DEF Quiet, TypeInv
<1> QED
  BY <1>3, <1>4, <1>5, QuietStep

LEMMA CswStep ==
    ASSUME MemoryAssumption, ExactInv, swd_write_ap
    PROVE  ExactInv'
<1> USE DEF ExactInv
<1>1. /\ pc = "csw" /\ UNCHANGED << select, SELECT, TAR, mem, posted, sticky, op, address, size,
                                    block, access, got, ops >>
      /\ UNCHANGED piece
      /\ csw' = Width
  BY DEF swd_write_ap, piece
<1>2. \/ csw = Width /\ pc' = "tar" /\ UNCHANGED << CSW, faults, result >>
      \/ CSW' = Width /\ pc' = "check" /\ UNCHANGED << faults, result >>
      \/ pc' = "idle" /\ result' = 0 /\ faults' \in 0..MaxFaults /\ UNCHANGED CSW
  BY FailsEffect DEF swd_write_ap
<1>3. Width \in { 8, 32 }
  BY DEF Width
<1>4. TypeInv'
  BY <1>1, <1>2, <1>3 DEF TypeInv
<1>5. CallInv'
  BY <1>1, <1>2, <1>3, SamePiece DEF CallInv, Busy, TypeInv
<1>6. Quiet
  BY <1>1, <1>2, <1>3 DEF Quiet, TypeInv
<1> QED
  BY <1>4, <1>5, <1>6, QuietStep

LEMMA CheckStep ==
    ASSUME MemoryAssumption, ExactInv, CheckCsw
    PROVE  ExactInv'
<1> USE DEF ExactInv
<1>1. /\ pc = "check" /\ UNCHANGED << select, csw, SELECT, CSW, TAR, mem, posted, sticky, op,
                                      address, size, block, access, got, ops >>
      /\ UNCHANGED piece
  BY DEF CheckCsw, piece, host, target
<1>2. \/ pc' = "tar" /\ UNCHANGED << faults, result >>
      \/ pc' = "idle" /\ result' = 0 /\ faults' \in 0..MaxFaults
  BY FailsEffect DEF CheckCsw
<1>3. TypeInv'
  BY <1>1, <1>2 DEF TypeInv
<1>4. CallInv'
  BY <1>1, <1>2, SamePiece DEF CallInv, Busy, TypeInv
<1>5. Quiet
  BY <1>1, <1>2 DEF Quiet, TypeInv
<1> QED
  BY <1>3, <1>4, <1>5, QuietStep

LEMMA TarStep ==
    ASSUME MemoryAssumption, ExactInv, WriteTar
    PROVE  ExactInv'
<1> USE DEF ExactInv
<1>1. /\ pc = "tar" /\ UNCHANGED << select, csw, SELECT, CSW, mem, posted, sticky, op,
                                    address, size, block, access, got, ops >>
      /\ UNCHANGED piece
  BY DEF WriteTar, piece, host
<1>2. \/ pc' = "drw" /\ TAR' = address /\ UNCHANGED << faults, result >>
      \/ pc' = "idle" /\ TAR' = TAR /\ result' = 0 /\ faults' \in 0..MaxFaults
  BY FailsEffect DEF WriteTar
<1>3. /\ op.kind \in { "write", "read" } /\ size > 0 /\ access = 0
  BY <1>1 DEF CallInv, Busy
<1>4. address \in Addresses
  BY <1>3, Parameters DEF TypeInv, Addresses
<1>5. TypeInv'
  BY <1>1, <1>2, <1>4 DEF TypeInv
<1>6. CallInv'
  <2>1. Step * access = 0
    BY <1>3 DEF Step
  <2> QED
    BY <1>1, <1>2, <1>3, <2>1, SamePiece DEF CallInv, Busy, TypeInv
<1>7. Quiet
  BY <1>1, <1>2, <1>3 DEF Quiet, TypeInv
<1> QED
  BY <1>5, <1>6, <1>7, QuietStep

(* The read of another bank of registers *)
LEMMA DummyStep ==
    ASSUME MemoryAssumption, ExactInv, DummyRead
    PROVE  ExactInv'
<1> USE DEF ExactInv
<1>1. /\ pc = "dummy" /\ pc' = "apread"
      /\ UNCHANGED << select, csw, SELECT, CSW, TAR, mem, sticky, op,
                      address, size, block, access, got, result, ops >>
      /\ UNCHANGED piece
      /\ posted' \in [ Lanes -> Int ] /\ faults' \in 0..MaxFaults
  BY Parameters DEF DummyRead, piece, host, TypeInv, IDR
<1>2. op.kind = "ap"
  BY <1>1 DEF CallInv
<1>3. TypeInv'
  BY <1>1 DEF TypeInv
<1>4. CallInv'
  BY <1>1, <1>2, SamePiece DEF CallInv, Busy, TypeInv
<1> QED
  BY <1>1, <1>2, <1>3, <1>4 DEF WriteInv, ReadInv

LEMMA ApReadStep ==
    ASSUME MemoryAssumption, ExactInv, ApRead
    PROVE  ExactInv'
<1> USE DEF ExactInv
<1>1. /\ pc = "apread" /\ pc' = "idle"
      /\ UNCHANGED << select, csw, SELECT, CSW, TAR, mem, sticky, op,
                      address, size, block, access, ops >>
      /\ UNCHANGED piece
      /\ posted' \in [ Lanes -> Int ] /\ faults' \in 0..MaxFaults /\ result' \in { 0, 1 }
  BY FailsEffect DEF ApRead, piece, host, TypeInv, IDR
<1>2. op.kind = "ap"
  BY <1>1 DEF CallInv
<1>3. TypeInv'
  BY <1>1 DEF TypeInv
<1>4. CallInv'
  BY <1>1, <1>2, SamePiece DEF CallInv, Busy, TypeInv
<1> QED
  BY <1>1, <1>2, <1>3, <1>4 DEF WriteInv, ReadInv

----------------------------------------------------------------------------
(* Between the calls                                                       *)

LEMMA ReadApStep ==
    ASSUME MemoryAssumption, ExactInv, swd_read_ap
    PROVE  ExactInv'
<1> USE DEF ExactInv
<1>1. /\ pc' = "select" /\ result' = -1 /\ ops' = ops + 1 /\ ops < MaxOps
      /\ op'.kind = "ap" /\ op'.address = 0 /\ op'.size = 0 /\ op'.misled \in BOOLEAN
      /\ UNCHANGED << select, csw, SELECT, CSW, TAR, mem, posted, sticky, address, size, block,
                      access, faults >>
  BY DEF swd_read_ap, host, target, Misled
<1>2. TypeInv'
  BY <1>1, Parameters DEF TypeInv
<1>3. CallInv'
  BY <1>1 DEF CallInv, Busy
<1> QED
  BY <1>1, <1>2, <1>3 DEF WriteInv, ReadInv

LEMMA ClearStep ==
    ASSUME MemoryAssumption, ExactInv, swd_clear_errors
    PROVE  ExactInv'
<1> USE DEF ExactInv
<1>1. /\ pc = "idle" /\ ops' = ops + 1 /\ ops < MaxOps
      /\ UNCHANGED << select, csw, SELECT, CSW, TAR, mem, posted, op, address, size, block,
                      pc, access, got, result, faults >>
      /\ UNCHANGED piece
  BY DEF swd_clear_errors, host, piece
<1>2. sticky' \in BOOLEAN
  BY DEF swd_clear_errors
<1>3. TypeInv'
  BY <1>1, <1>2, Parameters DEF TypeInv
<1>4. CallInv'
  BY <1>1, SamePiece DEF CallInv, Busy
<1>5. WriteInv'
  BY <1>1 DEF WriteInv, Busy, InRange, DataFor
<1>6. ReadInv'
  BY <1>1 DEF ReadInv, Busy, Prefix
<1> QED
  BY <1>3, <1>4, <1>5, <1>6

LEMMA EmptyRange ==
    ASSUME NEW m, NEW o \in Int
    PROVE  << >> = [ i \in 1..0 |-> m[o + i - 1] ]
OBVIOUS

LEMMA CallStep ==
    ASSUME MemoryAssumption, ExactInv, NEW kind \in { "write", "read" }, NEW r \in Ranges,
           Call(kind, r[1], r[2])
    PROVE  ExactInv'
<1> USE DEF ExactInv
<1> DEFINE a == r[1]
           s == r[2]
<1>1. a \in Nat /\ s \in Nat /\ a + s <= MemSize
  BY DEF MemoryAssumption
<1> HIDE DEF a, s
<1>2. /\ pc = "idle" /\ ops < MaxOps /\ ops' = ops + 1 /\ got' = << >>
      /\ op'.kind = kind /\ op'.address = a /\ op'.size = s /\ op'.before = mem
      /\ op'.misled \in BOOLEAN /\ (~op'.misled => csw = 0 \/ csw = CSW)
      /\ address' = a /\ size' = s /\ access' = 0
      /\ UNCHANGED << select, csw, SELECT, CSW, TAR, mem, posted, sticky, faults >>
      /\ \/ s = 0 /\ result' = 1 /\ pc' = "idle" /\ block' = 0
         \/ s # 0 /\ result' = -1 /\ pc' = "select" /\ block' = Piece(a, s)
  BY DEF Call, Continue, Misled, host, target, a, s
<1>3. s # 0 => Piece(a, s) \in Nat /\ Piece(a, s) <= s
  <2> SUFFICES ASSUME s # 0 PROVE Piece(a, s) \in Nat /\ Piece(a, s) <= s
    OBVIOUS
  <2>1. s > 0
    BY <1>1
  <2> QED
    BY <1>1, <2>1, PieceFits, Zenon
<1>4. TypeInv'
  <2>1. block' \in Nat /\ block' <= size' /\ result' \in -1..1 /\ (pc' # "idle" => result' = -1)
        /\ pc' \in { "idle", "select" } /\ access' \in 0..Page
    BY <1>1, <1>2, <1>3, Parameters
  <2>2. ops' \in 0..MaxOps
    BY <1>2, Parameters DEF TypeInv
  <2> QED
    BY <1>1, <1>2, <2>1, <2>2 DEF TypeInv
<1>5. CallInv'
  <2>1. Piece(address, size)' = Piece(a, s)
    BY <1>2 DEF Piece, Block
  <2>2. s # 0 => Accesses' >= 0
    <3>1. s # 0 => block' \div 4 >= 0
      BY <1>1, <1>2, <1>3
    <3> QED
      BY <3>1 DEF Accesses
  <2>3. s # 0 => s > 0
    BY <1>1
  <2>4. s # 0 => access' <= Accesses'
    BY <1>2, <2>2
  <2> QED
    BY <1>1, <1>2, <2>1, <2>3, <2>4 DEF CallInv, Busy
<1>6. WriteInv'
  BY <1>1, <1>2 DEF WriteInv, Busy, InRange, Addresses
<1>7. ReadInv'
  <2>1. s # 0 => Got' = 0
    BY <1>1, <1>2 DEF Got
  <2>2. << >> = [ i \in 1..0 |-> mem[a + i - 1] ]
    BY <1>1, EmptyRange
  <2>3. s = 0 => got' = Prefix(op.size)'
    BY <1>2, <2>2 DEF Prefix
  <2>4. s # 0 => got' = Prefix(Got)'
    BY <1>2, <2>1, <2>2 DEF Prefix
  <2> QED
    BY <1>2, <2>3, <2>4 DEF ReadInv, Busy
<1> QED
  BY <1>4, <1>5, <1>6, <1>7

----------------------------------------------------------------------------
(* The accesses                                                            *)

(* The address register stays in the memory. *)
LEMMA TarInMemory ==
    ASSUME MemoryAssumption, TypeInv
    PROVE  Incremented \in Addresses
<1> DEFINE w == IF CSW = 32 THEN 4 ELSE 1
           n == (TAR + w) % Page
<1>1. /\ TAR \in 0..(MemSize - 1) /\ Page \in Nat \ {0} /\ MemSize \in Nat
      /\ MemSize % Page = 0
  BY DEF TypeInv, Addresses, MemoryAssumption
<1>2. n \in 0..(Page - 1)
  BY <1>1
<1> HIDE DEF n, w
<1>3. TAR - (TAR % Page) + n \in 0..(MemSize - 1)
  BY <1>1, <1>2, InMemory, Zenon
<1> QED
  BY <1>3 DEF Incremented, Addresses, n, w

(* At an access the registers of the target are right for it. *)
LEMMA AccessReady ==
    ASSUME CallInv, ~op.misled, ~sticky, pc = "drw", op.kind \in { "write", "read" },
           access < Accesses
    PROVE  Ready
BY DEF CallInv, Ready, Busy

LEMMA LaneOf ==
    ASSUME NEW t \in Nat, t % 4 = 0, NEW a \in Int, t <= a, a < t + 4
    PROVE  a % 4 = a - t /\ a % 4 \in Lanes
BY DEF Lanes

LEMMA WriteStep ==
    ASSUME MemoryAssumption, ExactInv, swd_write_block
    PROVE  ExactInv'
<1> USE DEF ExactInv
<1>1. /\ pc = "drw" /\ op.kind = "write" /\ access < Accesses /\ result = -1
      /\ UNCHANGED << select, csw, SELECT, CSW, op, address, size, block, got, ops >>
      /\ UNCHANGED piece
  BY DEF swd_write_block, host, piece, TypeInv
<1>2. /\ size > 0 /\ block = Piece(address, size) /\ Busy
      /\ op.address <= address /\ address + size = op.address + op.size
  BY <1>1 DEF CallInv, Busy
<1>3. /\ Step \in { 1, 4 } /\ (Step = 1 <=> Width = 8) /\ (Step = 4 <=> Width = 32)
      /\ Accesses \in 1..Page /\ Step * Accesses = block
  BY <1>2, Widths DEF ExactInv
<1>4. access \in Nat /\ address \in Nat /\ Page \in Nat
  BY Parameters DEF TypeInv
<1>5. ASSUME Fails, UNCHANGED << TAR, mem, posted, sticky, access >>
      PROVE  ExactInv'
  <2>1. faults' \in 0..MaxFaults /\ result' = 0 /\ pc' = "idle"
    BY <1>5, FailsEffect DEF ExactInv
  <2>2. TypeInv'
    BY <1>1, <1>5, <2>1 DEF TypeInv
  <2>3. CallInv'
    BY <1>1, <1>5, <2>1 DEF CallInv, Busy
  <2>4. Quiet
    BY <1>1, <1>5, <2>1 DEF Quiet
  <2> QED
    BY <2>2, <2>3, <2>4, QuietStep
<1>6. ASSUME Ok, access' = access + 1, BusWrite(Written), UNCHANGED << pc, result >>
      PROVE  ExactInv'
  <2>1. /\ ~sticky /\ UNCHANGED << posted, sticky, faults >> /\ TAR' = Incremented
        /\ mem' = [ a \in Addresses |-> IF a \in Touched THEN Written[a % 4] ELSE mem[a] ]
    BY <1>6 DEF Ok, BusWrite
  <2>2. \A l \in Lanes : Written[l] \in Int
    <3>1. /\ address \in Int /\ access \in Int /\ op.address \in Int
          /\ Width = 8 \/ Width = 32
      BY <1>3, <1>4 DEF TypeInv
    <3> QED
      BY ONLY <3>1 DEF Written, DataFor, Lanes
  <2>3. mem' \in [ Addresses -> Int ]
    <3>1. \A a \in Addresses : a % 4 \in Lanes /\ mem[a] \in Int
      BY DEF Addresses, Lanes, TypeInv
    <3> QED
      BY <2>1, <2>2, <3>1
  <2>4. access' \in 0..Page
    BY <1>1, <1>3, <1>4, <1>6
  <2>5. TAR' \in Addresses
    BY <2>1, TarInMemory DEF ExactInv
  <2>6. TypeInv'
    BY <1>1, <1>6, <2>1, <2>3, <2>4, <2>5 DEF TypeInv
  <2>7. ASSUME ~op.misled
        PROVE  /\ \A a \in Int : a \in Touched <=> TAR <= a /\ a < TAR + Step
               /\ TAR >= address /\ TAR + Step <= address + block
               /\ access + 1 < Accesses => Incremented = TAR + Step
               /\ Step = 4 => TAR % 4 = 0
               /\ CSW = Width /\ TAR = address + Step * access
    <3>1. Ready
      BY <1>1, <2>1, <2>7, AccessReady DEF ExactInv
    <3> QED
      BY <3>1, AccessFits DEF ExactInv, Ready
  <2>8. CallInv'
    <3>1. access + 1 <= Accesses
      BY <1>1, <1>3, <1>4
    <3>2. Step * (access + 1) = Step * access + Step
      BY <1>3, <1>4
    <3>3. ~op.misled /\ access + 1 < Accesses => TAR' = address + Step * (access + 1)
      BY <1>3, <1>4, <2>1, <2>7, <3>2
    <3> QED
      BY <1>1, <1>2, <1>6, <2>1, <3>1, <3>3, SamePiece DEF CallInv, Busy
  <2>9. WriteInv'
    <3> SUFFICES ASSUME ~op.misled, NEW a \in Addresses
                 PROVE  /\ ~InRange(a) => mem'[a] = op.before[a]
                        /\ op.address <= a /\ a < address => mem'[a] = DataFor(a)
                        /\ address <= a /\ a < address + Step * (access + 1) =>
                              mem'[a] = DataFor(a)
      BY <1>1, <1>6, <2>1, SamePiece DEF WriteInv, InRange, DataFor
    <3>1. a \in Int /\ TAR \in Int /\ Step * access \in Int
          /\ Step * (access + 1) = Step * access + Step
          /\ op.address \in Int /\ op.size \in Int /\ size \in Int /\ block \in Int
          /\ block <= size
      BY <1>3, <1>4 DEF Addresses, TypeInv
    <3>2. CASE a \in Touched
      <4>1. TAR <= a /\ a < TAR + Step
        BY <2>7, <3>1, <3>2
      <4>2. InRange(a) /\ address <= a
        BY <1>2, <1>4, <2>7, <3>1, <4>1, <1>3 DEF InRange
      <4>3. mem'[a] = Written[a % 4]
        BY <2>1, <3>2
      <4>4. CASE Step = 1
        <5>1. Accesses = 1 /\ access = 0 /\ Width = 8
          BY <1>1, <1>3, <1>4, <4>4 DEF Accesses
        <5>2. a = address
          BY <1>4, <2>7, <3>1, <4>1, <4>4, <5>1
        <5>3. Written[address % 4] = DataFor(address)
          BY <1>4, <5>1 DEF Written, Lanes
        <5> QED
          BY <1>4, <3>1, <4>2, <4>3, <5>2, <5>3
      <4>5. CASE Step = 4
        <5>1. Width = 32 /\ a % 4 = a - TAR /\ a % 4 \in Lanes
          <6>1. TAR \in Nat /\ TAR % 4 = 0 /\ TAR <= a /\ a < TAR + 4 /\ Width = 32
            BY <1>3, <2>7, <4>1, <4>5 DEF TypeInv, Addresses
          <6> QED
            BY <3>1, <6>1, LaneOf
        <5>2. Written[a % 4] = DataFor(address + 4 * access + (a % 4))
          BY <5>1 DEF Written
        <5>3. address + 4 * access + (a % 4) = a
          BY <1>4, <2>7, <3>1, <4>5, <5>1
        <5> QED
          BY <1>4, <3>1, <4>2, <4>3, <5>2, <5>3
      <4> QED
        BY <1>3, <4>4, <4>5
    <3>3. CASE a \notin Touched
      <4>1. ~(TAR <= a /\ a < TAR + Step)
        BY <2>7, <3>1, <3>3
      <4>2. mem'[a] = mem[a]
        BY <2>1, <3>3
      <4>3. /\ ~InRange(a) => mem[a] = op.before[a]
            /\ op.address <= a /\ a < address => mem[a] = DataFor(a)
            /\ address <= a /\ a < address + Step * access => mem[a] = DataFor(a)
        BY <1>1, <1>2, <2>1 DEF WriteInv
      <4>4. TAR = address + Step * access
        BY <2>7
      <4> QED
        BY <1>3, <1>4, <3>1, <4>1, <4>2, <4>3, <4>4
    <3> QED
      BY <3>2, <3>3
  <2>10. ReadInv'
    BY <1>1 DEF ReadInv
  <2> QED
    BY <2>6, <2>8, <2>9, <2>10
<1>7. ASSUME Ok, access' = access + 1, BusError, UNCHANGED << pc, result >>
      PROVE  ExactInv'
  <2>1. /\ faults' = faults + 1 /\ faults < MaxFaults
        /\ UNCHANGED << TAR, mem, posted, pc, result >>
    BY <1>7 DEF BusError
  <2>2. sticky' /\ sticky' \in BOOLEAN
    BY <1>7 DEF BusError
  <2>3. access' \in 0..Page /\ access' <= Accesses
    BY <1>1, <1>3, <1>4, <1>7
  <2>4. TypeInv'
    BY <1>1, <2>1, <2>2, <2>3, Parameters DEF TypeInv
  <2>5. CallInv'
    BY <1>1, <1>2, <2>1, <2>2, <2>3, SamePiece DEF CallInv, Busy
  <2>6. WriteInv'
    BY <1>1, <1>2, <2>1, <2>2, SamePiece DEF WriteInv, Busy, InRange, DataFor
  <2>7. ReadInv'
    BY <1>1 DEF ReadInv
  <2> QED
    BY <2>4, <2>5, <2>6, <2>7
<1>8. \/ Fails /\ UNCHANGED << TAR, mem, posted, sticky, access >>
      \/ Ok /\ access' = access + 1 /\ BusWrite(Written) /\ UNCHANGED << pc, result >>
      \/ Ok /\ access' = access + 1 /\ BusError /\ UNCHANGED << pc, result >>
  BY Zenon DEF swd_write_block
<1> QED
  BY <1>5, <1>6, <1>7, <1>8

(* A prefix of the bytes grows by what an access read. *)
LEMMA PrefixGrows ==
    ASSUME NEW m \in [ Addresses -> Int ], NEW o \in Nat, NEW n \in Nat,
           NEW w \in Seq(Int), o + n + Len(w) <= MemSize, MemSize \in Nat,
           \A i \in 1..Len(w) : w[i] = m[o + n + i - 1]
    PROVE  [ i \in 1..n |-> m[o + i - 1] ] \o w = [ i \in 1..(n + Len(w)) |-> m[o + i - 1] ]
<1> DEFINE p == [ i \in 1..n |-> m[o + i - 1] ]
           q == [ i \in 1..(n + Len(w)) |-> m[o + i - 1] ]
<1>0. Len(w) \in Nat
  BY LenProperties
<1>1. p \in [ 1..n -> Int ] /\ q \in [ 1..(n + Len(w)) -> Int ]
  BY <1>0 DEF Addresses
<1> HIDE DEF p, q
<1>2. p \in Seq(Int) /\ q \in Seq(Int)
  <2>1. n + Len(w) \in Nat
    BY <1>0
  <2>2. Seq(Int) = UNION { [ 1..k -> Int ] : k \in Nat }
    BY SeqDef
  <2>3. p \in Seq(Int)
    BY <1>1, <2>2, Zenon
  <2>4. q \in Seq(Int)
    BY <1>1, <2>1, <2>2, Zenon
  <2> QED
    BY <2>3, <2>4
<1>3. Len(p) = n /\ Len(q) = n + Len(w)
  BY <1>0, <1>1, <1>2, LenProperties
<1>4. /\ p \o w \in Seq(Int) /\ Len(p \o w) = n + Len(w)
      /\ \A i \in 1..(n + Len(w)) : (p \o w)[i] = IF i <= n THEN p[i] ELSE w[i - n]
  BY <1>2, <1>3, ConcatProperties
<1>5. ASSUME NEW i \in 1..(n + Len(w)) PROVE (p \o w)[i] = q[i]
  <2>1. q[i] = m[o + i - 1]
    BY DEF q
  <2>2. CASE i <= n
    BY <1>0, <1>4, <2>1, <2>2 DEF p
  <2>3. CASE i > n
    <3>1. i - n \in 1..Len(w) /\ o + n + (i - n) - 1 = o + i - 1
      BY <1>0, <2>3
    <3> QED
      BY <1>0, <1>4, <2>1, <2>3, <3>1
  <2>4. i <= n \/ i > n
    BY <1>0
  <2> QED
    BY <2>2, <2>3, <2>4, Zenon
<1>6. p \o w = q
  BY <1>2, <1>3, <1>4, <1>5, SeqEqual
<1> QED
  BY <1>6 DEF p, q

(* The bytes of an access are those of memory. *)
LEMMA BytesRead ==
    ASSUME MemoryAssumption, TypeInv, NEW n \in Nat, NEW b \in Nat,
           b + Step <= MemSize, Step = 4 => address % 4 = 0, Step \in { 1, 4 },
           \A i \in 0..(Step - 1) : posted[(address + i) % 4] = mem[b + i]
    PROVE  /\ Bytes(posted) \in Seq(Int) /\ Len(Bytes(posted)) = Step
           /\ \A i \in 1..Step : Bytes(posted)[i] = mem[b + i - 1]
<1>0. /\ posted[0] \in Int /\ posted[1] \in Int /\ posted[2] \in Int /\ posted[3] \in Int
      /\ address \in Nat /\ address % 4 \in Lanes /\ posted[address % 4] \in Int
  BY DEF TypeInv, Lanes
<1>1. CASE Step = 1
  <2>1. Width = 8
    BY <1>1 DEF Step
  <2>2. Bytes(posted) = << posted[address % 4] >>
    BY <2>1 DEF Bytes
  <2>3. posted[address % 4] = mem[b]
    BY <1>0, <1>1
  <2> QED
    BY <1>0, <1>1, <2>2, <2>3
<1>2. CASE Step = 4
  <2>1. Width # 8
    BY <1>2 DEF Step
  <2>2. Bytes(posted) = << posted[0], posted[1], posted[2], posted[3] >>
    BY <2>1 DEF Bytes
  <2>3. /\ (address + 0) % 4 = 0 /\ (address + 1) % 4 = 1
        /\ (address + 2) % 4 = 2 /\ (address + 3) % 4 = 3
    BY <1>0, <1>2
  <2>4. /\ posted[0] = mem[b] /\ posted[1] = mem[b + 1] /\ posted[2] = mem[b + 2]
        /\ posted[3] = mem[b + 3]
    BY <1>2, <2>3
  <2> QED
    BY <1>0, <1>2, <2>2, <2>4
<1> QED
  BY <1>1, <1>2

(* What has been read grows by the access that waits in RDBUFF. *)
LEMMA GotGrows ==
    ASSUME MemoryAssumption, TypeInv, CallInv, ReadInv, ~op.misled, ~sticky,
           pc = "drw", op.kind = "read", access > 0
    PROVE  got \o Bytes(posted) = Prefix(address - op.address + Step * access)
<1> DEFINE b == address + Step * (access - 1)
           n == b - op.address
<1>1. /\ size > 0 /\ block = Piece(address, size) /\ Busy
      /\ op.address <= address /\ address + size = op.address + op.size
      /\ access <= Accesses
  BY DEF CallInv, Busy
<1>2. /\ Step \in { 1, 4 } /\ Accesses \in Nat /\ Step * Accesses = block
      /\ Step = 4 => address % 4 = 0
  BY <1>1, Widths
<1>3. /\ access \in Nat /\ address \in Nat /\ size \in Nat /\ block \in Nat /\ block <= size
      /\ op.address \in Nat /\ op.size \in Nat /\ address + size <= MemSize
      /\ MemSize \in Nat /\ mem \in [ Addresses -> Int ]
  BY Parameters DEF TypeInv
<1>4. Step * access <= Step * Accesses /\ Step * access = Step * (access - 1) + Step
  BY <1>1, <1>2, <1>3
<1>5. b \in Nat /\ n \in Nat /\ b + Step <= MemSize
      /\ n + Step = address - op.address + Step * access /\ op.address + n = b
  BY <1>1, <1>2, <1>3, <1>4
<1>6. /\ got = Prefix(n)
      /\ \A i \in 0..(Step - 1) : posted[(address + i) % 4] = mem[b + i]
  <2>1. Got = n
    BY <1>1, <1>2, <1>3 DEF Got
  <2> QED
    BY <1>1, <2>1 DEF ReadInv
<1> HIDE DEF b, n
<1>7. /\ Bytes(posted) \in Seq(Int) /\ Len(Bytes(posted)) = Step
      /\ \A i \in 1..Step : Bytes(posted)[i] = mem[b + i - 1]
  BY <1>2, <1>5, <1>6, BytesRead
<1>8. Prefix(n) \o Bytes(posted) = Prefix(n + Step)
  <2> DEFINE w == Bytes(posted)
  <2>1. /\ w \in Seq(Int) /\ op.address + n + Len(w) <= MemSize
        /\ \A i \in 1..Len(w) : w[i] = mem[op.address + n + i - 1]
    BY <1>5, <1>7
  <2> HIDE DEF w
  <2>0. mem \in [ Addresses -> Int ] /\ op.address \in Nat /\ n \in Nat /\ MemSize \in Nat
    BY <1>3, <1>5
  <2>2. [ i \in 1..n |-> mem[op.address + i - 1] ] \o w
          = [ i \in 1..(n + Len(w)) |-> mem[op.address + i - 1] ]
    BY <2>0, <2>1, PrefixGrows, Zenon
  <2>3. Len(w) = Step
    BY <1>7 DEF w
  <2> QED
    BY <2>2, <2>3 DEF Prefix, w
<1> QED
  BY <1>5, <1>6, <1>8

LEMMA TouchedInMemory ==
    ASSUME MemoryAssumption, TypeInv
    PROVE  Touched \subseteq Addresses
<1>1. /\ TAR \in 0..(MemSize - 1) /\ Page \in Nat \ {0} /\ MemSize \in Nat
      /\ MemSize % Page = 0 /\ Page % 4 = 0
  BY DEF TypeInv, Addresses, MemoryAssumption
<1>2. MemSize % 4 = 0
  <2> DEFINE m == MemSize \div Page
             w == Page \div 4
  <2>1. m \in Nat /\ MemSize = Page * m /\ w \in Nat /\ Page = 4 * w
    BY <1>1
  <2>2. MemSize = 4 * (w * m) /\ w * m \in Nat
    BY <2>1
  <2> QED
    BY <2>2
<1>3. 4 \in Nat \ {0} /\ 3 \in 0..(4 - 1) /\ 0 \in 0..(4 - 1)
  OBVIOUS
<1>4. TAR - (TAR % 4) + 3 \in 0..(MemSize - 1)
  BY <1>1, <1>2, <1>3, InMemory, Zenon
<1>5. TAR - (TAR % 4) >= 0 /\ TAR % 4 \in 0..3
  BY <1>1
<1>6. Word(TAR) \subseteq Addresses
  BY <1>1, <1>4, <1>5 DEF Word, Addresses
<1> QED
  BY <1>1, <1>6 DEF Touched, Addresses

(* A read leaves the bytes it touches in their lanes. *)
LEMMA LaneRead ==
    ASSUME MemoryAssumption, TypeInv, Ready, BusRead, NEW i \in 0..(Step - 1)
    PROVE  posted'[(address + i) % 4] = mem[TAR + i]
<1>1. /\ \A a \in Int : a \in Touched <=> TAR <= a /\ a < TAR + Step
      /\ Step = 4 => TAR % 4 = 0
  BY AccessFits
<1>2. /\ address \in Nat /\ access \in Nat /\ TAR \in Nat
      /\ Step \in { 1, 4 } /\ (Step = 1 <=> Width = 8)
      /\ Step = 4 => address % 4 = 0
      /\ TAR = address + Step * access /\ access < Accesses
  <2>1. size > 0 /\ block = Piece(address, size) /\ TAR = address + Step * access
        /\ access < Accesses
    BY DEF Ready
  <2>2. Step \in { 1, 4 } /\ (Step = 1 <=> Width = 8) /\ (Step = 4 => address % 4 = 0)
    BY <2>1, Widths
  <2> QED
    BY <2>1, <2>2 DEF TypeInv, Addresses
<1>3. (address + i) % 4 = (TAR + i) % 4
  <2>1. CASE Step = 1
    BY <1>2, <2>1 DEF Accesses
  <2>2. CASE Step = 4
    <3>1. (address + i) % 4 = i
      BY <1>2, <2>2
    <3>2. (TAR + i) % 4 = i
      BY <1>1, <1>2, <2>2
    <3> QED
      BY <3>1, <3>2
  <2> QED
    BY <1>2, <2>1, <2>2
<1>4. TAR + i \in Touched /\ (TAR + i) % 4 \in Lanes
  BY <1>1, <1>2 DEF Lanes
<1>5. ASSUME NEW b \in Touched, b % 4 = (TAR + i) % 4
      PROVE  b = TAR + i
  <2>1. b \in Int
    BY <1>5, TouchedInMemory DEF Addresses
  <2>2. TAR <= b /\ b < TAR + Step
    BY <1>1, <1>5, <2>1
  <2>3. CASE Step = 1
    BY <1>2, <2>1, <2>2, <2>3
  <2>4. CASE Step = 4
    <3>1. b % 4 = b - TAR
      BY <1>1, <1>2, <2>1, <2>2, <2>4, LaneOf
    <3>2. (TAR + i) % 4 = i
      BY <1>1, <1>2, <2>4
    <3> QED
      BY <1>2, <1>5, <2>1, <2>4, <3>1, <3>2
  <2> QED
    BY <1>2, <2>3, <2>4
<1> DEFINE l == (TAR + i) % 4
<1>6. (CHOOSE a \in Touched : a % 4 = l) = TAR + i
  BY <1>4, <1>5
<1>7. posted'[l] = IF \E a \in Touched : a % 4 = l
                   THEN mem[CHOOSE a \in Touched : a % 4 = l] ELSE 0
  BY <1>4 DEF BusRead
<1>8. \E a \in Touched : a % 4 = l
  BY <1>4
<1> QED
  BY <1>3, <1>6, <1>7, <1>8

LEMMA PostedTyped ==
    ASSUME MemoryAssumption, TypeInv, BusRead
    PROVE  posted' \in [ Lanes -> Int ]
<1>1. \A l \in Lanes : (\E a \in Touched : a % 4 = l) =>
                            mem[CHOOSE a \in Touched : a % 4 = l] \in Int
  <2> SUFFICES ASSUME NEW l \in Lanes, \E a \in Touched : a % 4 = l
               PROVE  mem[CHOOSE a \in Touched : a % 4 = l] \in Int
    OBVIOUS
  <2>1. (CHOOSE a \in Touched : a % 4 = l) \in Touched
    OBVIOUS
  <2> QED
    BY <2>1, TouchedInMemory DEF TypeInv
<1> QED
  BY <1>1 DEF BusRead

LEMMA ReadStep ==
    ASSUME MemoryAssumption, ExactInv, swd_read_block
    PROVE  ExactInv'
<1> USE DEF ExactInv
<1>1. /\ pc = "drw" /\ op.kind = "read" /\ access < Accesses /\ result = -1
      /\ UNCHANGED << select, csw, SELECT, CSW, op, address, size, block, ops >>
      /\ UNCHANGED piece
  BY DEF swd_read_block, host, piece, TypeInv
<1>2. /\ size > 0 /\ block = Piece(address, size) /\ Busy
      /\ op.address <= address /\ address + size = op.address + op.size
  BY <1>1 DEF CallInv, Busy
<1>3. /\ Step \in { 1, 4 } /\ (Step = 1 <=> Width = 8) /\ (Step = 4 <=> Width = 32)
      /\ Accesses \in 1..Page /\ Step * Accesses = block
  BY <1>2, Widths DEF ExactInv
<1>4. access \in Nat /\ address \in Nat /\ Page \in Nat /\ op.address \in Nat
  BY Parameters DEF TypeInv
<1>5. ASSUME Fails, UNCHANGED << TAR, mem, posted, sticky, access, got >>
      PROVE  ExactInv'
  <2>1. faults' \in 0..MaxFaults /\ result' = 0 /\ pc' = "idle"
    BY <1>5, FailsEffect DEF ExactInv
  <2>2. TypeInv'
    BY <1>1, <1>5, <2>1 DEF TypeInv
  <2>3. CallInv'
    BY <1>1, <1>5, <2>1 DEF CallInv, Busy
  <2>4. Quiet
    BY <1>1, <1>5, <2>1 DEF Quiet
  <2> QED
    BY <2>2, <2>3, <2>4, QuietStep
<1>6. ASSUME Ok, access' = access + 1, UNCHANGED << pc, result, mem >>,
             got' = IF access = 0 THEN got ELSE got \o Bytes(posted)
      PROVE  /\ access' \in 0..Page /\ access' <= Accesses
             /\ ~op.misled => got' = Prefix(Got)'
  <2>1. access' \in 0..Page /\ access' <= Accesses
    BY <1>1, <1>3, <1>4, <1>6
  <2>2. ASSUME ~op.misled PROVE got' = Prefix(address - op.address + Step * access)
    <3>1. CASE access = 0
      <4>1. Step * access = 0 /\ Got = address - op.address
        BY <1>3, <1>4, <3>1 DEF Got
      <4>2. got' = Prefix(Got)
        BY <1>1, <1>2, <1>6, <2>2, <3>1 DEF ReadInv
      <4>3. address - op.address + Step * access = Got
        BY <1>4, <4>1
      <4> QED
        BY <4>2, <4>3
    <3>2. CASE access # 0
      <4>1. access > 0 /\ ~sticky
        BY <1>4, <1>6, <3>2 DEF Ok
      <4> QED
        BY <1>1, <1>6, <2>2, <3>2, <4>1, GotGrows DEF ExactInv
    <3> QED
      BY <3>1, <3>2
  <2>3. Got' = address - op.address + Step * access
    <3>1. access' > 0 /\ access' - 1 = access
      BY <1>4, <1>6
    <3> QED
      BY <1>1, <1>6, <3>1, SamePiece DEF Got
  <2>4. Prefix(Got)' = Prefix(address - op.address + Step * access)
    BY <1>1, <1>6, <2>3 DEF Prefix
  <2> QED
    BY <2>1, <2>2, <2>4
<1>7. ASSUME Ok, access' = access + 1, BusRead, UNCHANGED << pc, result >>,
             got' = IF access = 0 THEN got ELSE got \o Bytes(posted)
      PROVE  ExactInv'
  <2>1. /\ ~sticky /\ UNCHANGED << mem, sticky, faults >> /\ TAR' = Incremented
    BY <1>7 DEF Ok, BusRead
  <2>2. posted' \in [ Lanes -> Int ]
    BY <1>7, PostedTyped DEF ExactInv
  <2>3. /\ access' \in 0..Page /\ access' <= Accesses
        /\ ~op.misled => got' = Prefix(Got)'
    BY <1>6, <1>7, <2>1
  <2>4. TAR' \in Addresses
    BY <2>1, TarInMemory DEF ExactInv
  <2>5. TypeInv'
    BY <1>1, <1>7, <2>1, <2>2, <2>3, <2>4 DEF TypeInv
  <2>6. ASSUME ~op.misled PROVE Ready
    BY <1>1, <2>1, <2>6, AccessReady DEF ExactInv
  <2>7. CallInv'
    <3>1. Step * (access + 1) = Step * access + Step
      BY <1>3, <1>4
    <3>2. ~op.misled /\ access + 1 < Accesses => TAR' = address + Step * (access + 1)
      <4>1. ASSUME ~op.misled, access + 1 < Accesses
            PROVE  Incremented = TAR + Step /\ TAR = address + Step * access
        BY <2>6, <4>1, AccessFits DEF ExactInv, Ready
      <4> QED
        BY <1>3, <1>4, <2>1, <3>1, <4>1
    <3> QED
      BY <1>1, <1>2, <1>7, <2>1, <2>3, <3>2, SamePiece DEF CallInv, Busy
  <2>8. WriteInv'
    BY <1>1 DEF WriteInv
  <2>9. ASSUME ~op.misled, NEW i \in 0..(Step - 1)
        PROVE  posted'[(address + i) % 4] = mem[address + Step * access + i]
    <3>1. posted'[(address + i) % 4] = mem[TAR + i]
      BY <1>7, <2>6, <2>9, LaneRead DEF ExactInv
    <3>2. TAR = address + Step * access
      BY <2>6, <2>9 DEF Ready
    <3> QED
      BY <3>1, <3>2
  <2>10. ReadInv'
    <3>1. access' - 1 = access
      BY <1>4, <1>7
    <3> QED
      BY <1>1, <1>2, <1>7, <2>1, <2>3, <2>9, <3>1, SamePiece DEF ReadInv
  <2> QED
    BY <2>5, <2>7, <2>8, <2>10
<1>8. ASSUME Ok, access' = access + 1, BusError, UNCHANGED << pc, result >>,
             got' = IF access = 0 THEN got ELSE got \o Bytes(posted)
      PROVE  ExactInv'
  <2>1. /\ faults' = faults + 1 /\ faults < MaxFaults
        /\ UNCHANGED << TAR, mem, posted, pc, result >>
    BY <1>8 DEF BusError
  <2>2. sticky' /\ sticky' \in BOOLEAN
    BY <1>8 DEF BusError
  <2>3. /\ access' \in 0..Page /\ access' <= Accesses
        /\ ~op.misled => got' = Prefix(Got)'
    BY <1>6, <1>8, <2>1
  <2>4. TypeInv'
    BY <1>1, <2>1, <2>2, <2>3, Parameters DEF TypeInv
  <2>5. CallInv'
    BY <1>1, <1>2, <2>1, <2>2, <2>3, SamePiece DEF CallInv, Busy
  <2>6. WriteInv'
    BY <1>1 DEF WriteInv
  <2>7. ReadInv'
    BY <1>1, <2>1, <2>2, <2>3 DEF ReadInv
  <2> QED
    BY <2>4, <2>5, <2>6, <2>7
<1>9. \/ Fails /\ UNCHANGED << TAR, mem, posted, sticky, access, got >>
      \/ /\ Ok /\ access' = access + 1 /\ BusRead /\ UNCHANGED << pc, result >>
         /\ got' = IF access = 0 THEN got ELSE got \o Bytes(posted)
      \/ /\ Ok /\ access' = access + 1 /\ BusError /\ UNCHANGED << pc, result >>
         /\ got' = IF access = 0 THEN got ELSE got \o Bytes(posted)
  BY Zenon DEF swd_read_block
<1> QED
  BY <1>5, <1>7, <1>8, <1>9, Zenon

----------------------------------------------------------------------------
(* The end of a piece                                                      *)

LEMMA EndStep ==
    ASSUME MemoryAssumption, ExactInv, EndOfPiece
    PROVE  ExactInv'
<1> USE DEF ExactInv
<1>1. /\ pc = "drw" /\ access = Accesses /\ op.kind \in { "write", "read" } /\ result = -1
      /\ UNCHANGED << select, csw, SELECT, CSW, TAR, mem, posted, sticky, op, ops >>
  BY DEF EndOfPiece, host, target, TypeInv, CallInv
<1>2. /\ size > 0 /\ block = Piece(address, size) /\ Busy
      /\ op.address <= address /\ address + size = op.address + op.size
  BY <1>1 DEF CallInv, Busy
<1>3. /\ Step \in { 1, 4 } /\ Accesses \in 1..Page /\ Step * access = block
  BY <1>1, <1>2, Widths DEF ExactInv
<1>4. /\ access \in Nat /\ address \in Nat /\ size \in Nat /\ block \in Nat /\ block <= size
      /\ op.address \in Nat /\ op.size \in Nat /\ address + size <= MemSize /\ MemSize \in Nat
      /\ Page \in Nat
  BY Parameters DEF TypeInv
<1>5. ASSUME Fails, UNCHANGED << got, address, size, block, access >>
      PROVE  ExactInv'
  <2>1. faults' \in 0..MaxFaults /\ result' = 0 /\ pc' = "idle"
    BY <1>5, FailsEffect DEF ExactInv
  <2>2. TypeInv'
    BY <1>1, <1>5, <2>1 DEF TypeInv
  <2>3. CallInv'
    BY <1>1, <1>5, <2>1 DEF CallInv, Busy
  <2>4. Quiet
    BY <1>1, <1>5, <2>1 DEF Quiet
  <2> QED
    BY <2>2, <2>3, <2>4, QuietStep
<1>6. ASSUME Ok, UNCHANGED faults, Continue(address + block, size - block),
             got' = IF op.kind = "read" THEN got \o Bytes(posted) ELSE got
      PROVE  ExactInv'
  <2> DEFINE a == address + block
             s == size - block
  <2>0. a \in Nat /\ s \in Nat /\ a + s = op.address + op.size /\ op.address <= a
        /\ a + s <= MemSize
    BY <1>2, <1>4
  <2>1. /\ ~sticky /\ address' = a /\ size' = s /\ access' = 0
        /\ \/ s = 0 /\ result' = 1 /\ pc' = "idle" /\ block' = 0
           \/ s # 0 /\ result' = -1 /\ pc' = "select" /\ block' = Piece(a, s)
    BY <1>6 DEF Ok, Continue
  <2>2. ~op.misled => \A b \in Addresses :
            op.kind = "write" => /\ ~InRange(b) => mem[b] = op.before[b]
                                 /\ op.address <= b /\ b < a => mem[b] = DataFor(b)
    <3> SUFFICES ASSUME ~op.misled, NEW b \in Addresses, op.kind = "write"
                 PROVE  /\ ~InRange(b) => mem[b] = op.before[b]
                        /\ op.address <= b /\ b < a => mem[b] = DataFor(b)
      OBVIOUS
    <3>1. /\ ~InRange(b) => mem[b] = op.before[b]
          /\ op.address <= b /\ b < address => mem[b] = DataFor(b)
          /\ address <= b /\ b < address + Step * access => mem[b] = DataFor(b)
      BY <1>1, <1>2, <2>1 DEF WriteInv
    <3>2. b \in Int
      BY DEF Addresses
    <3> QED
      BY <1>3, <1>4, <3>1, <3>2
  <2>3. ~op.misled /\ op.kind = "read" => got' = Prefix(a - op.address)
    <3> SUFFICES ASSUME ~op.misled, op.kind = "read" PROVE got' = Prefix(a - op.address)
      OBVIOUS
    <3>1. access > 0
      BY <1>1, <1>3
    <3>2. got \o Bytes(posted) = Prefix(address - op.address + Step * access)
      BY <1>1, <2>1, <3>1, GotGrows DEF ExactInv
    <3>3. address - op.address + Step * access = a - op.address
      <4>1. address - op.address + block = a - op.address
        BY <1>4
      <4> QED
        BY <1>3, <4>1
    <3> QED
      BY <1>6, <3>2, <3>3
  <2> HIDE DEF a, s
  <2>4. s # 0 => Piece(a, s) \in Nat /\ Piece(a, s) <= s
    <3> SUFFICES ASSUME s # 0 PROVE Piece(a, s) \in Nat /\ Piece(a, s) <= s
      OBVIOUS
    <3>1. s > 0
      BY <2>0
    <3> QED
      BY <2>0, <3>1, PieceFits, Zenon
  <2>5. TypeInv'
    BY <1>1, <1>4, <1>6, <2>0, <2>1, <2>4 DEF TypeInv
  <2>6. CallInv'
    <3>1. Piece(address, size)' = Piece(a, s)
      BY <2>1 DEF Piece, Block
    <3>2. s # 0 => Accesses' >= 0
      <4>1. s # 0 => block' \div 4 >= 0
        BY <2>0, <2>1, <2>4
      <4> QED
        BY <4>1 DEF Accesses
    <3>3. s # 0 => s > 0 /\ access' <= Accesses'
      BY <2>0, <2>1, <3>2
    <3> QED
      BY <1>1, <2>0, <2>1, <3>1, <3>3 DEF CallInv, Busy
  <2>7. WriteInv'
    BY <1>1, <1>4, <2>0, <2>1, <2>2 DEF WriteInv, Busy, InRange, DataFor, Addresses
  <2>8. ReadInv'
    <3>1. s # 0 => Got' = a - op.address
      BY <1>1, <1>4, <2>0, <2>1 DEF Got
    <3>2. s = 0 => a - op.address = op.size
      BY <1>4, <2>0
    <3>3. ~op.misled /\ op.kind = "read" /\ s # 0 => got' = Prefix(Got)'
      BY <1>1, <2>3, <3>1 DEF Prefix
    <3>4. ~op.misled /\ op.kind = "read" /\ s = 0 => got' = Prefix(op.size)'
      BY <1>1, <2>3, <3>2 DEF Prefix
    <3> QED
      BY <1>1, <2>1, <3>3, <3>4 DEF ReadInv, Busy
  <2> QED
    BY <2>5, <2>6, <2>7, <2>8
<1>7. \/ Fails /\ UNCHANGED << got, address, size, block, access >>
      \/ /\ Ok /\ UNCHANGED faults /\ Continue(address + block, size - block)
         /\ got' = IF op.kind = "read" THEN got \o Bytes(posted) ELSE got
  BY Zenon DEF EndOfPiece, Rdbuff
<1> QED
  BY <1>5, <1>6, <1>7

----------------------------------------------------------------------------
(* The invariant                                                           *)

LEMMA ExactInit ==
    ASSUME MemoryAssumption, Init
    PROVE  ExactInv
<1>1. TypeInv
  <2>1. 0 \in Addresses
    BY Parameters DEF Addresses
  <2>2. mem \in [ Addresses -> Int ] /\ posted \in [ Lanes -> Int ]
    BY DEF Init, Addresses
  <2>3. sticky \in BOOLEAN /\ op.misled \in BOOLEAN
    BY DEF Init
  <2> QED
    BY <2>1, <2>2, <2>3, Parameters DEF Init, TypeInv
<1>2. CallInv
  BY DEF Init, CallInv, Busy
<1> QED
  BY <1>1, <1>2 DEF Init, ExactInv, WriteInv, ReadInv

LEMMA ExactStep ==
    ASSUME MemoryAssumption, ExactInv, Next
    PROVE  ExactInv'
<1>1. ASSUME NEW r \in Ranges, swd_write_memory(r[1], r[2]) \/ swd_read_memory(r[1], r[2])
      PROVE  ExactInv'
  BY <1>1, CallStep DEF swd_write_memory, swd_read_memory
<1>2. CASE Done
  BY <1>2 DEF Done, vars, host, target, piece, ExactInv, TypeInv, CallInv, WriteInv, ReadInv,
              Busy, Width, Step, Accesses, Piece, Block, InRange, DataFor, Prefix, Got
<1> QED
  BY <1>1, <1>2, SelectStep, CswStep, CheckStep, TarStep, DummyStep, ApReadStep, ReadApStep,
     ClearStep, WriteStep, ReadStep, EndStep DEF Next

LEMMA ExactStutter ==
    ASSUME ExactInv, UNCHANGED vars
    PROVE  ExactInv'
BY DEF vars, host, target, piece, ExactInv, TypeInv, CallInv, WriteInv, ReadInv,
       Busy, Width, Step, Accesses, Piece, Block, InRange, DataFor, Prefix, Got

----------------------------------------------------------------------------
(* The words of the range                                                  *)

(* How far an access moves the address register, with whatever width the   *)
(* target has                                                              *)
Stride == IF CSW = 32 THEN 4 ELSE 1

(* Whatever the cache of CSW says: words without a byte of the range are   *)
(* as they were, and each access of a write begins in the piece at hand.   *)
ContainedInv ==
    op.kind = "write" =>
        /\ \A a \in Addresses : (\A b \in Word(a) : ~InRange(b)) => mem[a] = op.before[a]
        /\ pc = "drw" /\ ~sticky /\ access < Accesses => TAR = address + Stride * access

MemoryInv == ExactInv /\ ContainedInv

(* A step of a call that leaves memory alone and does not begin accesses *)
LEMMA ContainedKept ==
    ASSUME ContainedInv, UNCHANGED << op, mem >>, pc' # "drw"
    PROVE  ContainedInv'
<1>1. op' = op /\ mem' = mem /\ pc' # "drw"
  OBVIOUS
<1> QED
  BY <1>1 DEF ContainedInv, InRange, Word

LEMMA OwnWord ==
    ASSUME NEW t \in Nat, NEW a \in Int, a \in Word(t)
    PROVE  t \in Word(a)
BY DEF Word

(* An access of a write begins in the range. *)
LEMMA AccessInRange ==
    ASSUME MemoryAssumption, ExactInv, ContainedInv, pc = "drw", op.kind = "write", ~sticky,
           access < Accesses
    PROVE  /\ InRange(TAR)
           /\ access + 1 < Accesses => Incremented = address + Stride * (access + 1)
<1>1. /\ size > 0 /\ block = Piece(address, size)
      /\ op.address <= address /\ address + size = op.address + op.size
      /\ TypeInv
  BY DEF ExactInv, CallInv, Busy
<1>2. /\ Step \in { 1, 4 } /\ (Step = 1 <=> Width = 8)
      /\ Accesses \in 1..Page /\ Step * Accesses = block
      /\ Step = 4 => address % 4 = 0 /\ (address % Page) + block <= Page
  BY <1>1, Widths
<1>3. TAR = address + Stride * access /\ Stride \in { 1, 4 }
  BY DEF ContainedInv, Stride
<1>4. /\ address \in Nat /\ access \in Nat /\ Page \in Nat \ {0} /\ size \in Nat
      /\ op.address \in Nat /\ op.size \in Nat /\ block \in Nat /\ block <= size /\ TAR \in Nat
  BY <1>1, Parameters DEF TypeInv, Addresses
<1>5. CASE Step = 1
  <2>1. Accesses = 1 /\ access = 0
    BY <1>2, <1>4, <1>5 DEF Accesses
  <2>2. TAR = address
    BY ONLY <1>3, <1>4, <2>1
  <2> QED
    BY <1>1, <1>4, <2>1, <2>2 DEF InRange
<1>6. CASE Step = 4
  <2>1. block = 4 * Accesses /\ access + 1 <= Accesses
    BY <1>2, <1>4, <1>6
  <2>2. Stride * access >= 0 /\ Stride * access < block
    BY ONLY <1>2, <1>3, <1>4, <2>1
  <2>3. InRange(TAR)
    BY <1>1, <1>3, <1>4, <2>2 DEF InRange
  <2>4. ASSUME access + 1 < Accesses
        PROVE  Incremented = address + Stride * (access + 1)
    <3> DEFINE k == Stride * access
    <3>1. k \in Nat /\ k + Stride < block /\ Stride * (access + 1) = k + Stride
      BY ONLY <1>2, <1>3, <1>4, <2>1, <2>4
    <3>2. (address % Page) + block <= Page /\ address % Page \in Nat
      BY <1>2, <1>4, <1>6
    <3> HIDE DEF k
    <3>3. address - (address % Page) + ((address + k) % Page) = address + k
      <4>1. (address % Page) + k < Page
        BY ONLY <1>3, <1>4, <3>1, <3>2
      <4> QED
        BY <1>4, <3>1, <4>1, NoWrap, Zenon
    <3>4. TAR = address + k
      BY <1>3 DEF k
    <3>5. TAR % Page = (address % Page) + k
      <4>1. (address + k) % Page \in Int
        BY ONLY <1>4, <3>1
      <4> QED
        BY ONLY <1>4, <3>1, <3>2, <3>3, <3>4, <4>1
    <3>6. (TAR % Page) + Stride < Page
      BY ONLY <1>3, <1>4, <3>1, <3>2, <3>5
    <3>7. TAR - (TAR % Page) + ((TAR + Stride) % Page) = TAR + Stride
      <4>1. Stride \in Nat
        BY <1>3
      <4> QED
        BY <1>4, <3>6, <4>1, NoWrap, Zenon
    <3>8. Incremented = TAR + Stride
      BY <3>7 DEF Incremented, Stride
    <3> QED
      BY ONLY <1>3, <1>4, <3>1, <3>4, <3>8
  <2> QED
    BY <2>3, <2>4
<1> QED
  BY <1>2, <1>5, <1>6

(* A write of a word or a byte *)
LEMMA WriteContains ==
    ASSUME MemoryAssumption, ExactInv, ContainedInv, swd_write_block
    PROVE  ContainedInv'
<1>1. /\ pc = "drw" /\ op.kind = "write" /\ access < Accesses
      /\ op' = op /\ CSW' = CSW /\ address' = address /\ UNCHANGED piece
  BY DEF swd_write_block, piece
<1>2. Stride' = Stride /\ Accesses' = Accesses
  BY <1>1, SamePiece DEF Stride
<1>3. ASSUME Fails, UNCHANGED << TAR, mem, posted, sticky, access >>
      PROVE  ContainedInv'
  BY <1>1, <1>3, ContainedKept DEF Fails
<1>4. ASSUME Ok, access' = access + 1, BusError
      PROVE  ContainedInv'
  <2>1. mem' = mem /\ sticky'
    BY <1>4 DEF BusError
  <2> QED
    BY <1>1, <2>1 DEF ContainedInv, InRange, Word
<1>5. ASSUME Ok, access' = access + 1, BusWrite(Written)
      PROVE  ContainedInv'
  <2>1. /\ ~sticky /\ TAR' = Incremented
        /\ mem' = [ a \in Addresses |-> IF a \in Touched THEN Written[a % 4] ELSE mem[a] ]
    BY <1>5 DEF Ok, BusWrite
  <2>2. /\ InRange(TAR)
        /\ access + 1 < Accesses => Incremented = address + Stride * (access + 1)
    BY <1>1, <2>1, AccessInRange
  <2>3. ASSUME NEW a \in Addresses, \A b \in Word(a) : ~InRange(b)
        PROVE  mem'[a] = op.before[a]
    <3>1. a \in Int /\ TAR \in Nat
      BY DEF Addresses, ExactInv, TypeInv
    <3>2. a \notin Touched
      <4>1. SUFFICES ASSUME a \in Touched PROVE TAR \in Word(a)
        BY <2>2, <2>3
      <4>2. CASE CSW = 32
        BY <3>1, <4>1, <4>2, OwnWord DEF Touched
      <4>3. CASE CSW # 32
        BY <3>1, <4>1, <4>3 DEF Touched, Word
      <4> QED
        BY <4>2, <4>3
    <3>3. mem[a] = op.before[a]
      BY <1>1, <2>3 DEF ContainedInv
    <3> QED
      BY <2>1, <3>2, <3>3
  <2>4. (access < Accesses)' => TAR' = address' + Stride' * access'
    <3>1. access' < Accesses' => access + 1 < Accesses
      BY <1>2, <1>5
    <3> QED
      BY <1>1, <1>2, <1>5, <2>1, <2>2, <3>1
  <2> QED
    BY <1>1, <2>3, <2>4 DEF ContainedInv, InRange, Word
<1> QED
  BY <1>3, <1>4, <1>5, Zenon DEF swd_write_block

LEMMA ContainedStep ==
    ASSUME MemoryAssumption, ExactInv, ContainedInv, Next
    PROVE  ContainedInv'
<1>1. ASSUME NEW r \in Ranges, swd_write_memory(r[1], r[2]) \/ swd_read_memory(r[1], r[2])
      PROVE  ContainedInv'
  <2>1. /\ op'.before = mem /\ mem' = mem /\ pc' # "drw"
    BY <1>1 DEF swd_write_memory, swd_read_memory, Call, Continue, target
  <2> QED
    BY <2>1 DEF ContainedInv
<1>2. CASE swd_read_ap
  BY <1>2 DEF swd_read_ap, ContainedInv
<1>3. CASE swd_clear_errors
  <2>1. UNCHANGED << op, mem, pc >> /\ pc = "idle"
    BY <1>3 DEF swd_clear_errors, piece
  <2> QED
    BY <2>1, ContainedKept
<1>4. CASE Select
  <2>1. UNCHANGED << op, mem >> /\ pc' # "drw"
    BY <1>4 DEF Select, swd_write_dp, Fails, piece
  <2> QED
    BY <2>1, ContainedKept
<1>5. CASE swd_write_ap
  <2>1. UNCHANGED << op, mem >> /\ pc' # "drw"
    BY <1>5 DEF swd_write_ap, Fails, piece
  <2> QED
    BY <2>1, ContainedKept
<1>6. CASE CheckCsw
  <2>1. UNCHANGED << op, mem >> /\ pc' # "drw"
    BY <1>6 DEF CheckCsw, Fails, piece, target
  <2> QED
    BY <2>1, ContainedKept
<1>7. CASE WriteTar
  <2>1. CASE Fails
    <3>1. UNCHANGED << op, mem >> /\ pc' # "drw"
      BY <1>7, <2>1 DEF WriteTar, Fails, piece
    <3> QED
      BY <3>1, ContainedKept
  <2>2. CASE ~Fails
    <3>1. /\ op' = op /\ mem' = mem /\ access' = access /\ address' = address /\ TAR' = address
          /\ pc = "tar"
      BY <1>7, <2>2 DEF WriteTar, piece
    <3>2. access = 0 /\ address \in Nat
      BY <3>1 DEF ExactInv, CallInv, TypeInv, Busy
    <3>3. TAR' = address' + Stride' * access'
      BY <3>1, <3>2 DEF Stride
    <3> QED
      BY <3>1, <3>3 DEF ContainedInv, InRange, Word
  <2> QED
    BY <2>1, <2>2
<1>8. CASE swd_write_block
  BY <1>8, WriteContains
<1>9. CASE swd_read_block
  BY <1>9 DEF swd_read_block, ContainedInv, piece
<1>10. CASE EndOfPiece
  <2>1. UNCHANGED << op, mem >> /\ pc' # "drw"
    BY <1>10 DEF EndOfPiece, Rdbuff, Continue, Fails, target
  <2> QED
    BY <2>1, ContainedKept
<1>11. CASE DummyRead
  <2>1. UNCHANGED << op, mem >> /\ pc' # "drw"
    BY <1>11 DEF DummyRead, piece
  <2> QED
    BY <2>1, ContainedKept
<1>12. CASE ApRead
  <2>1. UNCHANGED << op, mem >> /\ pc' # "drw"
    BY <1>12 DEF ApRead, Fails, piece
  <2> QED
    BY <2>1, ContainedKept
<1>13. CASE Done
  <2>1. UNCHANGED << op, mem, pc >> /\ pc = "idle"
    BY <1>13 DEF Done, vars, target, piece
  <2> QED
    BY <2>1, ContainedKept
<1> QED
  BY <1>1, <1>2, <1>3, <1>4, <1>5, <1>6, <1>7, <1>8, <1>9, <1>10, <1>11, <1>12, <1>13 DEF Next

LEMMA MemoryInit ==
    ASSUME MemoryAssumption, Init
    PROVE  MemoryInv
BY ExactInit DEF MemoryInv, ContainedInv, Init

LEMMA MemoryStep ==
    ASSUME MemoryAssumption, MemoryInv, Next
    PROVE  MemoryInv'
BY ExactStep, ContainedStep DEF MemoryInv

LEMMA MemoryStutter ==
    ASSUME MemoryInv, UNCHANGED vars
    PROVE  MemoryInv'
<1>1. ExactInv'
  BY ExactStutter DEF MemoryInv
<1>2. ContainedInv'
  BY DEF vars, host, target, piece, MemoryInv, ContainedInv, InRange, Word, Accesses, Width,
         Stride
<1> QED
  BY <1>1, <1>2 DEF MemoryInv

(* What the invariant says of the calls *)
LEMMA MemoryTrue ==
    ASSUME MemoryAssumption, MemoryInv
    PROVE  TypeOK /\ MemoryExact
<1> USE DEF MemoryInv
<1>1. TypeOK
  BY DEF ExactInv, TypeInv, TypeOK
<1>2. SelectCached
  BY DEF ExactInv, TypeInv, SelectCached
<1>3. WriteExact
  BY DEF ExactInv, WriteInv, WriteExact
<1>4. ReadExact
  BY DEF ExactInv, ReadInv, ReadExact, Prefix
<1>5. WriteContained
  BY DEF ContainedInv, WriteContained
<1> QED
  BY <1>1, <1>2, <1>3, <1>4, <1>5 DEF MemoryExact
=============================================================================
