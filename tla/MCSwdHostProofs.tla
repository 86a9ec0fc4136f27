--------------------------- MODULE MCSwdHostProofs ---------------------------
(***************************************************************************)
(* What a call of the probe as a debugger of its own reports is true, for  *)
(* any memory, any ranges of it and any number of calls and faults.        *)
(***************************************************************************)
EXTENDS MCSwdHost, TLAPS

HwProofs == INSTANCE SwdTargetProofs WITH Variant <- "hw"
SwProofs == INSTANCE SwdTargetProofs WITH Variant <- "sw"
MemoryProofs == INSTANCE SwdMemoryProofs WITH
    MaxFaults <- MaxErrors, result <- memoryResult, faults <- memoryFaults

TargetPart ==
    /\ part \in { "memory", "hw", "sw" }
    /\ part = "sw" => SwProofs!TargetInv
    /\ part # "sw" => HwProofs!TargetInv
    /\ HwProofs!Counts

LEMMA TargetPartInit ==
    ASSUME Init
    PROVE  TargetPart
<1>1. HwProofs!Init /\ SwProofs!Init
  BY DEF Init, Hw!Init, HwProofs!Init, SwProofs!Init
<1>2. HwProofs!TargetAssumption
  BY PartsAssumption DEF PartsAssumption, Hw!TargetAssumption, HwProofs!TargetAssumption
<1>3. HwProofs!TargetInv /\ HwProofs!Counts /\ SwProofs!TargetInv
  BY <1>1, <1>2, HwProofs!TargetInit, SwProofs!TargetInit, HwProofs!CountsInit
<1> QED
  BY <1>3 DEF Init, TargetPart

(* The two instances of SwdTarget are the ones that the proofs are about. *)
LEMMA HwNext ==
    Hw!Next => HwProofs!Next
BY DEF
       Hw!Next, Hw!Begin, Hw!PowerCycle, Hw!Halts, Hw!Progress, Hw!Done, Hw!Pins,
       Hw!Fail, Hw!swd_init_debug, Hw!EnableDebug, Hw!DebugPort, Hw!DebugControl,
       Hw!Catch, Hw!SoftReset, Hw!WaitUntilHalted, Hw!swd_write_core_register,
       Hw!swd_wait_until_halted, Hw!swd_read_core_register, Hw!Released, Hw!Pulse,
       Hw!FromReset, Hw!DHCSR, Hw!WordWrite, Hw!CoreUnchanged, Hw!Running, Hw!GoOn,
       Hw!GoOnOrFail, Hw!SameCall, Hw!Same, Hw!Quiet, Hw!Try, Hw!TryFails, Hw!Transfers,
       Hw!NeedsPower, Hw!Registers, Hw!Steps, Hw!Now, Hw!swd_set_target_state_hw,
       Hw!swd_set_target_state_sw, Hw!swd_flash_syscall_exec, Hw!target, Hw!counters,
       Hw!vars, Hw!States,
       HwProofs!Next, HwProofs!Begin, HwProofs!PowerCycle, HwProofs!Halts,
       HwProofs!Progress, HwProofs!Done, HwProofs!Pins, HwProofs!Fail,
       HwProofs!swd_init_debug, HwProofs!EnableDebug, HwProofs!DebugPort,
       HwProofs!DebugControl, HwProofs!Catch, HwProofs!SoftReset,
       HwProofs!WaitUntilHalted, HwProofs!swd_write_core_register,
       HwProofs!swd_wait_until_halted, HwProofs!swd_read_core_register,
       HwProofs!Released, HwProofs!Pulse, HwProofs!FromReset, HwProofs!DHCSR,
       HwProofs!WordWrite, HwProofs!CoreUnchanged, HwProofs!Running, HwProofs!GoOn,
       HwProofs!GoOnOrFail, HwProofs!SameCall, HwProofs!Same, HwProofs!Quiet,
       HwProofs!Try, HwProofs!TryFails, HwProofs!Transfers, HwProofs!NeedsPower,
       HwProofs!Registers, HwProofs!Steps, HwProofs!Now,
       HwProofs!swd_set_target_state_hw, HwProofs!swd_set_target_state_sw,
       HwProofs!swd_flash_syscall_exec, HwProofs!target, HwProofs!counters,
       HwProofs!vars, HwProofs!States

LEMMA SwNext ==
    Sw!Next => SwProofs!Next
BY DEF
       Sw!Next, Sw!Begin, Sw!PowerCycle, Sw!Halts, Sw!Progress, Sw!Done, Sw!Pins,
       Sw!Fail, Sw!swd_init_debug, Sw!EnableDebug, Sw!DebugPort, Sw!DebugControl,
       Sw!Catch, Sw!SoftReset, Sw!WaitUntilHalted, Sw!swd_write_core_register,
       Sw!swd_wait_until_halted, Sw!swd_read_core_register, Sw!Released, Sw!Pulse,
       Sw!FromReset, Sw!DHCSR, Sw!WordWrite, Sw!CoreUnchanged, Sw!Running, Sw!GoOn,
       Sw!GoOnOrFail, Sw!SameCall, Sw!Same, Sw!Quiet, Sw!Try, Sw!TryFails, Sw!Transfers,
       Sw!NeedsPower, Sw!Registers, Sw!Steps, Sw!Now, Sw!swd_set_target_state_hw,
       Sw!swd_set_target_state_sw, Sw!swd_flash_syscall_exec, Sw!target, Sw!counters,
       Sw!vars, Sw!States,
       SwProofs!Next, SwProofs!Begin, SwProofs!PowerCycle, SwProofs!Halts,
       SwProofs!Progress, SwProofs!Done, SwProofs!Pins, SwProofs!Fail,
       SwProofs!swd_init_debug, SwProofs!EnableDebug, SwProofs!DebugPort,
       SwProofs!DebugControl, SwProofs!Catch, SwProofs!SoftReset,
       SwProofs!WaitUntilHalted, SwProofs!swd_write_core_register,
       SwProofs!swd_wait_until_halted, SwProofs!swd_read_core_register,
       SwProofs!Released, SwProofs!Pulse, SwProofs!FromReset, SwProofs!DHCSR,
       SwProofs!WordWrite, SwProofs!CoreUnchanged, SwProofs!Running, SwProofs!GoOn,
       SwProofs!GoOnOrFail, SwProofs!SameCall, SwProofs!Same, SwProofs!Quiet,
       SwProofs!Try, SwProofs!TryFails, SwProofs!Transfers, SwProofs!NeedsPower,
       SwProofs!Registers, SwProofs!Steps, SwProofs!Now,
       SwProofs!swd_set_target_state_hw, SwProofs!swd_set_target_state_sw,
       SwProofs!swd_flash_syscall_exec, SwProofs!target, SwProofs!counters,
       SwProofs!vars, SwProofs!States

LEMMA MemoryNext ==
    Memory!Next => MemoryProofs!Next
BY DEF
       Memory!Next, Memory!swd_write_memory, Memory!swd_read_memory, Memory!swd_read_ap,
       Memory!swd_clear_errors, Memory!Select, Memory!swd_write_ap, Memory!CheckCsw,
       Memory!WriteTar, Memory!swd_write_block, Memory!swd_read_block, Memory!EndOfPiece,
       Memory!DummyRead, Memory!ApRead, Memory!Done, Memory!Call, Memory!Misled, Memory!Continue,
       Memory!swd_write_dp, Memory!Bank, Memory!Ok, Memory!Fails, Memory!Touched,
       Memory!Incremented, Memory!BusError, Memory!BusWrite, Memory!BusRead, Memory!Block,
       Memory!Piece, Memory!Width, Memory!Accesses, Memory!DataFor, Memory!Written,
       Memory!Bytes, Memory!Rdbuff, Memory!Word, Memory!Lanes, Memory!IDR, Memory!Addresses,
       Memory!host, Memory!target, Memory!piece, Memory!vars,
       MemoryProofs!Next, MemoryProofs!swd_write_memory, MemoryProofs!swd_read_memory,
       MemoryProofs!swd_read_ap, MemoryProofs!swd_clear_errors, MemoryProofs!Select,
       MemoryProofs!swd_write_ap, MemoryProofs!CheckCsw, MemoryProofs!WriteTar,
       MemoryProofs!swd_write_block, MemoryProofs!swd_read_block, MemoryProofs!EndOfPiece,
       MemoryProofs!DummyRead, MemoryProofs!ApRead, MemoryProofs!Done, MemoryProofs!Call,
       MemoryProofs!Misled, MemoryProofs!Continue, MemoryProofs!swd_write_dp, MemoryProofs!Bank, MemoryProofs!Ok,
       MemoryProofs!Fails, MemoryProofs!Touched, MemoryProofs!Incremented,
       MemoryProofs!BusError, MemoryProofs!BusWrite, MemoryProofs!BusRead, MemoryProofs!Block,
       MemoryProofs!Piece, MemoryProofs!Width, MemoryProofs!Accesses, MemoryProofs!DataFor,
       MemoryProofs!Written, MemoryProofs!Bytes, MemoryProofs!Rdbuff, MemoryProofs!Word,
       MemoryProofs!Lanes, MemoryProofs!IDR, MemoryProofs!Addresses, MemoryProofs!host,
       MemoryProofs!target, MemoryProofs!piece, MemoryProofs!vars

(* The memory keeps its invariant in the other parts, where it stays as it *)
(* began.                                                                  *)
HostInv == TargetPart /\ MemoryProofs!MemoryInv

LEMMA HostInit ==
    ASSUME Init
    PROVE  HostInv
<1>1. MemoryProofs!Init
  BY DEF Init, Memory!Init, MemoryProofs!Init, Memory!Addresses, MemoryProofs!Addresses,
         Memory!Lanes, MemoryProofs!Lanes
<1>2. MemoryProofs!MemoryAssumption
  BY PartsAssumption DEF Memory!MemoryAssumption, MemoryProofs!MemoryAssumption
<1> QED
  BY <1>1, <1>2, MemoryProofs!MemoryInit, TargetPartInit DEF HostInv

LEMMA HostStep ==
    ASSUME HostInv, [Next]_vars
    PROVE  HostInv'
<1>1. /\ MemoryProofs!MemoryAssumption
      /\ HwProofs!TargetAssumption /\ SwProofs!TargetAssumption
  BY PartsAssumption DEF Memory!MemoryAssumption, MemoryProofs!MemoryAssumption,
     Hw!TargetAssumption, HwProofs!TargetAssumption, SwProofs!TargetAssumption
<1>2. part' = part
  BY DEF Next, vars
<1>3. MemoryProofs!MemoryInv'
  <2>1. CASE Memory!Next
    BY <1>1, <2>1, MemoryNext, MemoryProofs!MemoryStep DEF HostInv
  <2>2. CASE UNCHANGED memory
    <3>1. UNCHANGED MemoryProofs!vars
      BY <2>2 DEF memory, MemoryProofs!vars, MemoryProofs!host, MemoryProofs!target,
                  MemoryProofs!piece
    <3> QED
      BY <3>1, MemoryProofs!MemoryStutter DEF HostInv
  <2> QED
    BY <2>1, <2>2 DEF Next, vars
<1>4. TargetPart'
  <2>1. CASE UNCHANGED target
    <3>1. UNCHANGED HwProofs!vars /\ UNCHANGED SwProofs!vars
      BY <2>1 DEF target, HwProofs!vars, HwProofs!target, HwProofs!counters,
                  SwProofs!vars, SwProofs!target, SwProofs!counters
    <3> QED
      BY <1>1, <1>2, <3>1, HwProofs!TargetStep, SwProofs!TargetStep, HwProofs!CountsStep
      DEF HostInv, TargetPart
  <2>2. CASE part = "hw" /\ Hw!Next
    BY <1>1, <1>2, <2>2, HwNext, HwProofs!TargetStep, HwProofs!CountsStep
    DEF HostInv, TargetPart
  <2>3. CASE part = "sw" /\ Sw!Next
    <3>1. SwProofs!Next /\ SwProofs!TargetInv
      BY <2>3, SwNext DEF HostInv, TargetPart
    <3>2. SwProofs!TargetInv'
      BY <1>1, <3>1, SwProofs!TargetStep
    <3>3. SwProofs!Counts /\ HwProofs!Counts
      BY DEF HostInv, TargetPart, HwProofs!Counts, SwProofs!Counts
    <3>4. SwProofs!Counts'
      BY <1>1, <3>1, <3>3, SwProofs!CountsStep
    <3>5. HwProofs!Counts'
      BY <3>4 DEF HwProofs!Counts, SwProofs!Counts
    <3> QED
      BY <1>2, <2>3, <3>2, <3>5 DEF HostInv, TargetPart
  <2> QED
    BY <2>1, <2>2, <2>3 DEF Next, vars
<1> QED
  BY <1>3, <1>4 DEF HostInv

LEMMA HostTrue ==
    ASSUME HostInv
    PROVE  TypeOK /\ MemoryExact /\ CallsTrue
<1>1. /\ MemoryProofs!MemoryAssumption
      /\ HwProofs!TargetAssumption /\ SwProofs!TargetAssumption
  BY PartsAssumption DEF Memory!MemoryAssumption, MemoryProofs!MemoryAssumption,
     Hw!TargetAssumption, HwProofs!TargetAssumption, SwProofs!TargetAssumption
<1>2. MemoryProofs!TypeOK /\ MemoryProofs!MemoryExact
  BY <1>1, MemoryProofs!MemoryTrue DEF HostInv
<1>3. Memory!TypeOK /\ Memory!MemoryExact
  BY <1>2 DEF Memory!TypeOK, MemoryProofs!TypeOK, Memory!Addresses, MemoryProofs!Addresses,
     Memory!MemoryExact, MemoryProofs!MemoryExact, Memory!SelectCached,
     MemoryProofs!SelectCached, Memory!WriteExact, MemoryProofs!WriteExact,
     Memory!WriteContained, MemoryProofs!WriteContained, Memory!Word, MemoryProofs!Word,
     Memory!ReadExact, MemoryProofs!ReadExact, Memory!InRange, MemoryProofs!InRange,
     Memory!DataFor, MemoryProofs!DataFor
<1>4. CASE part = "sw"
  <2>1. SwProofs!TypeOK /\ SwProofs!CallsTrue
    <3>1. SwProofs!TargetInv /\ SwProofs!Counts
      BY <1>4 DEF HostInv, TargetPart, HwProofs!Counts, SwProofs!Counts
    <3> QED
      BY <1>1, <3>1, SwProofs!TargetTyped
  <2>2. Hw!TypeOK
    BY <2>1, Zenon DEF Hw!TypeOK, SwProofs!TypeOK
  <2>3. Hw!CallsTrue
    BY <2>1, Zenon
    DEF Hw!CallsTrue, SwProofs!CallsTrue, Hw!Programmable, SwProofs!Programmable,
        Hw!StateReached, SwProofs!StateReached, Hw!SyscallComplete, SwProofs!SyscallComplete,
        Hw!Registers, SwProofs!Registers
  <2> QED
    BY <1>3, <2>2, <2>3 DEF TypeOK, MemoryExact, CallsTrue
<1>5. CASE part # "sw"
  <2>1. HwProofs!TypeOK /\ HwProofs!CallsTrue
    BY <1>1, <1>5, HwProofs!TargetTyped DEF HostInv, TargetPart
  <2>2. Hw!TypeOK
    BY <2>1, Zenon DEF Hw!TypeOK, HwProofs!TypeOK
  <2>3. Hw!CallsTrue
    BY <2>1, Zenon
    DEF Hw!CallsTrue, HwProofs!CallsTrue, Hw!Programmable, HwProofs!Programmable,
        Hw!StateReached, HwProofs!StateReached, Hw!SyscallComplete, HwProofs!SyscallComplete,
        Hw!Registers, HwProofs!Registers
  <2> QED
    BY <1>3, <2>2, <2>3 DEF TypeOK, MemoryExact, CallsTrue
<1> QED
  BY <1>4, <1>5

(* Every variable keeps its type. *)
THEOREM HostTyped == Spec => []TypeOK
<1>1. Init => HostInv
  BY HostInit
<1>2. HostInv /\ [Next]_vars => HostInv'
  BY HostStep
<1>3. HostInv => TypeOK
  BY HostTrue
<1> QED
  BY <1>1, <1>2, <1>3, PTL DEF Spec

(* Memory that a call reports as written or read is so, byte by byte, if   *)
(* the cache of CSW was right when the call began, and with a wrong cache  *)
(* a write still changes no word beside its range: for any size of memory  *)
(* and page, any number of calls and of transfers that fail, on the wire   *)
(* or later on the bus.                                                    *)
THEOREM MemorySound == Spec => []MemoryExact
<1>1. Init => HostInv
  BY HostInit
<1>2. HostInv /\ [Next]_vars => HostInv'
  BY HostStep
<1>3. HostInv => MemoryExact
  BY HostTrue
<1> QED
  BY <1>1, <1>2, <1>3, PTL DEF Spec

(* A call that reports success leaves the core and the debug port as       *)
(* CallsTrue says of the state that was asked for (for DEBUG only as long  *)
(* as no power cycle came), with hardware and with software resets, for    *)
(* any number of calls, of transfers that fail and of power cycles between *)
(* the calls.                                                              *)
THEOREM CallsSound == Spec => []CallsTrue
<1>1. Init => HostInv
  BY HostInit
<1>2. HostInv /\ [Next]_vars => HostInv'
  BY HostStep
<1>3. HostInv => CallsTrue
  BY HostTrue
<1> QED
  BY <1>1, <1>2, <1>3, PTL DEF Spec

=============================================================================
