----------------------------- MODULE MCSwdHost -----------------------------
(***************************************************************************)
(* The probe as a debugger of its own on small instances: its accesses to  *)
(* memory (SwdMemory), and the states it brings a target to (SwdTarget)    *)
(* with hardware and with software resets.  Each behaviour is one of a     *)
(* single part, the others staying as they began.                          *)
(***************************************************************************)
EXTENDS Integers, Sequences

CONSTANTS
    MemSize, Page, Ranges, MaxOps, MaxErrors,           \* of SwdMemory
    Connect, MaxCalls, MaxFaults, MaxPowerCycles        \* of SwdTarget

VARIABLES
    part,    \* the part of the probe that this behaviour is about
    \* SwdMemory
    select, csw, SELECT, CSW, TAR, mem, posted, sticky, op, address, size,
    block, pc, access, got, memoryResult, ops, memoryFaults,
    \* SwdTarget
    nRESET, core, atVector, C_DEBUGEN, C_MASKINTS, VC_CORERESET, powered,
    cswCached, cswSet, loaded, call, step, retries, ap_retries, aborting,
    wasReset, result, calls, faults, powerCycles

memory ==
    << select, csw, SELECT, CSW, TAR, mem, posted, sticky, op, address, size,
       block, pc, access, got, memoryResult, ops, memoryFaults >>
target ==
    << nRESET, core, atVector, C_DEBUGEN, C_MASKINTS, VC_CORERESET, powered,
       cswCached, cswSet, loaded, call, step, retries, ap_retries, aborting,
       wasReset, result, calls, faults, powerCycles >>
vars == << part, memory, target >>

(* In the runs, ranges that begin and end within and at words and pages.   *)
SomeRanges == { r \in (0..(MemSize - 1)) \X (0..MemSize) :
    r[1] + r[2] <= MemSize /\ (r[1] \in { 0, 3, 6 } \/ r[2] = 4) }

----------------------------------------------------------------------------

Memory == INSTANCE SwdMemory WITH
    MaxFaults <- MaxErrors, result <- memoryResult, faults <- memoryFaults
Hw == INSTANCE SwdTarget WITH
    Variant <- "hw"
Sw == INSTANCE SwdTarget WITH
    Variant <- "sw"

ASSUME PartsAssumption == Memory!MemoryAssumption /\ Hw!TargetAssumption

Init ==
    /\ part \in { "memory", "hw", "sw" }
    /\ Memory!Init /\ (part # "memory" => CSW = 8)
    /\ Hw!Init

Next ==
    \/ part = "memory" /\ Memory!Next /\ UNCHANGED << part, target >>
    \/ part = "hw" /\ Hw!Next /\ UNCHANGED << part, memory >>
    \/ part = "sw" /\ Sw!Next /\ UNCHANGED << part, memory >>

(* The fairness of SwdTarget: the probe goes on executing the call, and a  *)
(* core that has to halt does.                                             *)
Spec ==
    /\ Init /\ [][Next]_vars
    /\ WF_target(part = "hw" /\ Hw!Progress /\ UNCHANGED << part, memory >>)
    /\ WF_target(part = "sw" /\ Sw!Progress /\ UNCHANGED << part, memory >>)
    /\ WF_target(part \in { "hw", "sw" } /\ Hw!Halts /\ UNCHANGED << part, memory >>)

----------------------------------------------------------------------------

(* Every variable has its type.                                            *)
TypeOK == Memory!TypeOK /\ Hw!TypeOK

(* Memory that a call reports as written or read is so, byte by byte,      *)
(* whatever failed in the calls before it, if the target has the CSW that  *)
(* the cache says when the call begins.  It has not after a write of CSW   *)
(* that failed, until one arrives: then nothing is sure but that a write   *)
(* changes no word beside its range.                                       *)
MemoryExact == Memory!MemoryExact

(* A call that reports success leaves the target in the state asked for:   *)
(* of DEBUG it is said only as long as no power cycle came, of RESET_RUN   *)
(* only that the reset is released.                                        *)
CallsTrue == Hw!CallsTrue

(* Every call on the target returns, whatever fails.                       *)
Returns == Hw!Returns

=============================================================================
