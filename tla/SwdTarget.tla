------------------------------ MODULE SwdTarget ------------------------------
(***************************************************************************)
(* swd_host.c brings the target into a state: held in reset, halted at its *)
(* reset vector for flash programming, running, halted, ... by hardware    *)
(* reset (swd_set_target_state_hw) or software reset (..._sw), and runs    *)
(* functions of a flash algorithm on it.  Each call is a list of steps;    *)
(* a transfer of a step may fail, which ends the call with 0 at that point *)
(* and leaves the target as it is then.                                    *)
(***************************************************************************)
EXTENDS Integers, Sequences

CONSTANTS
    Variant,         \* "hw" or "sw"
    Connect,         \* reset_connect: "NORMAL" or "UNDER_RESET"
    MaxCalls, MaxFaults,
    MaxPowerCycles   \* of the target, between calls

TargetAssumption ==
    /\ Connect \in { "NORMAL", "UNDER_RESET" }
    /\ MaxCalls \in Nat /\ MaxFaults \in Nat /\ MaxPowerCycles \in Nat

VARIABLES
    nRESET,                            \* "low" or "released"
    core,                              \* "running", "halting", "halted" or "reset"
    atVector,                          \* halted before its first instruction
    C_DEBUGEN, C_MASKINTS, VC_CORERESET,
    powered,                           \* debug power of the target
    cswCached, cswSet,                 \* dap_state.csw, and the target's CSW
    loaded,                            \* core registers set for a flash function
    call, step, retries, ap_retries, aborting,   \* the call, its next step, its counters
    wasReset,                          \* by this call
    result, calls, faults, powerCycles

target == << nRESET, core, atVector, C_DEBUGEN, C_MASKINTS, VC_CORERESET, powered, cswSet >>
counters == << calls, faults, powerCycles >>
vars == << target, cswCached, loaded, call, step, retries, ap_retries, aborting, wasReset, result, counters >>

States == { "RESET_HOLD", "RESET_PROGRAM", "RESET_RUN", "NO_DEBUG", "DEBUG", "HALT", "RUN",
            "POST_FLASH_RESET" }

swd_set_target_state_hw ==
    [ RESET_HOLD    |-> << "init", "assert" >>,
      RESET_RUN     |-> << "init", "assert", "deassert", "off" >>,
      RESET_PROGRAM |-> << "init", "debug" >>
                          \o (IF Connect = "UNDER_RESET" THEN << "assert" >> ELSE << >>)
                          \o << "enable", "catch" >>
                          \o (IF Connect = "NORMAL" THEN << "assert" >> ELSE << >>)
                          \o << "deassert", "waithalt", "uncatch" >>,
      NO_DEBUG      |-> << "init", "run" >>,
      DEBUG         |-> << "init", "line", "power", "debugen" >>,
      HALT          |-> << "init", "debug", "halt", "waithalt" >>,
      RUN           |-> << "run", "off" >>,
      POST_FLASH_RESET |-> << "init" >> ]

swd_set_target_state_sw ==
    [ swd_set_target_state_hw EXCEPT
        !.RESET_RUN = << "init", "assert", "deassert", "debug", "powerdown", "off" >>,
        !.RESET_PROGRAM = << "init", "debug", "enablehalt", "waithalt", "catch", "sysreset",
                             "waithalt", "uncatch" >> ]

Registers == << "r0", "r1", "r2", "r3", "r9", "sp", "lr", "pc", "xpsr" >>

(* Mutant: the interrupts stay masked. *)
SyscallLeavesMasked == Registers \o << "maskints", "go", "status", "finish", "result" >>

(* Registers R0 to R3, R9, SP, LR, PC and xPSR, then the core is let go    *)
(* with its interrupts masked, waited for, asked for R0, and unmasked.     *)
swd_flash_syscall_exec ==
    Registers \o << "maskints", "go", "status", "finish", "result", "halt" >>

Steps ==
    IF call = "syscall" THEN swd_flash_syscall_exec
    ELSE IF Variant = "hw" THEN swd_set_target_state_hw[call]
    ELSE swd_set_target_state_sw[call]
Now == Steps[step]

----------------------------------------------------------------------------
(* The target                                                              *)

FromReset(caught) ==
    IF caught THEN core' = "halting" /\ atVector' = TRUE
              ELSE core' = "running" /\ atVector' = FALSE
Released ==
    /\ nRESET' = "released"
    /\ IF core = "reset" THEN FromReset(VC_CORERESET /\ C_DEBUGEN)
                         ELSE UNCHANGED << core, atVector >>
Pulse == nRESET' = "released" /\ FromReset(VC_CORERESET /\ C_DEBUGEN)

(* A write to DHCSR; reset holds the core whatever is asked.               *)
DHCSR(debugen, halt, mask) ==
    /\ C_DEBUGEN' = debugen /\ C_MASKINTS' = mask
    /\ IF core = "reset" THEN UNCHANGED << core, atVector >>
       ELSE IF halt THEN /\ core' = IF core = "halted" THEN "halted" ELSE "halting"
                         /\ atVector' = (core # "running" /\ atVector)
       ELSE core' = "running" /\ atVector' = FALSE
    /\ UNCHANGED << nRESET, VC_CORERESET, powered >>

(* A word written through the access port: CSW is set up unless it is      *)
(* thought to be, and without it the write has no effect.                  *)
WordWrite(effect) ==
    /\ powered /\ cswCached' = TRUE
    /\ cswSet' = (cswSet \/ ~cswCached)
    /\ IF cswSet' THEN effect
       ELSE UNCHANGED << nRESET, core, atVector, C_DEBUGEN, C_MASKINTS, VC_CORERESET, powered >>

(* The core takes its time to halt.                                        *)
Halts ==
    /\ core = "halting" /\ core' = "halted"
    /\ UNCHANGED << nRESET, atVector, C_DEBUGEN, C_MASKINTS, VC_CORERESET, powered, cswSet,
                    cswCached, loaded, call, step, retries, ap_retries, aborting, wasReset,
                    result, counters >>

CoreUnchanged == UNCHANGED << nRESET, core, atVector, C_DEBUGEN, C_MASKINTS >>

----------------------------------------------------------------------------

Running == result = -1
GoOn ==
    IF step < Len(Steps) THEN step' = step + 1 /\ result' = -1
                         ELSE step' = 0 /\ result' = 1
(* ... or ends with 0, although the write has happened: its check failed.  *)
GoOnOrFail ==
    \/ GoOn /\ UNCHANGED faults
    \/ faults < MaxFaults /\ faults' = faults + 1 /\ step' = 0 /\ result' = 0
SameCall == UNCHANGED << retries, ap_retries, aborting, loaded, call, calls, powerCycles >>
Same == UNCHANGED << loaded, call, counters >>
Quiet == UNCHANGED << cswCached, retries, ap_retries, aborting, wasReset >> /\ Same

Begin(c) ==
    /\ ~Running /\ calls < MaxCalls
    /\ c = "syscall" => core = "halted" /\ C_DEBUGEN
    /\ call' = c /\ step' = 1 /\ result' = -1
    /\ retries' = 4 /\ ap_retries' = 2 /\ aborting' = FALSE /\ wasReset' = FALSE /\ loaded' = {}
    /\ calls' = calls + 1
    /\ UNCHANGED << target, cswCached, faults, powerCycles >>

PowerCycle ==
    /\ ~Running /\ powerCycles < MaxPowerCycles
    /\ core' = IF nRESET = "low" THEN "reset" ELSE "running"
    /\ atVector' = FALSE /\ C_DEBUGEN' = FALSE /\ C_MASKINTS' = FALSE
    /\ VC_CORERESET' = FALSE /\ powered' = FALSE /\ cswSet' = FALSE
    /\ powerCycles' = powerCycles + 1 /\ call' = "RUN" /\ result' = 0
    /\ UNCHANGED << nRESET, cswCached, loaded, step, retries, ap_retries, aborting, wasReset,
                    calls, faults >>

(* swd_init, swd_off and the reset pin do not ask the target.              *)
Pins ==
    /\ Running
    /\ \/ Now \in { "init", "off", "deassert" } /\ Released /\ UNCHANGED wasReset
       \/ /\ Now = "assert"
          /\ nRESET' = "low" /\ core' = "reset" /\ atVector' = FALSE /\ wasReset' = TRUE
    /\ GoOn
    /\ UNCHANGED << C_DEBUGEN, C_MASKINTS, VC_CORERESET, powered, cswSet, cswCached, retries,
                    ap_retries, aborting >> /\ Same

(* Steps of one or a few transfers that may each fail                      *)
Transfers == { "line", "power", "debugen", "run", "halt", "waithalt", "catch", "uncatch",
               "sysreset", "powerdown", "maskints", "go", "status", "finish", "result" }
                \cup { Registers[i] : i \in DOMAIN Registers }
NeedsPower == Now \notin { "line", "power", "powerdown", "status" }

(* 0 at any transfer, at once without debug power                          *)
Fail ==
    /\ Running /\ Now \in Transfers
    /\ \/ NeedsPower /\ ~powered /\ UNCHANGED faults
       \/ faults < MaxFaults /\ faults' = faults + 1
    /\ result' = 0 /\ step' = 0
    /\ UNCHANGED << target, cswCached, loaded, call, retries, ap_retries, aborting, wasReset, calls,
                    powerCycles >>

(* One try of swd_init_debug: JTAG2SWD, errors cleared, SELECT, power-up   *)
Try ==
    /\ powered' = TRUE /\ cswCached' = FALSE
    /\ CoreUnchanged /\ UNCHANGED << VC_CORERESET, cswSet, retries, ap_retries, aborting, wasReset >>
    /\ GoOn /\ Same

(* Mutant: the tries are not counted. *)
TryFailsForever ==
    /\ faults < MaxFaults /\ cswCached' = FALSE /\ aborting' = TRUE
    /\ UNCHANGED << target, loaded, call, step, result, wasReset, retries, ap_retries, counters >>

(* Mutant: one try too many. *)
TryFailsOnceMore ==
    /\ faults < MaxFaults /\ faults' = faults + 1 /\ cswCached' = FALSE
    /\ retries' = retries - 1
    /\ IF retries >= 0 THEN aborting' = TRUE /\ UNCHANGED << step, result >>
       ELSE aborting' = FALSE /\ step' = 0 /\ result' = 0
    /\ UNCHANGED << target, loaded, call, ap_retries, wasReset, calls, powerCycles >>

(* Four tries; after the last nothing is aborted any more.                 *)
TryFails ==
    /\ faults < MaxFaults /\ faults' = faults + 1 /\ cswCached' = FALSE
    /\ retries' = retries - 1
    /\ IF retries > 1 THEN aborting' = TRUE /\ UNCHANGED << step, result >>
       ELSE aborting' = FALSE /\ step' = 0 /\ result' = 0
    /\ UNCHANGED << target, loaded, call, ap_retries, wasReset, calls, powerCycles >>

swd_init_debug ==
    /\ Running /\ Now = "debug"
    /\ \/ /\ aborting /\ aborting' = FALSE /\ wasReset' = TRUE /\ Pulse
          /\ UNCHANGED << C_DEBUGEN, C_MASKINTS, VC_CORERESET, powered, cswSet, cswCached,
                          step, retries, ap_retries, result >> /\ Same
       \/ ~aborting /\ (Try \/ TryFails)

(* RESET_PROGRAM tries twice to enable debug, with a reset in between.     *)
EnableDebug ==
    /\ Running /\ Now \in { "enable", "enablehalt" }
    /\ \/ /\ WordWrite(DHCSR(TRUE, Now = "enablehalt", FALSE))
          /\ GoOn /\ UNCHANGED << retries, ap_retries, aborting, wasReset >> /\ Same
       \/ /\ faults < MaxFaults /\ faults' = faults + 1
          /\ ap_retries' = ap_retries - 1
          /\ IF ap_retries = 2
             THEN Pulse /\ wasReset' = TRUE /\ UNCHANGED << step, result >>
             ELSE step' = 0 /\ result' = 0 /\ UNCHANGED << nRESET, core, atVector, wasReset >>
          /\ C_DEBUGEN' \in { C_DEBUGEN, TRUE }
          /\ UNCHANGED << C_MASKINTS, VC_CORERESET, powered, cswSet, cswCached,
                          retries, aborting, loaded, call, calls, powerCycles >>

(* JTAG2SWD and clearing the errors; power-up                              *)
DebugPort ==
    /\ Running
    /\ \/ Now = "line" /\ UNCHANGED powered
       \/ Now = "power" /\ powered' = TRUE
       \/ Now = "powerdown" /\ powered' = FALSE
       \/ Now = "status" /\ UNCHANGED powered
    /\ GoOn /\ Quiet /\ CoreUnchanged /\ UNCHANGED << VC_CORERESET, cswSet >>

DebugControl ==
    /\ Running
    /\ \/ Now = "debugen" /\ WordWrite(DHCSR(TRUE, FALSE, FALSE))
       \/ Now = "run" /\ WordWrite(DHCSR(FALSE, FALSE, FALSE))
       \/ Now = "halt" /\ WordWrite(DHCSR(TRUE, TRUE, FALSE))
       \/ Now = "maskints" /\ WordWrite(DHCSR(TRUE, TRUE, TRUE))
       \/ Now = "go" /\ WordWrite(DHCSR(TRUE, FALSE, TRUE))
    /\ GoOnOrFail /\ UNCHANGED wasReset /\ SameCall

(* Mutant: the halt on reset stays. *)
CatchStays ==
    /\ Running /\ Now \in { "catch", "uncatch" }
    /\ WordWrite(VC_CORERESET' = TRUE /\ CoreUnchanged /\ UNCHANGED powered)
    /\ GoOnOrFail /\ UNCHANGED wasReset /\ SameCall

Catch ==
    /\ Running /\ Now \in { "catch", "uncatch" }
    /\ WordWrite(VC_CORERESET' = (Now = "catch") /\ CoreUnchanged /\ UNCHANGED powered)
    /\ GoOnOrFail /\ UNCHANGED wasReset /\ SameCall

(* AIRCR is read and written with SYSRESETREQ.                             *)
SoftReset ==
    /\ Running /\ Now = "sysreset"
    /\ WordWrite(FromReset(VC_CORERESET /\ C_DEBUGEN)
                   /\ UNCHANGED << nRESET, C_DEBUGEN, C_MASKINTS, VC_CORERESET, powered >>)
    /\ wasReset' = TRUE
    /\ GoOnOrFail /\ SameCall

(* Mutant: S_HALT is read once. *)
WaitOnce ==
    /\ Running /\ Now = "waithalt" /\ powered
    /\ GoOn /\ Quiet /\ UNCHANGED target

(* do { read DHCSR } while not S_HALT, for as long as it takes             *)
WaitUntilHalted ==
    /\ Running /\ Now = "waithalt" /\ powered
    /\ IF core = "halted" THEN GoOn /\ Quiet /\ UNCHANGED target ELSE UNCHANGED vars

(* A register of the core is written and waited for.                       *)
swd_write_core_register ==
    /\ Running /\ \E i \in DOMAIN Registers : Now = Registers[i]
    /\ powered /\ core = "halted"
    /\ loaded' = loaded \cup { Now }
    /\ GoOn /\ UNCHANGED << target, cswCached, retries, ap_retries, aborting, wasReset, call,
                             counters >>

(* The function comes to its breakpoint, or MAX_TIMEOUT passes.            *)
swd_wait_until_halted ==
    /\ Running /\ Now = "finish" /\ powered
    /\ \/ core' = "halted" /\ atVector' = FALSE /\ GoOn
       \/ result' = 0 /\ step' = 0 /\ UNCHANGED << core, atVector >>
    /\ Quiet /\ UNCHANGED << nRESET, C_DEBUGEN, C_MASKINTS, VC_CORERESET, powered, cswSet >>

swd_read_core_register ==
    /\ Running /\ Now = "result" /\ powered /\ core = "halted"
    /\ GoOn /\ Quiet /\ UNCHANGED target

Init ==
    /\ nRESET = "released" /\ core = "running" /\ atVector = FALSE
    /\ C_DEBUGEN = FALSE /\ C_MASKINTS = FALSE /\ VC_CORERESET = FALSE
    /\ powered = FALSE /\ cswCached = FALSE /\ cswSet = FALSE /\ loaded = {}
    /\ call = "RUN" /\ step = 0 /\ retries = 4 /\ ap_retries = 2 /\ aborting = FALSE /\ wasReset = FALSE
    /\ result = 0 /\ calls = 0 /\ faults = 0 /\ powerCycles = 0

Progress ==
    \/ Pins \/ Fail \/ swd_init_debug \/ EnableDebug \/ DebugPort \/ DebugControl
    \/ Catch \/ SoftReset \/ WaitUntilHalted
    \/ swd_write_core_register \/ swd_wait_until_halted \/ swd_read_core_register

Done == ~Running /\ calls = MaxCalls /\ UNCHANGED vars

Next ==
    \/ \E c \in States \cup { "syscall" } : Begin(c)
    \/ PowerCycle \/ Halts \/ Progress \/ Done

(* The probe goes on executing the call, and a core that has to halt does. *)
Spec == Init /\ [][Next]_vars /\ WF_vars(Progress) /\ WF_vars(Halts)

----------------------------------------------------------------------------

(* Every variable has its type.                                            *)
TypeOK ==
    /\ nRESET \in { "low", "released" } /\ core \in { "running", "halting", "halted", "reset" }
    /\ (nRESET = "low") = (core = "reset")
    /\ { atVector, C_DEBUGEN, C_MASKINTS, VC_CORERESET, powered, cswCached, cswSet, aborting,
         wasReset } \subseteq BOOLEAN
    /\ step \in 0..16 /\ retries \in 0..4 /\ ap_retries \in 0..2 /\ result \in -1..1
    /\ calls \in 0..MaxCalls /\ faults \in 0..MaxFaults /\ powerCycles \in 0..MaxPowerCycles

(* RESET_PROGRAM that succeeds leaves the core at its reset vector, out of *)
(* reset, under debug, and not to be caught by later resets.               *)
Programmable ==
    call = "RESET_PROGRAM" /\ result = 1 =>
        core = "halted" /\ atVector /\ wasReset /\ C_DEBUGEN /\ ~VC_CORERESET

(* What succeeds leaves the target in the state asked for: only RESET_HOLD *)
(* holds reset, HALT halts, RUN and NO_DEBUG let the core run undebugged,  *)
(* DEBUG enables debugging (said only as long as no power cycle came, for  *)
(* the success of the call says nothing of one within it).  Of RESET_RUN   *)
(* no more is said than that the reset is released.                        *)
StateReached ==
    result = 1 =>
        /\ (call = "RESET_HOLD") = (core = "reset")
        /\ call = "HALT" => core = "halted" /\ C_DEBUGEN
        /\ call \in { "RUN", "NO_DEBUG" } => core = "running" /\ ~C_DEBUGEN
        /\ call = "DEBUG" /\ powerCycles = 0 => C_DEBUGEN

(* A flash function starts with all its registers set, and one that is     *)
(* over has left the core halted with its interrupts not masked.           *)
SyscallComplete ==
    call = "syscall" =>
        /\ core = "running" => loaded = { Registers[i] : i \in DOMAIN Registers } /\ C_MASKINTS
        /\ result = 1 => core = "halted" /\ ~C_MASKINTS

(* A call that reports success did what it is for, as the three say it.    *)
CallsTrue == Programmable /\ StateReached /\ SyscallComplete

(* Every call returns, whatever fails.                                     *)
Returns == Running ~> ~Running

=============================================================================
