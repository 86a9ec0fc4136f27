--------------------------- MODULE SwdTargetProofs ---------------------------
(***************************************************************************)
(* What a call of SwdTarget relies on at each of its steps, and that every *)
(* step of the probe, of the core and of the power supply keeps it.        *)
(***************************************************************************)
EXTENDS SwdTarget, TLAPS

----------------------------------------------------------------------------
(* The inductive invariant                                                 *)

TypeInv ==
    /\ nRESET \in { "low", "released" } /\ core \in { "running", "halting", "halted", "reset" }
    /\ nRESET = "low" <=> core = "reset"
    /\ atVector \in BOOLEAN /\ C_DEBUGEN \in BOOLEAN /\ C_MASKINTS \in BOOLEAN
    /\ VC_CORERESET \in BOOLEAN /\ powered \in BOOLEAN /\ cswCached \in BOOLEAN
    /\ cswSet \in BOOLEAN /\ aborting \in BOOLEAN /\ wasReset \in BOOLEAN
    /\ result \in -1..1 /\ call \in States \cup { "syscall" }
    /\ retries \in 0..4 /\ ap_retries \in 0..2 /\ powerCycles \in Nat

(* The cache says that CSW is set and it is not: the target has lost its   *)
(* power since, and no write has reached it.                               *)
Stale == cswCached /\ ~cswSet
StaleInv ==
    /\ Stale => ~C_DEBUGEN /\ ~C_MASKINTS /\ ~VC_CORERESET /\ core \in { "running", "reset" }
    /\ powerCycles = 0 => ~Stale

Halting == core \in { "halting", "halted" } /\ C_DEBUGEN
AtVector == Halting /\ VC_CORERESET /\ wasReset /\ atVector

(* What holds before each step of RESET_PROGRAM: hardware reset after the  *)
(* debug port is up, hardware reset before that, and software reset        *)
ProgramNormal ==
    /\ step \in 1..8
    /\ step = 3 => ~Stale
    /\ step \in 4..8 => C_DEBUGEN
    /\ step \in 5..7 => VC_CORERESET
    /\ step = 6 => core = "reset" /\ wasReset
    /\ step = 7 => AtVector
    /\ step = 8 => core = "halted" /\ wasReset /\ atVector
ProgramUnderReset ==
    /\ step \in 1..8
    /\ step \in 3..4 => ~Stale
    /\ step \in 4..8 => wasReset
    /\ step \in 5..8 => C_DEBUGEN
    /\ step \in 5..6 => core \in { "reset", "running" }
    /\ step \in 6..7 => VC_CORERESET
    /\ step = 7 => core = "running" \/ AtVector
    /\ step = 8 => core = "halted" /\ atVector
ProgramSoft ==
    /\ step \in 1..8
    /\ step > 1 => core # "reset"
    /\ step = 3 => ~Stale
    /\ step \in 4..8 => C_DEBUGEN
    /\ step \in 5..6 => core = "halted"
    /\ step \in 6..7 => VC_CORERESET
    /\ step = 7 => AtVector
    /\ step = 8 => core = "halted" /\ wasReset /\ atVector

AllLoaded == { Registers[i] : i \in 1..9 }
SyscallSteps ==
    /\ step \in 1..15
    /\ step \in 1..10 => core = "halted" /\ loaded = { Registers[i] : i \in 1..(step - 1) }
    /\ step \in 11..15 => loaded = AllLoaded /\ C_MASKINTS
    /\ step \in { 11, 14, 15 } => core = "halted"

HaltSteps ==
    /\ step \in 1..4
    /\ step > 1 => core # "reset"
    /\ step = 3 => ~Stale
    /\ step = 4 => Halting

StepsInv ==
    /\ call = "RESET_HOLD" => step \in 1..2
    /\ call = "RESET_RUN" => step \in 1..(IF Variant = "hw" THEN 4 ELSE 6)
    /\ call = "RESET_PROGRAM" => IF Variant # "hw" THEN ProgramSoft
                                 ELSE IF Connect = "NORMAL" THEN ProgramNormal
                                 ELSE ProgramUnderReset
    /\ call = "NO_DEBUG" => step \in 1..2 /\ (step > 1 => core # "reset")
    /\ call = "DEBUG" => step \in 1..4 /\ (step > 1 => core # "reset")
    /\ call = "HALT" => HaltSteps
    /\ call = "RUN" => step \in 1..2 /\ (step = 2 => ~C_DEBUGEN /\ core \in { "running", "reset" })
    /\ call = "POST_FLASH_RESET" => step = 1
    /\ call = "syscall" => SyscallSteps

CallInv ==
    /\ Running => StepsInv /\ retries \in 1..4 /\ ap_retries \in 1..2
    /\ ~Running => step = 0
    /\ call = "syscall" => /\ core \in { "halted", "running" }
                           /\ core = "running" => loaded = AllLoaded /\ C_MASKINTS

TargetInv == TypeInv /\ StaleInv /\ CallInv /\ CallsTrue

----------------------------------------------------------------------------
(* What the steps do                                                       *)

Failed == step' = 0 /\ result' = 0
Again == step' = step /\ result' = -1 /\ cswCached' = cswCached /\ cswSet' = cswSet
Kept == call' = call /\ loaded' = loaded /\ powerCycles' = powerCycles
DebugKept == C_DEBUGEN' = C_DEBUGEN /\ VC_CORERESET' = VC_CORERESET
CswKept == cswCached' = cswCached /\ cswSet' = cswSet
CoreKept == core' = core /\ atVector' = atVector

(* A step of the call is one of the actions that its name allows. *)
LEMMA StepActions ==
    ASSUME Running, Progress
    PROVE  /\ Now \in { "init", "off", "deassert", "assert" } => Pins
           /\ Now = "debug" => swd_init_debug
           /\ Now \in { "enable", "enablehalt" } => EnableDebug
           /\ Now \in { "line", "power", "powerdown", "status" } => Fail \/ DebugPort
           /\ Now \in { "debugen", "run", "halt", "maskints", "go" } => Fail \/ DebugControl
           /\ Now \in { "catch", "uncatch" } => Fail \/ Catch
           /\ Now = "sysreset" => Fail \/ SoftReset
           /\ Now = "waithalt" => Fail \/ WaitUntilHalted
           /\ Now = "finish" => Fail \/ swd_wait_until_halted
           /\ Now = "result" => Fail \/ swd_read_core_register
           /\ Now \in { Registers[i] : i \in 1..9 } => Fail \/ swd_write_core_register
<1> DEFINE R == { Registers[i] : i \in 1..9 }
<1>1. R = { "r0", "r1", "r2", "r3", "r9", "sp", "lr", "pc", "xpsr" }
  BY DEF Registers
<1>2. DOMAIN Registers = 1..9
  BY DEF Registers
<1>3. (\E i \in DOMAIN Registers : Now = Registers[i]) <=> Now \in R
  BY <1>2
<1>4. Transfers = { "line", "power", "debugen", "run", "halt", "waithalt", "catch", "uncatch",
               "sysreset", "powerdown", "maskints", "go", "status", "finish", "result" } \cup R
  BY <1>2 DEF Transfers
<1> HIDE DEF R
<1> USE <1>1, <1>3, <1>4 DEF Progress, Pins, Fail, swd_init_debug, EnableDebug, DebugPort,
      DebugControl, Catch, SoftReset, WaitUntilHalted, swd_write_core_register,
      swd_wait_until_halted, swd_read_core_register
<1>5. Now \in { "init", "off", "deassert", "assert" } => Pins
  OBVIOUS
<1>6. Now \in { "debug" } => swd_init_debug
  OBVIOUS
<1>7. Now \in { "enable", "enablehalt" } => EnableDebug
  OBVIOUS
<1>8. Now \in { "line", "power", "powerdown", "status" } => Fail \/ DebugPort
  OBVIOUS
<1>9. Now \in { "debugen", "run", "halt", "maskints", "go" } => Fail \/ DebugControl
  OBVIOUS
<1>10. Now \in { "catch", "uncatch" } => Fail \/ Catch
  OBVIOUS
<1>11. Now \in { "sysreset" } => Fail \/ SoftReset
  OBVIOUS
<1>12. Now \in { "waithalt" } => Fail \/ WaitUntilHalted
  OBVIOUS
<1>13. Now \in { "finish" } => Fail \/ swd_wait_until_halted
  OBVIOUS
<1>14. Now \in { "result" } => Fail \/ swd_read_core_register
  OBVIOUS
<1>15. Now \in R => Fail \/ swd_write_core_register
  OBVIOUS
<1> HIDE <1>1, <1>3, <1>4 DEF Progress, Pins, Fail, swd_init_debug, EnableDebug, DebugPort,
      DebugControl, Catch, SoftReset, WaitUntilHalted, swd_write_core_register,
      swd_wait_until_halted, swd_read_core_register
<1> QED
  BY <1>5, <1>6, <1>7, <1>8, <1>9, <1>10, <1>11, <1>12, <1>13, <1>14, <1>15 DEF R

(* What each of them does to the call and to the target. *)
LEMMA FailEffect ==
    ASSUME Fail
    PROVE  Failed /\ Kept /\ UNCHANGED << target, cswCached, retries, ap_retries, wasReset, aborting >>
BY DEF Fail, Failed, Kept

LEMMA PinsEffect ==
    ASSUME Pins, TypeInv
    PROVE  /\ GoOn /\ Kept /\ DebugKept /\ CswKept
           /\ UNCHANGED << retries, ap_retries, aborting, C_MASKINTS, powered >>
           /\ Now = "assert" =>
                nRESET' = "low" /\ core' = "reset" /\ wasReset' /\ ~atVector'
           /\ Now # "assert" =>
                /\ nRESET' = "released" /\ wasReset' = wasReset
                /\ core # "reset" => CoreKept
                /\ core = "reset" /\ VC_CORERESET /\ C_DEBUGEN => core' = "halting" /\ atVector'
                /\ core = "reset" /\ ~(VC_CORERESET /\ C_DEBUGEN) => core' = "running" /\ ~atVector'
BY DEF Pins, Kept, DebugKept, CswKept, CoreKept, Same, counters, Released, FromReset, TypeInv

LEMMA InitDebugEffect ==
    ASSUME swd_init_debug, TypeInv
    PROVE  /\ Kept /\ DebugKept /\ C_MASKINTS' = C_MASKINTS /\ ap_retries' = ap_retries
           /\ \/ /\ Again /\ retries' = retries
                 /\ nRESET' = "released" /\ core' \in { "halting", "running" }
              \/ /\ nRESET' = nRESET /\ CoreKept /\ ~cswCached'
                 /\ \/ GoOn /\ retries' = retries
                    \/ Failed /\ retries' = retries - 1
                    \/ step' = step /\ result' = -1 /\ retries > 1 /\ retries' = retries - 1
<1>1. CASE aborting
  BY <1>1 DEF swd_init_debug, Kept, DebugKept, Same, counters, Pulse, FromReset, Again, Running
<1>2. CASE Try
  BY <1>2 DEF Try, CoreUnchanged, Kept, DebugKept, CoreKept, Same, counters
<1>3. CASE TryFails
  BY <1>3 DEF swd_init_debug, Running, TryFails, Kept, DebugKept, CoreKept, Failed, target
<1> QED
  BY <1>1, <1>2, <1>3 DEF swd_init_debug

LEMMA EnableEffect ==
    ASSUME EnableDebug, TypeInv
    PROVE  /\ Kept /\ VC_CORERESET' = VC_CORERESET /\ retries' = retries
           /\ \/ /\ GoOn /\ wasReset' = wasReset /\ ap_retries' = ap_retries
                 /\ nRESET' = nRESET
                 /\ ~Stale => /\ cswSet' /\ C_DEBUGEN'
                              /\ core = "reset" => CoreKept
                              /\ core # "reset" /\ Now = "enable" => core' = "running"
                              /\ core # "reset" /\ Now = "enablehalt" =>
                                    core' \in { "halting", "halted" }
              \/ Failed
              \/ /\ Again /\ wasReset' /\ ap_retries = 2 /\ ap_retries' = 1
                 /\ nRESET' = "released" /\ core' \in { "halting", "running" }
<1> DEFINE Done1 ==
        /\ WordWrite(DHCSR(TRUE, Now = "enablehalt", FALSE))
        /\ GoOn /\ UNCHANGED << retries, ap_retries, aborting, wasReset >> /\ Same
    Fails1 ==
        /\ ap_retries' = ap_retries - 1
        /\ IF ap_retries = 2
           THEN Pulse /\ wasReset' = TRUE /\ UNCHANGED << step, result >>
           ELSE step' = 0 /\ result' = 0 /\ UNCHANGED << nRESET, core, atVector, wasReset >>
        /\ UNCHANGED << C_MASKINTS, VC_CORERESET, powered, cswSet, cswCached,
                        retries, aborting, loaded, call, calls, powerCycles >>
<1>1. Running /\ (Done1 \/ Fails1)
  BY DEF EnableDebug
<1>2. CASE Done1
  BY <1>2 DEF WordWrite, DHCSR, Kept, CoreKept, Same, counters, Stale, TypeInv
<1>3. CASE Fails1 /\ ap_retries = 2
  BY <1>1, <1>3 DEF Kept, Again, Pulse, FromReset, Running
<1>4. CASE Fails1 /\ ap_retries # 2
  BY <1>4 DEF Kept, Failed
<1> QED
  BY <1>1, <1>2, <1>3, <1>4

LEMMA DebugPortEffect ==
    ASSUME DebugPort
    PROVE  /\ Kept /\ CoreKept /\ DebugKept /\ CswKept /\ GoOn
           /\ UNCHANGED << nRESET, C_MASKINTS, wasReset >>
BY DEF DebugPort, Kept, CoreKept, DebugKept, CswKept, Quiet, Same, counters, CoreUnchanged

LEMMA DebugControlEffect ==
    ASSUME DebugControl, TypeInv
    PROVE  /\ Kept /\ VC_CORERESET' = VC_CORERESET /\ wasReset' = wasReset /\ nRESET' = nRESET
           /\ GoOn \/ Failed
           /\ Stale => Stale' /\ CoreKept /\ UNCHANGED << C_DEBUGEN, C_MASKINTS >>
           /\ ~Stale => /\ cswSet'
                        /\ C_DEBUGEN' <=> Now # "run"
                        /\ C_MASKINTS' <=> Now \in { "maskints", "go" }
                        /\ core = "reset" => CoreKept
                        /\ core # "reset" /\ Now \in { "halt", "maskints" } =>
                              core' = IF core = "halted" THEN "halted" ELSE "halting"
                        /\ core # "reset" /\ Now \in { "debugen", "run", "go" } =>
                              core' = "running"
<1>1. Kept /\ wasReset' = wasReset /\ (GoOn \/ Failed)
  BY DEF DebugControl, Kept, SameCall, GoOnOrFail, Failed
<1> QED
  BY <1>1 DEF DebugControl, WordWrite, DHCSR, CoreKept, Stale, TypeInv

LEMMA CatchEffect ==
    ASSUME Catch, TypeInv
    PROVE  /\ Kept /\ CoreKept /\ UNCHANGED << nRESET, wasReset, C_DEBUGEN, C_MASKINTS >>
           /\ GoOn \/ Failed
           /\ Stale => Stale' /\ VC_CORERESET' = VC_CORERESET
           /\ ~Stale => cswSet' /\ (VC_CORERESET' <=> Now = "catch")
<1>1. Kept /\ wasReset' = wasReset /\ (GoOn \/ Failed)
  BY DEF Catch, Kept, SameCall, GoOnOrFail, Failed
<1> QED
  BY <1>1 DEF Catch, WordWrite, CoreUnchanged, CoreKept, Stale, TypeInv

LEMMA SoftResetEffect ==
    ASSUME SoftReset, TypeInv
    PROVE  /\ Kept /\ DebugKept /\ UNCHANGED << nRESET, C_MASKINTS >> /\ wasReset'
           /\ GoOn \/ Failed
           /\ Stale => Stale' /\ CoreKept
           /\ ~Stale => cswSet' /\ core' \in { "halting", "running" }
           /\ ~Stale /\ VC_CORERESET /\ C_DEBUGEN => core' = "halting" /\ atVector'
<1>1. Kept /\ wasReset' /\ (GoOn \/ Failed)
  BY DEF SoftReset, Kept, SameCall, GoOnOrFail, Failed
<1> QED
  BY <1>1 DEF SoftReset, WordWrite, FromReset, CoreKept, DebugKept, Stale, TypeInv

LEMMA WaitEffect ==
    ASSUME WaitUntilHalted
    PROVE  /\ Kept /\ CoreKept /\ DebugKept /\ CswKept
           /\ UNCHANGED << nRESET, C_MASKINTS, wasReset >>
           /\ (core = "halted" /\ GoOn) \/ (step' = step /\ result' = -1)
<1>1. CASE core = "halted"
  BY <1>1 DEF WaitUntilHalted, Quiet, Same, counters, target, Kept, CoreKept, DebugKept, CswKept
<1>2. CASE core # "halted"
  BY <1>2 DEF WaitUntilHalted, vars, counters, target, Kept, CoreKept, DebugKept, CswKept, Running
<1> QED
  BY <1>1, <1>2

LEMMA RegisterEffect ==
    ASSUME swd_write_core_register
    PROVE  /\ core = "halted" /\ loaded' = loaded \cup { Now } /\ GoOn /\ call' = call
           /\ UNCHANGED << target, cswCached, powerCycles, wasReset >>
BY DEF swd_write_core_register, counters

LEMMA FinishEffect ==
    ASSUME swd_wait_until_halted
    PROVE  /\ Kept /\ DebugKept /\ CswKept /\ UNCHANGED << nRESET, C_MASKINTS, wasReset >>
           /\ \/ core' = "halted" /\ ~atVector' /\ GoOn
              \/ CoreKept /\ Failed
BY DEF swd_wait_until_halted, Kept, DebugKept, CswKept, CoreKept, Failed, Quiet, Same, counters

LEMMA ResultEffect ==
    ASSUME swd_read_core_register
    PROVE  /\ Kept /\ CoreKept /\ DebugKept /\ CswKept /\ GoOn /\ core = "halted"
           /\ UNCHANGED << nRESET, C_MASKINTS, wasReset >>
BY DEF swd_read_core_register, Kept, CoreKept, DebugKept, CswKept, Quiet, Same, counters, target

----------------------------------------------------------------------------
(* The lists of steps                                                      *)

LEMMA ResetHoldTable ==
    ASSUME call = "RESET_HOLD"
    PROVE  /\ Len(Steps) = 2
           /\ step = 1 => Now = "init"
           /\ step = 2 => Now = "assert"
<1>1. Steps = << "init", "assert" >>
  BY DEF Steps, swd_set_target_state_hw, swd_set_target_state_sw
<1> QED
  BY <1>1 DEF Now

LEMMA NoDebugTable ==
    ASSUME call = "NO_DEBUG"
    PROVE  /\ Len(Steps) = 2
           /\ step = 1 => Now = "init"
           /\ step = 2 => Now = "run"
<1>1. Steps = << "init", "run" >>
  BY DEF Steps, swd_set_target_state_hw, swd_set_target_state_sw
<1> QED
  BY <1>1 DEF Now

LEMMA DebugTable ==
    ASSUME call = "DEBUG"
    PROVE  /\ Len(Steps) = 4
           /\ step = 1 => Now = "init"
           /\ step = 2 => Now = "line"
           /\ step = 3 => Now = "power"
           /\ step = 4 => Now = "debugen"
<1>1. Steps = << "init", "line", "power", "debugen" >>
  BY DEF Steps, swd_set_target_state_hw, swd_set_target_state_sw
<1> QED
  BY <1>1 DEF Now

LEMMA HaltTable ==
    ASSUME call = "HALT"
    PROVE  /\ Len(Steps) = 4
           /\ step = 1 => Now = "init"
           /\ step = 2 => Now = "debug"
           /\ step = 3 => Now = "halt"
           /\ step = 4 => Now = "waithalt"
<1>1. Steps = << "init", "debug", "halt", "waithalt" >>
  BY DEF Steps, swd_set_target_state_hw, swd_set_target_state_sw
<1> QED
  BY <1>1 DEF Now

LEMMA RunTable ==
    ASSUME call = "RUN"
    PROVE  /\ Len(Steps) = 2
           /\ step = 1 => Now = "run"
           /\ step = 2 => Now = "off"
<1>1. Steps = << "run", "off" >>
  BY DEF Steps, swd_set_target_state_hw, swd_set_target_state_sw
<1> QED
  BY <1>1 DEF Now

LEMMA PostFlashTable ==
    ASSUME call = "POST_FLASH_RESET"
    PROVE  /\ Len(Steps) = 1
           /\ step = 1 => Now = "init"
<1>1. Steps = << "init" >>
  BY DEF Steps, swd_set_target_state_hw, swd_set_target_state_sw
<1> QED
  BY <1>1 DEF Now

LEMMA ResetRunHwTable ==
    ASSUME call = "RESET_RUN", Variant = "hw"
    PROVE  /\ Len(Steps) = 4
           /\ step = 1 => Now = "init"
           /\ step = 2 => Now = "assert"
           /\ step = 3 => Now = "deassert"
           /\ step = 4 => Now = "off"
<1>1. Steps = << "init", "assert", "deassert", "off" >>
  BY DEF Steps, swd_set_target_state_hw
<1> QED
  BY <1>1 DEF Now

LEMMA ResetRunSwTable ==
    ASSUME call = "RESET_RUN", Variant # "hw"
    PROVE  /\ Len(Steps) = 6
           /\ step = 1 => Now = "init"
           /\ step = 2 => Now = "assert"
           /\ step = 3 => Now = "deassert"
           /\ step = 4 => Now = "debug"
           /\ step = 5 => Now = "powerdown"
           /\ step = 6 => Now = "off"
<1>1. Steps = << "init", "assert", "deassert", "debug", "powerdown", "off" >>
  BY DEF Steps, swd_set_target_state_sw
<1> QED
  BY <1>1 DEF Now

LEMMA ProgramNormalTable ==
    ASSUME call = "RESET_PROGRAM", Variant = "hw", Connect = "NORMAL"
    PROVE  /\ Len(Steps) = 8
           /\ step = 1 => Now = "init"
           /\ step = 2 => Now = "debug"
           /\ step = 3 => Now = "enable"
           /\ step = 4 => Now = "catch"
           /\ step = 5 => Now = "assert"
           /\ step = 6 => Now = "deassert"
           /\ step = 7 => Now = "waithalt"
           /\ step = 8 => Now = "uncatch"
<1>1. Steps = << "init", "debug" >> \o << >> \o << "enable", "catch" >> \o << "assert" >>
                 \o << "deassert", "waithalt", "uncatch" >>
  BY DEF Steps, swd_set_target_state_hw
<1> QED
  BY <1>1 DEF Now

LEMMA ProgramUnderResetTable ==
    ASSUME call = "RESET_PROGRAM", Variant = "hw", Connect = "UNDER_RESET"
    PROVE  /\ Len(Steps) = 8
           /\ step = 1 => Now = "init"
           /\ step = 2 => Now = "debug"
           /\ step = 3 => Now = "assert"
           /\ step = 4 => Now = "enable"
           /\ step = 5 => Now = "catch"
           /\ step = 6 => Now = "deassert"
           /\ step = 7 => Now = "waithalt"
           /\ step = 8 => Now = "uncatch"
<1>1. Steps = << "init", "debug" >> \o << "assert" >> \o << "enable", "catch" >> \o << >>
                 \o << "deassert", "waithalt", "uncatch" >>
  BY DEF Steps, swd_set_target_state_hw
<1> QED
  BY <1>1 DEF Now

LEMMA ProgramSoftTable ==
    ASSUME call = "RESET_PROGRAM", Variant # "hw"
    PROVE  /\ Len(Steps) = 8
           /\ step = 1 => Now = "init"
           /\ step = 2 => Now = "debug"
           /\ step = 3 => Now = "enablehalt"
           /\ step = 4 => Now = "waithalt"
           /\ step = 5 => Now = "catch"
           /\ step = 6 => Now = "sysreset"
           /\ step = 7 => Now = "waithalt"
           /\ step = 8 => Now = "uncatch"
<1>1. Steps = << "init", "debug", "enablehalt", "waithalt", "catch", "sysreset", "waithalt", "uncatch" >>
  BY DEF Steps, swd_set_target_state_sw, swd_set_target_state_hw
<1> QED
  BY <1>1 DEF Now

LEMMA SyscallTable ==
    ASSUME call = "syscall"
    PROVE  /\ Len(Steps) = 15
           /\ step \in 1..9 => Now = Registers[step]
           /\ step = 10 => Now = "maskints"
           /\ step = 11 => Now = "go"
           /\ step = 12 => Now = "status"
           /\ step = 13 => Now = "finish"
           /\ step = 14 => Now = "result"
           /\ step = 15 => Now = "halt"
<1>1. Steps = Registers \o << "maskints", "go", "status", "finish", "result", "halt" >>
  BY DEF Steps, swd_flash_syscall_exec
<1>2. Registers = << "r0", "r1", "r2", "r3", "r9", "sp", "lr", "pc", "xpsr" >>
  BY DEF Registers
<1>3. Len(Steps) = 15
  BY <1>1, <1>2
<1>4. /\ step = 10 => Now = "maskints"
      /\ step = 11 => Now = "go"
      /\ step = 12 => Now = "status"
      /\ step = 13 => Now = "finish"
      /\ step = 14 => Now = "result"
      /\ step = 15 => Now = "halt"
  BY <1>1, <1>2 DEF Now
<1>5. step \in 1..9 => Now = Registers[step]
  BY <1>1, <1>2 DEF Now
<1> QED
  BY <1>3, <1>4, <1>5

----------------------------------------------------------------------------
(* The calls, step by step                                                 *)

(* The call is over with 0, or it goes on, or it is over with 1. *)
Ends(n) == result' = n /\ step' = 0

LEMMA Going ==
    ASSUME GoOn, step \in Nat, NEW n \in Nat, Len(Steps) = n
    PROVE  /\ step < n => result' = -1 /\ step' = step + 1
           /\ step = n => Ends(1)
BY DEF GoOn, Ends

LEMMA RunKeeps ==
    ASSUME TargetInv, Running, Progress, call = "RUN"
    PROVE  /\ call' = call
           /\ \/ result' = -1 /\ step' \in 1..2
                 /\ (step' = 2 => ~C_DEBUGEN' /\ core' \in { "running", "reset" })
              \/ Ends(0)
              \/ Ends(1) /\ core' = "running" /\ ~C_DEBUGEN'
<1>0. TypeInv /\ StaleInv /\ step \in 1..2
  BY DEF TargetInv, CallInv, StepsInv
<1>1. CASE step = 1
  <2>1. (Fail \/ DebugControl) /\ Now = "run"
    BY <1>1, RunTable, StepActions
  <2>2. CASE Fail
    BY <2>2, FailEffect DEF Kept, Failed, Ends
  <2>3. CASE DebugControl
    <3>1. ~C_DEBUGEN' /\ core' \in { "running", "reset" } /\ Kept /\ (GoOn \/ Failed)
      BY <1>0, <2>1, <2>3, DebugControlEffect DEF StaleInv, CoreKept
    <3> QED
      BY <1>1, <3>1, RunTable, Going DEF Kept, Failed, Ends
  <2> QED
    BY <2>1, <2>2, <2>3
<1>2. CASE step = 2
  <2>1. Pins /\ Now = "off" /\ ~C_DEBUGEN /\ core \in { "running", "reset" }
    BY <1>2, RunTable, StepActions DEF TargetInv, CallInv, StepsInv
  <2>2. GoOn /\ Kept /\ ~C_DEBUGEN' /\ core' = "running"
    BY <1>0, <2>1, PinsEffect DEF DebugKept, CoreKept
  <2> QED
    BY <1>2, <2>2, RunTable, Going DEF Kept
<1> QED
  BY <1>0, <1>1, <1>2

LEMMA NoDebugKeeps ==
    ASSUME TargetInv, Running, Progress, call = "NO_DEBUG"
    PROVE  /\ call' = call
           /\ \/ result' = -1 /\ step' \in 1..2 /\ (step' > 1 => core' # "reset")
              \/ Ends(0)
              \/ Ends(1) /\ core' = "running" /\ ~C_DEBUGEN'
<1>0. TypeInv /\ StaleInv /\ step \in 1..2 /\ (step > 1 => core # "reset")
  BY DEF TargetInv, CallInv, StepsInv
<1>1. CASE step = 1
  <2>1. Pins /\ Now = "init"
    BY <1>1, NoDebugTable, StepActions
  <2>2. GoOn /\ Kept /\ core' # "reset"
    BY <1>0, <2>1, PinsEffect DEF DebugKept, CoreKept, TypeInv
  <2> QED
    BY <1>1, <2>2, NoDebugTable, Going DEF Kept
<1>2. CASE step = 2
  <2>1. (Fail \/ DebugControl) /\ Now = "run" /\ core # "reset"
    BY <1>0, <1>2, NoDebugTable, StepActions
  <2>2. CASE Fail
    BY <2>2, FailEffect DEF Kept, Failed, Ends
  <2>3. CASE DebugControl
    <3>1. ~C_DEBUGEN' /\ core' = "running" /\ Kept /\ (GoOn \/ Failed)
      BY <1>0, <2>1, <2>3, DebugControlEffect DEF StaleInv, CoreKept
    <3> QED
      BY <1>2, <3>1, NoDebugTable, Going DEF Kept, Failed, Ends
  <2> QED
    BY <2>1, <2>2, <2>3
<1> QED
  BY <1>0, <1>1, <1>2

LEMMA DebugKeeps ==
    ASSUME TargetInv, Running, Progress, call = "DEBUG"
    PROVE  /\ call' = call /\ powerCycles' = powerCycles
           /\ \/ result' = -1 /\ step' \in 1..4 /\ (step' > 1 => core' # "reset")
              \/ Ends(0)
              \/ Ends(1) /\ core' # "reset" /\ (powerCycles = 0 => C_DEBUGEN')
<1>0. TypeInv /\ StaleInv /\ step \in 1..4 /\ (step > 1 => core # "reset")
  BY DEF TargetInv, CallInv, StepsInv
<1>1. CASE step = 1
  <2>1. Pins /\ Now = "init"
    BY <1>1, DebugTable, StepActions
  <2>2. GoOn /\ Kept /\ core' # "reset"
    BY <1>0, <2>1, PinsEffect DEF DebugKept, CoreKept, TypeInv
  <2> QED
    BY <1>1, <2>2, DebugTable, Going DEF Kept
<1>2. CASE step \in 2..3
  <2>1. (Fail \/ DebugPort) /\ core # "reset"
    BY <1>0, <1>2, DebugTable, StepActions
  <2>2. CASE Fail
    BY <2>2, FailEffect DEF Kept, Failed, Ends
  <2>3. CASE DebugPort
    BY <1>2, <2>1, <2>3, DebugPortEffect, DebugTable, Going DEF Kept, CoreKept
  <2> QED
    BY <2>1, <2>2, <2>3
<1>3. CASE step = 4
  <2>1. (Fail \/ DebugControl) /\ Now = "debugen" /\ core # "reset"
    BY <1>0, <1>3, DebugTable, StepActions
  <2>2. CASE Fail
    BY <2>2, FailEffect DEF Kept, Failed, Ends
  <2>3. CASE DebugControl
    <3>1. core' # "reset" /\ Kept /\ (GoOn \/ Failed) /\ (powerCycles = 0 => C_DEBUGEN')
      BY <1>0, <2>1, <2>3, DebugControlEffect DEF StaleInv, CoreKept
    <3> QED
      BY <1>3, <3>1, DebugTable, Going DEF Kept, Failed, Ends
  <2> QED
    BY <2>1, <2>2, <2>3
<1> QED
  BY <1>0, <1>1, <1>2, <1>3

LEMMA HaltKeeps ==
    ASSUME TargetInv, Running, Progress, call = "HALT"
    PROVE  /\ call' = call
           /\ \/ result' = -1 /\ HaltSteps'
              \/ Ends(0)
              \/ Ends(1) /\ core' = "halted" /\ C_DEBUGEN'
<1>0. HaltSteps /\ TypeInv /\ step \in 1..4
  BY DEF TargetInv, CallInv, StepsInv, HaltSteps
<1>1. CASE step = 1
  <2>1. Pins /\ Now = "init"
    BY <1>1, HaltTable, StepActions
  <2>2. core' # "reset" /\ GoOn /\ Kept
    BY <1>0, <2>1, PinsEffect DEF TypeInv, CoreKept
  <2> QED
    BY <1>1, <2>2, HaltTable, Going DEF Kept, HaltSteps
<1>2. CASE step = 2
  <2>1. swd_init_debug /\ core # "reset"
    BY <1>0, <1>2, HaltTable, StepActions DEF HaltSteps
  <2>2. core' # "reset" /\ Kept /\ (Failed \/ (GoOn /\ ~Stale') \/ (step' = step /\ result' = -1))
    BY <1>0, <2>1, InitDebugEffect DEF CoreKept, Stale, Again
  <2> QED
    BY <1>2, <2>2, HaltTable, Going DEF Kept, HaltSteps, Failed, Ends
<1>3. CASE step = 3
  <2>1. (Fail \/ DebugControl) /\ Now = "halt" /\ core # "reset" /\ ~Stale
    BY <1>0, <1>3, HaltTable, StepActions DEF HaltSteps
  <2>2. CASE Fail
    BY <2>2, FailEffect DEF Kept, Failed, Ends
  <2>3. CASE DebugControl
    <3>1. Halting' /\ Kept /\ (GoOn \/ Failed)
      BY <1>0, <2>1, <2>3, DebugControlEffect DEF Halting
    <3> QED
      BY <1>3, <3>1, HaltTable, Going DEF Kept, HaltSteps, Halting, Failed, Ends
  <2> QED
    BY <2>1, <2>2, <2>3
<1>4. CASE step = 4
  <2>1. (Fail \/ WaitUntilHalted) /\ Halting
    BY <1>0, <1>4, HaltTable, StepActions DEF HaltSteps
  <2>2. CASE Fail
    BY <2>2, FailEffect DEF Kept, Failed, Ends
  <2>3. CASE WaitUntilHalted
    <3>1. Halting' /\ Kept /\ core' = core /\ C_DEBUGEN'
          /\ ((core = "halted" /\ GoOn) \/ (step' = step /\ result' = -1))
      BY <2>1, <2>3, WaitEffect DEF Halting, CoreKept, DebugKept
    <3> QED
      BY <1>4, <3>1, HaltTable, Going DEF Kept, HaltSteps, Halting
  <2> QED
    BY <2>1, <2>2, <2>3
<1> QED
  BY <1>0, <1>1, <1>2, <1>3, <1>4

LEMMA ResetHoldKeeps ==
    ASSUME TargetInv, Running, Progress, call = "RESET_HOLD"
    PROVE  /\ call' = call
           /\ \/ result' = -1 /\ step' \in 1..2
              \/ Ends(1) /\ core' = "reset"
<1>0. TypeInv /\ step \in 1..2
  BY DEF TargetInv, CallInv, StepsInv
<1>1. Pins /\ (step = 2 => Now = "assert")
  BY <1>0, ResetHoldTable, StepActions
<1>2. GoOn /\ Kept /\ (step = 2 => core' = "reset")
  BY <1>0, <1>1, PinsEffect
<1> QED
  BY <1>0, <1>2, ResetHoldTable, Going DEF Kept

LEMMA PostFlashKeeps ==
    ASSUME TargetInv, Running, Progress, call = "POST_FLASH_RESET"
    PROVE  call' = call /\ Ends(1) /\ core' # "reset"
<1>0. TypeInv /\ step = 1
  BY DEF TargetInv, CallInv, StepsInv
<1>1. Pins /\ Now = "init"
  BY <1>0, PostFlashTable, StepActions
<1>2. GoOn /\ Kept /\ core' # "reset"
  BY <1>0, <1>1, PinsEffect DEF TypeInv, CoreKept
<1> QED
  BY <1>0, <1>2, PostFlashTable, Going DEF Kept

LEMMA ResetRunKeeps ==
    ASSUME TargetInv, Running, Progress, call = "RESET_RUN"
    PROVE  /\ call' = call
           /\ \/ result' = -1 /\ step' \in 1..(IF Variant = "hw" THEN 4 ELSE 6)
              \/ Ends(0)
              \/ Ends(1) /\ core' # "reset"
<1>0. TypeInv /\ step \in 1..(IF Variant = "hw" THEN 4 ELSE 6)
  BY DEF TargetInv, CallInv, StepsInv
<1>1. CASE Variant = "hw"
  <2>1. Pins /\ (step = 4 => Now = "off")
    BY <1>0, <1>1, ResetRunHwTable, StepActions
  <2>2. GoOn /\ Kept /\ (step = 4 => core' # "reset")
    BY <1>0, <2>1, PinsEffect DEF TypeInv, CoreKept
  <2> QED
    BY <1>0, <1>1, <2>2, ResetRunHwTable, Going DEF Kept
<1>2. CASE Variant # "hw"
  <2>1. CASE step \in { 1, 2, 3, 6 }
    <3>1. Pins /\ (step = 6 => Now = "off")
      BY <1>2, <2>1, ResetRunSwTable, StepActions
    <3>2. GoOn /\ Kept /\ (step = 6 => core' # "reset")
      BY <1>0, <3>1, PinsEffect DEF TypeInv, CoreKept
    <3> QED
      BY <1>2, <2>1, <3>2, ResetRunSwTable, Going DEF Kept
  <2>2. CASE step = 4
    <3>1. swd_init_debug
      BY <1>2, <2>2, ResetRunSwTable, StepActions
    <3>2. Kept /\ (Failed \/ GoOn \/ (step' = step /\ result' = -1))
      BY <1>0, <3>1, InitDebugEffect DEF Again
    <3> QED
      BY <1>2, <2>2, <3>2, ResetRunSwTable, Going DEF Kept, Failed, Ends
  <2>3. CASE step = 5
    <3>1. Fail \/ DebugPort
      BY <1>2, <2>3, ResetRunSwTable, StepActions
    <3>2. Kept /\ (Failed \/ GoOn)
      BY <3>1, FailEffect, DebugPortEffect
    <3> QED
      BY <1>2, <2>3, <3>2, ResetRunSwTable, Going DEF Kept, Failed, Ends
  <2> QED
    BY <1>0, <1>2, <2>1, <2>2, <2>3
<1> QED
  BY <1>1, <1>2

LEMMA ProgramNormalKeeps ==
    ASSUME TargetInv, Running, Progress, call = "RESET_PROGRAM",
           Variant = "hw", Connect = "NORMAL"
    PROVE  /\ call' = call
           /\ \/ result' = -1 /\ ProgramNormal'
              \/ Ends(0)
              \/ Ends(1) /\ core' = "halted" /\ atVector' /\ wasReset' /\ C_DEBUGEN'
                         /\ ~VC_CORERESET'
<1>0. TypeInv /\ ProgramNormal /\ step \in 1..8 /\ (C_DEBUGEN \/ core = "halted" => ~Stale)
  BY DEF TargetInv, CallInv, StepsInv, StaleInv, ProgramNormal
<1>1. CASE step = 1
  <2>1. Pins
    BY <1>1, ProgramNormalTable, StepActions
  <2>2. GoOn /\ Kept
    BY <1>0, <2>1, PinsEffect
  <2> QED
    BY <1>1, <2>2, ProgramNormalTable, Going DEF Kept, ProgramNormal
<1>2. CASE step = 2
  <2>1. swd_init_debug
    BY <1>2, ProgramNormalTable, StepActions
  <2>2. Kept /\ (Failed \/ (GoOn /\ ~Stale') \/ (step' = step /\ result' = -1))
    BY <1>0, <2>1, InitDebugEffect DEF Stale, Again
  <2> QED
    BY <1>2, <2>2, ProgramNormalTable, Going DEF Kept, ProgramNormal, Failed, Ends
<1>3. CASE step = 3
  <2>1. EnableDebug /\ ~Stale
    BY <1>0, <1>3, ProgramNormalTable, StepActions DEF ProgramNormal
  <2>2. Kept /\ (Failed \/ (GoOn /\ C_DEBUGEN') \/ (step' = step /\ result' = -1 /\ ~Stale'))
    BY <1>0, <2>1, EnableEffect DEF Stale, Again
  <2> QED
    BY <1>3, <2>2, ProgramNormalTable, Going DEF Kept, ProgramNormal, Failed, Ends
<1>4. CASE step = 4
  <2>1. (Fail \/ Catch) /\ Now = "catch" /\ C_DEBUGEN
    BY <1>0, <1>4, ProgramNormalTable, StepActions DEF ProgramNormal
  <2>2. CASE Fail
    BY <2>2, FailEffect DEF Kept, Failed, Ends
  <2>3. CASE Catch
    <3>1. C_DEBUGEN' /\ VC_CORERESET' /\ Kept /\ (GoOn \/ Failed)
      BY <1>0, <2>1, <2>3, CatchEffect
    <3> QED
      BY <1>4, <3>1, ProgramNormalTable, Going DEF Kept, ProgramNormal, Failed, Ends
  <2> QED
    BY <2>1, <2>2, <2>3
<1>5. CASE step = 5
  <2>1. Pins /\ Now = "assert" /\ C_DEBUGEN /\ VC_CORERESET
    BY <1>0, <1>5, ProgramNormalTable, StepActions DEF ProgramNormal
  <2>2. GoOn /\ Kept /\ C_DEBUGEN' /\ VC_CORERESET' /\ core' = "reset" /\ wasReset'
    BY <1>0, <2>1, PinsEffect DEF DebugKept
  <2> QED
    BY <1>5, <2>2, ProgramNormalTable, Going DEF Kept, ProgramNormal
<1>6. CASE step = 6
  <2>1. /\ Pins /\ Now = "deassert" /\ C_DEBUGEN /\ VC_CORERESET
        /\ core = "reset" /\ wasReset
    BY <1>0, <1>6, ProgramNormalTable, StepActions DEF ProgramNormal
  <2>2. /\ GoOn /\ Kept /\ C_DEBUGEN' /\ VC_CORERESET' /\ wasReset'
        /\ core' = "halting" /\ atVector'
    BY <1>0, <2>1, PinsEffect DEF DebugKept
  <2> QED
    BY <1>6, <2>2, ProgramNormalTable, Going DEF Kept, ProgramNormal, AtVector, Halting
<1>7. CASE step = 7
  <2>1. (Fail \/ WaitUntilHalted) /\ AtVector /\ C_DEBUGEN /\ VC_CORERESET
    BY <1>0, <1>7, ProgramNormalTable, StepActions DEF ProgramNormal
  <2>2. CASE Fail
    BY <2>2, FailEffect DEF Kept, Failed, Ends
  <2>3. CASE WaitUntilHalted
    <3>1. /\ AtVector' /\ C_DEBUGEN' /\ VC_CORERESET' /\ core' = core /\ Kept
          /\ (core = "halted" /\ GoOn) \/ (step' = step /\ result' = -1)
      BY <2>1, <2>3, WaitEffect DEF AtVector, Halting, CoreKept, DebugKept
    <3> QED
      BY <1>7, <3>1, ProgramNormalTable, Going DEF Kept, ProgramNormal, AtVector
  <2> QED
    BY <2>1, <2>2, <2>3
<1>8. CASE step = 8
  <2>1. /\ (Fail \/ Catch) /\ Now = "uncatch" /\ C_DEBUGEN /\ core = "halted" /\ wasReset
        /\ atVector
    BY <1>0, <1>8, ProgramNormalTable, StepActions DEF ProgramNormal
  <2>2. CASE Fail
    BY <2>2, FailEffect DEF Kept, Failed, Ends
  <2>3. CASE Catch
    <3>1. /\ C_DEBUGEN' /\ ~VC_CORERESET' /\ core' = "halted" /\ atVector' /\ wasReset'
          /\ Kept /\ (GoOn \/ Failed)
      BY <1>0, <2>1, <2>3, CatchEffect DEF CoreKept
    <3> QED
      BY <1>8, <3>1, ProgramNormalTable, Going DEF Kept, Failed, Ends
  <2> QED
    BY <2>1, <2>2, <2>3
<1> QED
  BY <1>0, <1>1, <1>2, <1>3, <1>4, <1>5, <1>6, <1>7, <1>8

LEMMA ProgramUnderResetKeeps ==
    ASSUME TargetInv, Running, Progress, call = "RESET_PROGRAM",
           Variant = "hw", Connect = "UNDER_RESET"
    PROVE  /\ call' = call
           /\ \/ result' = -1 /\ ProgramUnderReset'
              \/ Ends(0)
              \/ Ends(1) /\ core' = "halted" /\ atVector' /\ wasReset' /\ C_DEBUGEN'
                         /\ ~VC_CORERESET'
<1>0. TypeInv /\ ProgramUnderReset /\ step \in 1..8 /\ (C_DEBUGEN \/ core = "halted" => ~Stale)
  BY DEF TargetInv, CallInv, StepsInv, StaleInv, ProgramUnderReset
<1>1. CASE step = 1
  <2>1. Pins
    BY <1>1, ProgramUnderResetTable, StepActions
  <2>2. GoOn /\ Kept
    BY <1>0, <2>1, PinsEffect
  <2> QED
    BY <1>1, <2>2, ProgramUnderResetTable, Going DEF Kept, ProgramUnderReset
<1>2. CASE step = 2
  <2>1. swd_init_debug
    BY <1>2, ProgramUnderResetTable, StepActions
  <2>2. Kept /\ (Failed \/ (GoOn /\ ~Stale') \/ (step' = step /\ result' = -1))
    BY <1>0, <2>1, InitDebugEffect DEF Stale, Again
  <2> QED
    BY <1>2, <2>2, ProgramUnderResetTable, Going DEF Kept, ProgramUnderReset, Failed, Ends
<1>3. CASE step = 3
  <2>1. Pins /\ Now = "assert" /\ ~Stale
    BY <1>0, <1>3, ProgramUnderResetTable, StepActions DEF ProgramUnderReset
  <2>2. GoOn /\ Kept /\ ~Stale' /\ wasReset'
    BY <1>0, <2>1, PinsEffect DEF CswKept, Stale
  <2> QED
    BY <1>3, <2>2, ProgramUnderResetTable, Going DEF Kept, ProgramUnderReset
<1>4. CASE step = 4
  <2>1. EnableDebug /\ Now = "enable" /\ ~Stale /\ wasReset
    BY <1>0, <1>4, ProgramUnderResetTable, StepActions DEF ProgramUnderReset
  <2>2. /\ Kept
        /\ \/ Failed
           \/ GoOn /\ C_DEBUGEN' /\ wasReset' /\ core' \in { "reset", "running" }
           \/ step' = step /\ result' = -1 /\ ~Stale' /\ wasReset'
    <3>1. ~Stale' \/ ~Again
      BY <1>0, <2>1 DEF Stale, Again
    <3> QED
      BY <1>0, <2>1, <3>1, EnableEffect DEF Again, CoreKept
  <2> QED
    BY <1>4, <2>2, ProgramUnderResetTable, Going DEF Kept, ProgramUnderReset, Failed, Ends
<1>5. CASE step = 5
  <2>1. /\ Fail \/ Catch
        /\ Now = "catch" /\ C_DEBUGEN /\ wasReset /\ core \in { "reset", "running" }
    BY <1>0, <1>5, ProgramUnderResetTable, StepActions DEF ProgramUnderReset
  <2>2. CASE Fail
    BY <2>2, FailEffect DEF Kept, Failed, Ends
  <2>3. CASE Catch
    <3>1. /\ C_DEBUGEN' /\ VC_CORERESET' /\ wasReset' /\ core' \in { "reset", "running" }
          /\ Kept /\ (GoOn \/ Failed)
      BY <1>0, <2>1, <2>3, CatchEffect DEF CoreKept
    <3> QED
      BY <1>5, <3>1, ProgramUnderResetTable, Going DEF Kept, ProgramUnderReset, Failed, Ends
  <2> QED
    BY <2>1, <2>2, <2>3
<1>6. CASE step = 6
  <2>1. /\ Pins /\ Now = "deassert" /\ C_DEBUGEN /\ VC_CORERESET
        /\ core \in { "reset", "running" } /\ wasReset
    BY <1>0, <1>6, ProgramUnderResetTable, StepActions DEF ProgramUnderReset
  <2>2. /\ GoOn /\ Kept /\ C_DEBUGEN' /\ VC_CORERESET' /\ wasReset'
        /\ core' = "running" \/ (core' = "halting" /\ atVector')
    BY <1>0, <2>1, PinsEffect DEF DebugKept, CoreKept
  <2> QED
    BY <1>6, <2>2, ProgramUnderResetTable, Going DEF Kept, ProgramUnderReset, AtVector, Halting
<1>7. CASE step = 7
  <2>1. /\ Fail \/ WaitUntilHalted
        /\ core = "running" \/ AtVector
        /\ C_DEBUGEN /\ VC_CORERESET /\ wasReset
    BY <1>0, <1>7, ProgramUnderResetTable, StepActions DEF ProgramUnderReset
  <2>2. CASE Fail
    BY <2>2, FailEffect DEF Kept, Failed, Ends
  <2>3. CASE WaitUntilHalted
    <3>1. /\ core' = "running" \/ AtVector'
          /\ C_DEBUGEN' /\ VC_CORERESET' /\ wasReset' /\ core' = core /\ Kept
          /\ (core = "halted" /\ GoOn) \/ (step' = step /\ result' = -1)
      BY <2>1, <2>3, WaitEffect DEF AtVector, Halting, CoreKept, DebugKept
    <3> QED
      BY <1>7, <3>1, ProgramUnderResetTable, Going DEF Kept, ProgramUnderReset, AtVector
  <2> QED
    BY <2>1, <2>2, <2>3
<1>8. CASE step = 8
  <2>1. /\ (Fail \/ Catch) /\ Now = "uncatch" /\ C_DEBUGEN /\ core = "halted" /\ wasReset
        /\ atVector
    BY <1>0, <1>8, ProgramUnderResetTable, StepActions DEF ProgramUnderReset
  <2>2. CASE Fail
    BY <2>2, FailEffect DEF Kept, Failed, Ends
  <2>3. CASE Catch
    <3>1. /\ C_DEBUGEN' /\ ~VC_CORERESET' /\ core' = "halted" /\ atVector' /\ wasReset'
          /\ Kept /\ (GoOn \/ Failed)
      BY <1>0, <2>1, <2>3, CatchEffect DEF CoreKept
    <3> QED
      BY <1>8, <3>1, ProgramUnderResetTable, Going DEF Kept, Failed, Ends
  <2> QED
    BY <2>1, <2>2, <2>3
<1> QED
  BY <1>0, <1>1, <1>2, <1>3, <1>4, <1>5, <1>6, <1>7, <1>8

LEMMA ProgramSoftKeeps ==
    ASSUME TargetInv, Running, Progress, call = "RESET_PROGRAM", Variant # "hw"
    PROVE  /\ call' = call
           /\ \/ result' = -1 /\ ProgramSoft'
              \/ Ends(0)
              \/ Ends(1) /\ core' = "halted" /\ atVector' /\ wasReset' /\ C_DEBUGEN'
                         /\ ~VC_CORERESET'
<1>0. TypeInv /\ ProgramSoft /\ step \in 1..8 /\ (C_DEBUGEN \/ core = "halted" => ~Stale)
  BY DEF TargetInv, CallInv, StepsInv, StaleInv, ProgramSoft
<1>1. CASE step = 1
  <2>1. Pins /\ Now = "init"
    BY <1>1, ProgramSoftTable, StepActions
  <2>2. GoOn /\ Kept /\ core' # "reset"
    BY <1>0, <2>1, PinsEffect DEF CoreKept, TypeInv
  <2> QED
    BY <1>1, <2>2, ProgramSoftTable, Going DEF Kept, ProgramSoft
<1>2. CASE step = 2
  <2>1. swd_init_debug /\ core # "reset"
    BY <1>0, <1>2, ProgramSoftTable, StepActions DEF ProgramSoft
  <2>2. /\ Kept /\ core' # "reset"
        /\ Failed \/ (GoOn /\ ~Stale') \/ (step' = step /\ result' = -1)
    BY <1>0, <2>1, InitDebugEffect DEF Stale, Again, CoreKept
  <2> QED
    BY <1>2, <2>2, ProgramSoftTable, Going DEF Kept, ProgramSoft, Failed, Ends
<1>3. CASE step = 3
  <2>1. EnableDebug /\ Now = "enablehalt" /\ ~Stale /\ core # "reset"
    BY <1>0, <1>3, ProgramSoftTable, StepActions DEF ProgramSoft
  <2>2. /\ Kept
        /\ \/ Failed
           \/ GoOn /\ C_DEBUGEN' /\ core' \in { "halting", "halted" }
           \/ step' = step /\ result' = -1 /\ ~Stale' /\ core' # "reset"
    BY <1>0, <2>1, EnableEffect DEF Stale, Again
  <2> QED
    BY <1>3, <2>2, ProgramSoftTable, Going DEF Kept, ProgramSoft, Failed, Ends
<1>4. CASE step = 4
  <2>1. (Fail \/ WaitUntilHalted) /\ C_DEBUGEN /\ core # "reset"
    BY <1>0, <1>4, ProgramSoftTable, StepActions DEF ProgramSoft
  <2>2. CASE Fail
    BY <2>2, FailEffect DEF Kept, Failed, Ends
  <2>3. CASE WaitUntilHalted
    <3>1. /\ C_DEBUGEN' /\ core' = core /\ core' # "reset" /\ Kept
          /\ (core = "halted" /\ GoOn) \/ (step' = step /\ result' = -1)
      BY <2>1, <2>3, WaitEffect DEF CoreKept, DebugKept
    <3> QED
      BY <1>4, <3>1, ProgramSoftTable, Going DEF Kept, ProgramSoft
  <2> QED
    BY <2>1, <2>2, <2>3
<1>5. CASE step = 5
  <2>1. (Fail \/ Catch) /\ Now = "catch" /\ C_DEBUGEN /\ core = "halted"
    BY <1>0, <1>5, ProgramSoftTable, StepActions DEF ProgramSoft
  <2>2. CASE Fail
    BY <2>2, FailEffect DEF Kept, Failed, Ends
  <2>3. CASE Catch
    <3>1. C_DEBUGEN' /\ VC_CORERESET' /\ core' = "halted" /\ Kept /\ (GoOn \/ Failed)
      BY <1>0, <2>1, <2>3, CatchEffect DEF CoreKept
    <3> QED
      BY <1>5, <3>1, ProgramSoftTable, Going DEF Kept, ProgramSoft, Failed, Ends
  <2> QED
    BY <2>1, <2>2, <2>3
<1>6. CASE step = 6
  <2>1. (Fail \/ SoftReset) /\ C_DEBUGEN /\ VC_CORERESET
    BY <1>0, <1>6, ProgramSoftTable, StepActions DEF ProgramSoft
  <2>2. CASE Fail
    BY <2>2, FailEffect DEF Kept, Failed, Ends
  <2>3. CASE SoftReset
    <3>1. /\ C_DEBUGEN' /\ VC_CORERESET' /\ core' = "halting" /\ atVector' /\ wasReset'
          /\ Kept /\ (GoOn \/ Failed)
      BY <1>0, <2>1, <2>3, SoftResetEffect DEF DebugKept
    <3> QED
      BY <1>6, <3>1, ProgramSoftTable, Going DEF Kept, ProgramSoft, AtVector, Halting, Failed, Ends
  <2> QED
    BY <2>1, <2>2, <2>3
<1>7. CASE step = 7
  <2>1. (Fail \/ WaitUntilHalted) /\ AtVector /\ C_DEBUGEN /\ VC_CORERESET /\ core # "reset"
    BY <1>0, <1>7, ProgramSoftTable, StepActions DEF ProgramSoft
  <2>2. CASE Fail
    BY <2>2, FailEffect DEF Kept, Failed, Ends
  <2>3. CASE WaitUntilHalted
    <3>1. /\ AtVector' /\ C_DEBUGEN' /\ VC_CORERESET' /\ core' = core /\ core' # "reset" /\ Kept
          /\ (core = "halted" /\ GoOn) \/ (step' = step /\ result' = -1)
      BY <2>1, <2>3, WaitEffect DEF AtVector, Halting, CoreKept, DebugKept
    <3> QED
      BY <1>7, <3>1, ProgramSoftTable, Going DEF Kept, ProgramSoft, AtVector
  <2> QED
    BY <2>1, <2>2, <2>3
<1>8. CASE step = 8
  <2>1. /\ (Fail \/ Catch) /\ Now = "uncatch" /\ C_DEBUGEN /\ core = "halted" /\ wasReset
        /\ atVector
    BY <1>0, <1>8, ProgramSoftTable, StepActions DEF ProgramSoft
  <2>2. CASE Fail
    BY <2>2, FailEffect DEF Kept, Failed, Ends
  <2>3. CASE Catch
    <3>1. /\ C_DEBUGEN' /\ ~VC_CORERESET' /\ core' = "halted" /\ atVector' /\ wasReset'
          /\ Kept /\ (GoOn \/ Failed)
      BY <1>0, <2>1, <2>3, CatchEffect DEF CoreKept
    <3> QED
      BY <1>8, <3>1, ProgramSoftTable, Going DEF Kept, Failed, Ends
  <2> QED
    BY <2>1, <2>2, <2>3
<1> QED
  BY <1>0, <1>1, <1>2, <1>3, <1>4, <1>5, <1>6, <1>7, <1>8

(* A function that runs has its registers and its interrupts as they must  *)
(* be, also when its call has failed.                                      *)
RunsSet == core = "running" => loaded = AllLoaded /\ C_MASKINTS

LEMMA SyscallKeeps ==
    ASSUME TargetInv, Running, Progress, call = "syscall"
    PROVE  /\ call' = call /\ core' \in { "halted", "running" } /\ RunsSet'
           /\ \/ result' = -1 /\ SyscallSteps'
              \/ Ends(0)
              \/ Ends(1) /\ core' = "halted" /\ ~C_MASKINTS'
<1>0. /\ TypeInv /\ SyscallSteps /\ step \in 1..15 /\ (C_MASKINTS \/ core = "halted" => ~Stale)
      /\ core \in { "halted", "running" } /\ RunsSet
  BY DEF TargetInv, CallInv, StepsInv, StaleInv, SyscallSteps, RunsSet
<1>f. ASSUME Fail
      PROVE  call' = call /\ core' \in { "halted", "running" } /\ RunsSet' /\ Ends(0)
  <2>1. Failed /\ Kept /\ core' = core /\ C_MASKINTS' = C_MASKINTS
    BY <1>f, FailEffect DEF target
  <2> QED
    BY <1>0, <2>1 DEF Kept, Failed, Ends, RunsSet
<1>1. CASE step \in 1..9
  <2>1. /\ Fail \/ swd_write_core_register
        /\ Now = Registers[step] /\ loaded = { Registers[i] : i \in 1..(step - 1) }
    <3>1. Now = Registers[step] /\ Now \in { Registers[i] : i \in 1..9 }
      BY <1>1, SyscallTable
    <3> QED
      BY <1>0, <1>1, <3>1, StepActions DEF SyscallSteps
  <2>2. CASE swd_write_core_register
    <3>1. /\ core' = "halted" /\ loaded' = loaded \cup { Registers[step] } /\ GoOn /\ call' = call
      BY <2>1, <2>2, RegisterEffect DEF target
    <3>2. loaded' = { Registers[i] : i \in 1..step }
      BY <1>1, <2>1, <3>1
    <3>3. step' = step + 1 /\ result' = -1
      BY <1>1, <3>1, SyscallTable, Going
    <3>4. step' \in 2..10 /\ step = step' - 1
      BY <1>1, <3>3
    <3>5. loaded' = { Registers[i] : i \in 1..(step' - 1) }
      BY <3>2, <3>4
    <3> QED
      BY <3>1, <3>3, <3>4, <3>5 DEF SyscallSteps, RunsSet
  <2> QED
    BY <1>f, <2>1, <2>2
<1>2. CASE step = 10
  <2>1. /\ Fail \/ DebugControl
        /\ Now = "maskints" /\ core = "halted" /\ loaded = AllLoaded
    <3>1. step - 1 = 9
      BY <1>2
    <3> QED
      BY <1>0, <1>2, <3>1, SyscallTable, StepActions DEF SyscallSteps, AllLoaded
  <2>2. CASE DebugControl
    <3>1. /\ core' = "halted" /\ loaded' = AllLoaded /\ C_MASKINTS' /\ call' = call
          /\ GoOn \/ Failed
      BY <1>0, <2>1, <2>2, DebugControlEffect DEF Kept
    <3> QED
      BY <1>2, <3>1, SyscallTable, Going DEF SyscallSteps, RunsSet, Failed, Ends
  <2> QED
    BY <1>f, <2>1, <2>2
<1>3. CASE step = 11
  <2>1. /\ Fail \/ DebugControl
        /\ Now = "go" /\ core = "halted" /\ loaded = AllLoaded /\ C_MASKINTS
    BY <1>0, <1>3, SyscallTable, StepActions DEF SyscallSteps
  <2>2. CASE DebugControl
    <3>1. /\ core' = "running" /\ loaded' = AllLoaded /\ C_MASKINTS' /\ call' = call
          /\ GoOn \/ Failed
      BY <1>0, <2>1, <2>2, DebugControlEffect DEF Kept
    <3> QED
      BY <1>3, <3>1, SyscallTable, Going DEF SyscallSteps, RunsSet, Failed, Ends
  <2> QED
    BY <1>f, <2>1, <2>2
<1>4. CASE step = 12
  <2>1. /\ Fail \/ DebugPort
        /\ Now = "status" /\ loaded = AllLoaded /\ C_MASKINTS
    BY <1>0, <1>4, SyscallTable, StepActions DEF SyscallSteps
  <2>2. CASE DebugPort
    <3>1. core' = core /\ loaded' = AllLoaded /\ C_MASKINTS' /\ call' = call /\ GoOn
      BY <1>0, <2>1, <2>2, DebugPortEffect DEF Kept, CoreKept
    <3> QED
      BY <1>0, <1>4, <3>1, SyscallTable, Going DEF SyscallSteps, RunsSet
  <2> QED
    BY <1>f, <2>1, <2>2
<1>5. CASE step = 13
  <2>1. /\ Fail \/ swd_wait_until_halted
        /\ loaded = AllLoaded /\ C_MASKINTS
    BY <1>0, <1>5, SyscallTable, StepActions DEF SyscallSteps
  <2>2. CASE swd_wait_until_halted
    <3>1. /\ loaded' = AllLoaded /\ C_MASKINTS' /\ call' = call
          /\ (core' = "halted" /\ GoOn) \/ (core' = core /\ Failed)
      BY <1>0, <2>1, <2>2, FinishEffect DEF Kept, CoreKept
    <3> QED
      BY <1>0, <1>5, <3>1, SyscallTable, Going DEF SyscallSteps, RunsSet, Failed, Ends
  <2> QED
    BY <1>f, <2>1, <2>2
<1>6. CASE step = 14
  <2>1. /\ Fail \/ swd_read_core_register
        /\ loaded = AllLoaded /\ C_MASKINTS
    BY <1>0, <1>6, SyscallTable, StepActions DEF SyscallSteps
  <2>2. CASE swd_read_core_register
    <3>1. core' = "halted" /\ loaded' = AllLoaded /\ C_MASKINTS' /\ call' = call /\ GoOn
      BY <1>0, <2>1, <2>2, ResultEffect DEF Kept, CoreKept
    <3> QED
      BY <1>6, <3>1, SyscallTable, Going DEF SyscallSteps, RunsSet
  <2> QED
    BY <1>f, <2>1, <2>2
<1>7. CASE step = 15
  <2>1. (Fail \/ DebugControl) /\ Now = "halt" /\ core = "halted"
    BY <1>0, <1>7, SyscallTable, StepActions DEF SyscallSteps
  <2>2. CASE DebugControl
    <3>1. core' = "halted" /\ ~C_MASKINTS' /\ call' = call /\ (GoOn \/ Failed)
      BY <1>0, <2>1, <2>2, DebugControlEffect DEF Kept
    <3> QED
      BY <1>7, <3>1, SyscallTable, Going DEF RunsSet, Failed, Ends
  <2> QED
    BY <1>f, <2>1, <2>2
<1> QED
  BY <1>0, <1>1, <1>2, <1>3, <1>4, <1>5, <1>6, <1>7

----------------------------------------------------------------------------
(* Types, and what is known of a cache that is stale                       *)

(* Steps that other steps of the call must have prepared *)
Prepared ==
    /\ Now \in { "enable", "enablehalt" } => ~Stale
    /\ Now = "sysreset" => core # "reset"
    /\ Now = "finish" => core # "reset" /\ ~Stale

LEMMA StepsPrepared ==
    ASSUME TargetInv, Running, TargetAssumption
    PROVE  Prepared /\ step \in 1..15
<1>0. TypeInv /\ StaleInv /\ StepsInv /\ call \in States \cup { "syscall" }
  BY DEF TargetInv, CallInv, TypeInv
<1>1. CASE call = "RESET_HOLD"
  BY <1>0, <1>1, ResetHoldTable DEF StepsInv, Prepared
<1>2. CASE call = "RESET_RUN"
  BY <1>0, <1>2, ResetRunHwTable, ResetRunSwTable DEF StepsInv, Prepared
<1>3. CASE call = "RESET_PROGRAM" /\ Variant # "hw"
  BY <1>0, <1>3, ProgramSoftTable DEF StepsInv, ProgramSoft, Prepared
<1>4. CASE call = "RESET_PROGRAM" /\ Variant = "hw" /\ Connect = "NORMAL"
  BY <1>0, <1>4, ProgramNormalTable DEF StepsInv, ProgramNormal, Prepared
<1>5. CASE call = "RESET_PROGRAM" /\ Variant = "hw" /\ Connect = "UNDER_RESET"
  BY <1>0, <1>5, ProgramUnderResetTable DEF StepsInv, ProgramUnderReset, Prepared
<1>6. CASE call = "NO_DEBUG"
  BY <1>0, <1>6, NoDebugTable DEF StepsInv, Prepared
<1>7. CASE call = "DEBUG"
  BY <1>0, <1>7, DebugTable DEF StepsInv, Prepared
<1>8. CASE call = "HALT"
  BY <1>0, <1>8, HaltTable DEF StepsInv, HaltSteps, Prepared
<1>9. CASE call = "RUN"
  BY <1>0, <1>9, RunTable DEF StepsInv, Prepared
<1>10. CASE call = "POST_FLASH_RESET"
  BY <1>0, <1>10, PostFlashTable DEF StepsInv, Prepared
<1>11. CASE call = "syscall"
  <2>1. step \in 1..15 /\ (step \in 11..15 => C_MASKINTS) /\ core \in { "halted", "running" }
    BY <1>0, <1>11 DEF StepsInv, SyscallSteps, TargetInv, CallInv
  <2>2. CASE step \in 1..9
    <3>1. \A i \in 1..9 : Registers[i] \notin { "enable", "enablehalt", "sysreset", "finish" }
      BY DEF Registers
    <3> QED
      BY <1>11, <2>1, <2>2, <3>1, SyscallTable DEF Prepared
  <2>3. CASE step \in 10..15
    BY <1>0, <1>11, <2>1, <2>3, SyscallTable DEF Prepared, StaleInv
  <2> QED
    BY <2>1, <2>2, <2>3
<1> QED
  BY <1>0, <1>1, <1>2, <1>3, <1>4, <1>5, <1>6, <1>7, <1>8, <1>9, <1>10, <1>11
     DEF States, TargetAssumption

(* The result of a step of the call *)
LEMMA GoOnType ==
    ASSUME GoOn
    PROVE  result' \in -1..1
BY DEF GoOn

LEMMA PinsTyped ==
    ASSUME TargetInv, Pins
    PROVE  TypeInv' /\ StaleInv'
<1>0. TypeInv /\ StaleInv
  BY DEF TargetInv
<1>1. /\ nRESET' \in { "low", "released" } /\ (nRESET' = "low" <=> core' = "reset")
      /\ core' \in { "running", "halting", "halted", "reset" }
      /\ Stale' => core' \in { "running", "reset" }
  BY <1>0, PinsEffect DEF TypeInv, StaleInv, CoreKept, CswKept, Stale
<1>2. atVector' \in BOOLEAN /\ wasReset' \in BOOLEAN
  BY <1>0 DEF Pins, Released, FromReset, TypeInv
<1>3. /\ UNCHANGED << C_DEBUGEN, C_MASKINTS, VC_CORERESET, powered, cswSet, cswCached, retries,
                    ap_retries, aborting, call, powerCycles >>
      /\ result' \in -1..1
  BY GoOnType DEF Pins, Same, counters
<1> QED
  BY <1>0, <1>1, <1>2, <1>3 DEF TypeInv, StaleInv, Stale

LEMMA FailTyped ==
    ASSUME TargetInv, Fail
    PROVE  TypeInv' /\ StaleInv'
<1>1. UNCHANGED << target, cswCached, retries, ap_retries, wasReset, aborting, call, powerCycles >>
      /\ result' = 0
  BY FailEffect DEF Failed, Kept
<1> QED
  BY <1>1 DEF TargetInv, TypeInv, StaleInv, Stale, target

LEMMA InitDebugTyped ==
    ASSUME TargetInv, swd_init_debug
    PROVE  TypeInv' /\ StaleInv'
<1>0. TypeInv /\ StaleInv /\ retries \in 1..4 /\ result \in -1..1
  BY DEF TargetInv, CallInv, swd_init_debug, TypeInv
<1>1. /\ nRESET' \in { "low", "released" } /\ (nRESET' = "low" <=> core' = "reset")
      /\ core' \in { "running", "halting", "halted", "reset" }
      /\ retries' \in 0..4
  BY <1>0, InitDebugEffect DEF TypeInv, CoreKept, Failed
<1>2. Stale' => Stale /\ core' = "running"
  <2>1. CASE aborting
    <3>1. UNCHANGED << cswSet, cswCached >> /\ Pulse
      BY <2>1 DEF swd_init_debug
    <3> QED
      BY <1>0, <3>1 DEF Pulse, FromReset, StaleInv, Stale
  <2>2. CASE ~aborting
    BY <2>2 DEF swd_init_debug, Try, TryFails, Stale
  <2> QED
    BY <2>1, <2>2
<1>3. atVector' \in BOOLEAN /\ wasReset' \in BOOLEAN /\ aborting' \in BOOLEAN
      /\ cswCached' \in BOOLEAN /\ cswSet' \in BOOLEAN /\ powered' \in BOOLEAN
  BY <1>0 DEF swd_init_debug, Pulse, FromReset, Try, TryFails, CoreUnchanged, target, TypeInv
<1>4. UNCHANGED << C_DEBUGEN, C_MASKINTS, VC_CORERESET, ap_retries, call, powerCycles >>
  BY <1>0, InitDebugEffect DEF Kept, DebugKept
<1>5. result' \in -1..1
  BY <1>0, InitDebugEffect, GoOnType DEF Failed, Again
<1> QED
  BY <1>0, <1>1, <1>2, <1>3, <1>4, <1>5 DEF TypeInv, StaleInv

LEMMA EnableTyped ==
    ASSUME TargetInv, Prepared, EnableDebug
    PROVE  TypeInv' /\ StaleInv'
<1> DEFINE Done1 ==
        /\ WordWrite(DHCSR(TRUE, Now = "enablehalt", FALSE))
        /\ GoOn /\ UNCHANGED << retries, ap_retries, aborting, wasReset >> /\ Same
    Fails1 ==
        /\ IF ap_retries = 2
           THEN Pulse /\ wasReset' = TRUE /\ UNCHANGED << step, result >>
           ELSE step' = 0 /\ result' = 0 /\ UNCHANGED << nRESET, core, atVector, wasReset >>
        /\ C_DEBUGEN' \in { C_DEBUGEN, TRUE } /\ ap_retries' = ap_retries - 1
        /\ UNCHANGED << C_MASKINTS, VC_CORERESET, powered, cswSet, cswCached,
                        retries, aborting, loaded, call, calls, powerCycles >>
<1>0. TypeInv /\ StaleInv /\ ~Stale /\ ap_retries \in 1..2 /\ Running
  BY DEF TargetInv, CallInv, EnableDebug, Prepared
<1>1. Done1 \/ Fails1
  BY DEF EnableDebug
<1>2. CASE Done1
  <2>1. /\ nRESET' = nRESET /\ cswCached' /\ cswSet' /\ C_DEBUGEN' \in BOOLEAN
        /\ C_MASKINTS' \in BOOLEAN /\ atVector' \in BOOLEAN
        /\ core' \in { "running", "halting", "halted", "reset" }
        /\ core' = "reset" <=> core = "reset"
        /\ VC_CORERESET' = VC_CORERESET /\ powered' = powered
        /\ cswCached' \in BOOLEAN /\ cswSet' \in BOOLEAN
    BY <1>0, <1>2 DEF WordWrite, DHCSR, Stale, TypeInv
  <2>2. UNCHANGED << retries, ap_retries, aborting, wasReset, call, powerCycles >>
        /\ result' \in -1..1
    BY <1>2, GoOnType DEF Same, counters
  <2> QED
    BY <1>0, <2>1, <2>2 DEF TypeInv, StaleInv, Stale
<1>3. CASE Fails1
  <2>1. /\ nRESET' \in { "low", "released" } /\ (nRESET' = "low" <=> core' = "reset")
        /\ core' \in { "running", "halting", "halted", "reset" }
    BY <1>0, <1>3 DEF Pulse, FromReset, TypeInv
  <2>3. atVector' \in BOOLEAN /\ wasReset' \in BOOLEAN /\ C_DEBUGEN' \in BOOLEAN
    BY <1>0, <1>3 DEF Pulse, FromReset, TypeInv
  <2>4. /\ result' = result \/ result' = 0
        /\ ap_retries' = ap_retries - 1
    BY <1>3
  <2>5. result' \in -1..1 /\ ap_retries' \in 0..2
    BY <1>0, <2>4 DEF TypeInv
  <2>2. UNCHANGED << C_MASKINTS, VC_CORERESET, powered, cswSet, cswCached, retries, aborting,
                     call, powerCycles >>
    BY <1>3
  <2> QED
    BY <1>0, <2>1, <2>2, <2>3, <2>5 DEF TypeInv, StaleInv, Stale
<1> QED
  BY <1>1, <1>2, <1>3

LEMMA DebugPortTyped ==
    ASSUME TargetInv, DebugPort
    PROVE  TypeInv' /\ StaleInv'
<1>1. /\ UNCHANGED << nRESET, core, atVector, C_DEBUGEN, C_MASKINTS, VC_CORERESET, cswSet,
                      cswCached, retries, ap_retries, aborting, wasReset, call, powerCycles >>
      /\ result' \in -1..1
  BY GoOnType DEF DebugPort, Quiet, Same, counters, CoreUnchanged
<1>2. powered' \in BOOLEAN
  BY DEF DebugPort, TargetInv, TypeInv
<1> QED
  BY <1>1, <1>2 DEF TargetInv, TypeInv, StaleInv, Stale

LEMMA DebugControlTyped ==
    ASSUME TargetInv, DebugControl
    PROVE  TypeInv' /\ StaleInv'
<1>0. TypeInv /\ StaleInv
  BY DEF TargetInv
<1>1. /\ UNCHANGED << retries, ap_retries, aborting, wasReset, call, powerCycles >>
      /\ result' \in -1..1
  BY GoOnType DEF DebugControl, GoOnOrFail, SameCall
<1>2. /\ cswCached' \in BOOLEAN /\ cswSet' \in BOOLEAN /\ C_DEBUGEN' \in BOOLEAN
      /\ C_MASKINTS' \in BOOLEAN /\ atVector' \in BOOLEAN
      /\ nRESET' = nRESET /\ powered' = powered /\ VC_CORERESET' = VC_CORERESET
      /\ core' \in { "running", "halting", "halted", "reset" }
      /\ core' = "reset" <=> core = "reset"
  BY <1>0 DEF DebugControl, WordWrite, DHCSR, TypeInv
<1>3. Stale' <=> Stale
  BY <1>0, DebugControlEffect DEF Stale
<1>4. Stale => core' = core /\ UNCHANGED << C_DEBUGEN, C_MASKINTS >>
  BY <1>0, DebugControlEffect DEF CoreKept
<1> QED
  BY <1>0, <1>1, <1>2, <1>3, <1>4 DEF TypeInv, StaleInv

LEMMA CatchTyped ==
    ASSUME TargetInv, Catch
    PROVE  TypeInv' /\ StaleInv'
<1>0. TypeInv /\ StaleInv
  BY DEF TargetInv
<1>1. /\ UNCHANGED << retries, ap_retries, aborting, wasReset, call, powerCycles >>
      /\ result' \in -1..1
  BY GoOnType DEF Catch, GoOnOrFail, SameCall
<1>2. /\ cswCached' \in BOOLEAN /\ cswSet' \in BOOLEAN /\ VC_CORERESET' \in BOOLEAN
      /\ UNCHANGED << nRESET, core, atVector, C_DEBUGEN, C_MASKINTS, powered >>
  BY <1>0 DEF Catch, WordWrite, CoreUnchanged, TypeInv
<1>3. (Stale' <=> Stale) /\ (Stale => VC_CORERESET' = VC_CORERESET)
  BY <1>0, CatchEffect DEF Stale
<1> QED
  BY <1>0, <1>1, <1>2, <1>3 DEF TypeInv, StaleInv

LEMMA SoftResetTyped ==
    ASSUME TargetInv, Prepared, SoftReset
    PROVE  TypeInv' /\ StaleInv'
<1>0. TypeInv /\ StaleInv /\ core # "reset"
  BY DEF TargetInv, Prepared, SoftReset
<1>1. /\ UNCHANGED << retries, ap_retries, aborting, call, powerCycles >>
      /\ wasReset' \in BOOLEAN /\ result' \in -1..1
  BY GoOnType DEF SoftReset, GoOnOrFail, SameCall
<1>2. /\ cswCached' \in BOOLEAN /\ cswSet' \in BOOLEAN /\ atVector' \in BOOLEAN
      /\ UNCHANGED << nRESET, VC_CORERESET, C_DEBUGEN, C_MASKINTS, powered >>
      /\ core' \in { "running", "halting", "halted" }
  BY <1>0 DEF SoftReset, WordWrite, FromReset, TypeInv
<1>3. (Stale' <=> Stale) /\ (Stale => core' = core)
  BY <1>0, SoftResetEffect DEF Stale, CoreKept
<1> QED
  BY <1>0, <1>1, <1>2, <1>3 DEF TypeInv, StaleInv

LEMMA WaitTyped ==
    ASSUME TargetInv, WaitUntilHalted
    PROVE  TypeInv' /\ StaleInv'
<1>1. /\ UNCHANGED << nRESET, core, atVector, C_DEBUGEN, C_MASKINTS, VC_CORERESET, powered,
                      cswSet, cswCached, retries, ap_retries, aborting, wasReset, call,
                      powerCycles >>
      /\ result' \in -1..1
  <2>1. CASE core = "halted"
    BY <2>1, GoOnType DEF WaitUntilHalted, Quiet, Same, counters, target
  <2>2. CASE core # "halted"
    BY <2>2 DEF WaitUntilHalted, vars, counters, target, Running
  <2> QED
    BY <2>1, <2>2
<1> QED
  BY <1>1 DEF TargetInv, TypeInv, StaleInv, Stale

LEMMA RegisterTyped ==
    ASSUME TargetInv, swd_write_core_register \/ swd_read_core_register
    PROVE  TypeInv' /\ StaleInv'
<1>1. /\ UNCHANGED << nRESET, core, atVector, C_DEBUGEN, C_MASKINTS, VC_CORERESET, powered,
                      cswSet, cswCached, retries, ap_retries, aborting, wasReset, call,
                      powerCycles >>
      /\ result' \in -1..1
  BY GoOnType DEF swd_write_core_register, swd_read_core_register, Quiet, Same, counters, target
<1> QED
  BY <1>1 DEF TargetInv, TypeInv, StaleInv, Stale

LEMMA FinishTyped ==
    ASSUME TargetInv, Prepared, swd_wait_until_halted
    PROVE  TypeInv' /\ StaleInv'
<1>0. TypeInv /\ StaleInv /\ core # "reset" /\ ~Stale
  BY DEF TargetInv, Prepared, swd_wait_until_halted
<1>1. /\ UNCHANGED << nRESET, C_DEBUGEN, C_MASKINTS, VC_CORERESET, powered,
                      cswSet, cswCached, retries, ap_retries, aborting, wasReset, call,
                      powerCycles >>
  BY DEF swd_wait_until_halted, Quiet, Same, counters
<1>2. core' \in { "halted", core } /\ atVector' \in BOOLEAN
  BY <1>0 DEF swd_wait_until_halted, TypeInv
<1>3. result' \in -1..1
  <2>1. GoOn \/ result' = 0
    BY DEF swd_wait_until_halted
  <2> QED
    BY <2>1, GoOnType
<1> QED
  BY <1>0, <1>1, <1>2, <1>3 DEF TypeInv, StaleInv, Stale

----------------------------------------------------------------------------
(* The inductive invariant is one                                          *)

LEMMA TargetInit ==
    ASSUME Init
    PROVE  TargetInv
<1>1. /\ nRESET = "released" /\ core = "running" /\ call = "RUN" /\ retries = 4
      /\ ap_retries = 2 /\ result = 0 /\ powerCycles = 0
  BY DEF Init
<1>2. /\ atVector \in BOOLEAN /\ C_DEBUGEN \in BOOLEAN /\ C_MASKINTS \in BOOLEAN
      /\ VC_CORERESET \in BOOLEAN /\ powered \in BOOLEAN /\ cswCached \in BOOLEAN
      /\ cswSet \in BOOLEAN /\ aborting \in BOOLEAN /\ wasReset \in BOOLEAN
      /\ ~Stale
  BY DEF Init, Stale
<1>3. TypeInv /\ StaleInv
  BY <1>1, <1>2 DEF TypeInv, StaleInv, States
<1>4. step = 0
  BY DEF Init
<1>5. CallInv /\ CallsTrue
  BY <1>1, <1>4 DEF CallInv, Running, CallsTrue, Programmable, StateReached, SyscallComplete
<1> QED
  BY <1>3, <1>5 DEF TargetInv

(* The counters of tries, which only swd_init_debug and EnableDebug change *)
LEMMA TriesKept ==
    ASSUME TargetInv, Running, Progress
    PROVE  result' = -1 => retries' \in 1..4 /\ ap_retries' \in 1..2
<1>1. TypeInv /\ retries \in 1..4 /\ ap_retries \in 1..2
  BY DEF TargetInv, CallInv
<1>2. CASE swd_init_debug
  <2>1. /\ ap_retries' = ap_retries
        /\ retries' = retries \/ Failed \/ (retries > 1 /\ retries' = retries - 1)
    BY <1>1, <1>2, InitDebugEffect
  <2> QED
    BY <1>1, <2>1 DEF Failed
<1>3. CASE EnableDebug
  BY <1>1, <1>3, EnableEffect DEF Failed
<1>4. CASE Pins \/ Fail \/ DebugPort \/ DebugControl \/ Catch \/ SoftReset
  BY <1>1, <1>4 DEF Pins, Fail, DebugPort, DebugControl, Catch, SoftReset, Quiet, SameCall
<1>5. CASE \/ WaitUntilHalted \/ swd_write_core_register
           \/ swd_wait_until_halted \/ swd_read_core_register
  BY <1>1, <1>5 DEF WaitUntilHalted, swd_write_core_register, swd_wait_until_halted,
     swd_read_core_register, Quiet, vars
<1> QED
  BY <1>2, <1>3, <1>4, <1>5 DEF Progress

(* What the calls leave is what StepsInv and CallsTrue ask for. *)
LEMMA ProgressKeeps ==
    ASSUME TargetInv, TargetAssumption, Progress
    PROVE  TargetInv'
<1>0. Running
  BY DEF Progress, Pins, Fail, swd_init_debug, EnableDebug, DebugPort, DebugControl, Catch,
     SoftReset, WaitUntilHalted, swd_write_core_register, swd_wait_until_halted,
     swd_read_core_register
<1>1. Prepared
  BY <1>0, StepsPrepared
<1>2. TypeInv' /\ StaleInv'
  BY <1>1, PinsTyped, FailTyped, InitDebugTyped, EnableTyped, DebugPortTyped, DebugControlTyped,
     CatchTyped, SoftResetTyped, WaitTyped, RegisterTyped, FinishTyped DEF Progress
<1>3. call \in States \cup { "syscall" }
  BY DEF TargetInv, TypeInv
<1>4. /\ call' = call
      /\ call = "syscall" => core' \in { "halted", "running" } /\ RunsSet'
      /\ \/ result' = -1 /\ StepsInv'
         \/ Ends(0)
         \/ Ends(1) /\ CallsTrue'
  <2>1. CASE call = "RESET_HOLD"
    BY <1>0, <2>1, ResetHoldKeeps DEF StepsInv, CallsTrue, Programmable, StateReached, SyscallComplete
  <2>2. CASE call = "RESET_RUN"
    BY <1>0, <2>2, ResetRunKeeps DEF StepsInv, CallsTrue, Programmable, StateReached, SyscallComplete
  <2>3. CASE call = "RESET_PROGRAM" /\ Variant # "hw"
    BY <1>0, <2>3, ProgramSoftKeeps DEF StepsInv, CallsTrue, Programmable, StateReached, SyscallComplete
  <2>4. CASE call = "RESET_PROGRAM" /\ Variant = "hw" /\ Connect = "NORMAL"
    BY <1>0, <2>4, ProgramNormalKeeps DEF StepsInv, CallsTrue, Programmable, StateReached, SyscallComplete
  <2>5. CASE call = "RESET_PROGRAM" /\ Variant = "hw" /\ Connect = "UNDER_RESET"
    BY <1>0, <2>5, ProgramUnderResetKeeps DEF StepsInv, CallsTrue, Programmable, StateReached, SyscallComplete
  <2>6. CASE call = "NO_DEBUG"
    BY <1>0, <2>6, NoDebugKeeps DEF StepsInv, CallsTrue, Programmable, StateReached, SyscallComplete
  <2>7. CASE call = "DEBUG"
    BY <1>0, <2>7, DebugKeeps DEF StepsInv, CallsTrue, Programmable, StateReached, SyscallComplete
  <2>8. CASE call = "HALT"
    BY <1>0, <2>8, HaltKeeps DEF StepsInv, CallsTrue, Programmable, StateReached, SyscallComplete
  <2>9. CASE call = "RUN"
    BY <1>0, <2>9, RunKeeps DEF StepsInv, CallsTrue, Programmable, StateReached, SyscallComplete
  <2>10. CASE call = "POST_FLASH_RESET"
    BY <1>0, <2>10, PostFlashKeeps DEF StepsInv, CallsTrue, Programmable, StateReached, SyscallComplete
  <2>11. CASE call = "syscall"
    BY <1>0, <2>11, SyscallKeeps DEF StepsInv, CallsTrue, Programmable, StateReached, SyscallComplete
  <2> QED
    BY <1>3, <2>1, <2>2, <2>3, <2>4, <2>5, <2>6, <2>7, <2>8, <2>9, <2>10, <2>11
       DEF States, TargetAssumption
<1>5. CallsTrue'
  BY <1>4 DEF CallsTrue, Programmable, StateReached, SyscallComplete, RunsSet, AllLoaded, Ends,
     Registers
<1>6. CallInv'
  BY <1>0, <1>4, TriesKept DEF CallInv, Running, Ends, RunsSet
<1> QED
  BY <1>2, <1>5, <1>6 DEF TargetInv

(* Between calls: the next one begins, the target loses its power, the     *)
(* core comes to its halt.                                                 *)
LEMMA BeginKeeps ==
    ASSUME TargetInv, NEW c \in States \cup { "syscall" }, Begin(c)
    PROVE  TargetInv'
<1>0. TypeInv /\ StaleInv
  BY DEF TargetInv
<1>1. /\ UNCHANGED << nRESET, core, atVector, C_DEBUGEN, C_MASKINTS, VC_CORERESET, powered,
                      cswSet, cswCached, powerCycles >>
      /\ call' = c /\ step' = 1 /\ result' = -1 /\ retries' = 4 /\ ap_retries' = 2
      /\ loaded' = {} /\ (c = "syscall" => core = "halted")
  BY DEF Begin, target
<1>2. aborting' \in BOOLEAN /\ wasReset' \in BOOLEAN
  BY DEF Begin
<1>3. TypeInv' /\ StaleInv'
  BY <1>0, <1>1, <1>2 DEF TypeInv, StaleInv, Stale
<1>4. CallsTrue'
  BY <1>1 DEF CallsTrue, Programmable, StateReached, SyscallComplete
<1>5. StepsInv'
  <2>1. { Registers[i] : i \in 1..(step' - 1) } = {}
    BY <1>1
  <2>2. c = "syscall" => SyscallSteps'
    BY <1>1, <2>1 DEF SyscallSteps
  <2> QED
    BY <1>1, <2>2 DEF StepsInv, ProgramSoft, ProgramNormal, ProgramUnderReset, HaltSteps
<1>6. CallInv'
  BY <1>1, <1>5 DEF CallInv, Running
<1> QED
  BY <1>3, <1>4, <1>6 DEF TargetInv

LEMMA PowerCycleKeeps ==
    ASSUME TargetInv, PowerCycle
    PROVE  TargetInv'
<1>0. TypeInv /\ StaleInv /\ step = 0
  BY DEF TargetInv, CallInv, PowerCycle
<1>1. /\ UNCHANGED << nRESET, cswCached, step, retries, ap_retries, aborting, wasReset >>
      /\ core' = IF nRESET = "low" THEN "reset" ELSE "running"
      /\ call' = "RUN" /\ result' = 0 /\ powerCycles' = powerCycles + 1
  BY DEF PowerCycle
<1>2. ~atVector' /\ ~C_DEBUGEN' /\ ~C_MASKINTS' /\ ~VC_CORERESET'
  BY DEF PowerCycle
<1>3. /\ atVector' \in BOOLEAN /\ C_DEBUGEN' \in BOOLEAN /\ C_MASKINTS' \in BOOLEAN
      /\ VC_CORERESET' \in BOOLEAN /\ powered' \in BOOLEAN /\ cswSet' \in BOOLEAN
  BY DEF PowerCycle
<1>4. TypeInv'
  BY <1>0, <1>1, <1>3 DEF TypeInv, States
<1>5. StaleInv'
  BY <1>0, <1>1, <1>2 DEF TypeInv, StaleInv, Stale
<1>6. CallInv' /\ CallsTrue'
  BY <1>0, <1>1 DEF CallInv, Running, CallsTrue, Programmable, StateReached, SyscallComplete
<1> QED
  BY <1>4, <1>5, <1>6 DEF TargetInv

LEMMA HaltsKeeps ==
    ASSUME TargetInv, TargetAssumption, Halts
    PROVE  TargetInv'
<1>0. TypeInv /\ StaleInv /\ CallInv /\ CallsTrue /\ core = "halting"
  BY DEF TargetInv, Halts
<1>1. /\ core' = "halted"
      /\ UNCHANGED << nRESET, atVector, C_DEBUGEN, C_MASKINTS, VC_CORERESET, powered, cswSet,
                      cswCached, loaded, call, step, retries, ap_retries, aborting, wasReset,
                      result, powerCycles >>
  BY DEF Halts, counters
<1>2. TypeInv' /\ StaleInv' /\ (Stale' <=> Stale)
  BY <1>0, <1>1 DEF TypeInv, StaleInv, Stale
<1>3. CallsTrue'
  BY <1>0, <1>1 DEF CallsTrue, Programmable, StateReached, SyscallComplete
<1>4. call # "syscall"
  BY <1>0 DEF CallInv
<1>5. ASSUME Running
      PROVE  StepsInv'
  <2>1. StepsInv
    BY <1>0, <1>5 DEF CallInv
  <2>2. /\ ProgramSoft => ProgramSoft'
        /\ ProgramNormal => ProgramNormal'
        /\ ProgramUnderReset => ProgramUnderReset'
        /\ HaltSteps => HaltSteps'
    BY <1>0, <1>1, <1>2 DEF ProgramSoft, ProgramNormal, ProgramUnderReset, HaltSteps, AtVector, Halting
  <2> QED
    BY <1>0, <1>1, <1>4, <2>1, <2>2 DEF StepsInv
<1>6. CallInv'
  BY <1>0, <1>1, <1>4, <1>5 DEF CallInv, Running
<1> QED
  BY <1>2, <1>3, <1>6 DEF TargetInv

LEMMA TargetStep ==
    ASSUME TargetInv, TargetAssumption, [Next]_vars
    PROVE  TargetInv'
<1>1. CASE UNCHANGED vars
  BY <1>1 DEF vars, target, counters, TargetInv, TypeInv, StaleInv, Stale, CallInv, Running, StepsInv,
     ProgramSoft, ProgramNormal, ProgramUnderReset, HaltSteps, SyscallSteps, AtVector, Halting,
     CallsTrue, Programmable, StateReached, SyscallComplete
<1>2. CASE Done
  BY <1>1, <1>2 DEF Done
<1> QED
  BY <1>1, <1>2, BeginKeeps, PowerCycleKeeps, HaltsKeeps, ProgressKeeps DEF Next

----------------------------------------------------------------------------
(* The type invariant of SwdTarget follows, with its counters in bounds.   *)

Counts ==
    calls \in 0..MaxCalls /\ faults \in 0..MaxFaults /\ powerCycles \in 0..MaxPowerCycles

LEMMA CountsInit ==
    ASSUME Init, TargetAssumption
    PROVE  Counts
BY DEF Init, Counts, TargetAssumption

LEMMA CountsStep ==
    ASSUME Counts, TargetAssumption, [Next]_vars
    PROVE  Counts'
<1> USE DEF Counts, TargetAssumption
<1>1. ASSUME NEW c, Begin(c)
      PROVE  Counts'
  BY <1>1 DEF Begin
<1>2. CASE PowerCycle
  BY <1>2 DEF PowerCycle
<1>3. CASE Pins \/ DebugPort \/ Halts
  BY <1>3 DEF Pins, DebugPort, Halts, Quiet, Same, counters
<1>4. CASE Fail
  BY <1>4 DEF Fail
<1>5. CASE swd_init_debug
  BY <1>5 DEF swd_init_debug, Try, TryFails, Same, counters
<1>6. CASE EnableDebug
  <2>1. /\ calls' = calls /\ powerCycles' = powerCycles
        /\ faults' = faults \/ (faults < MaxFaults /\ faults' = faults + 1)
    BY <1>6 DEF EnableDebug, Same, counters
  <2> QED
    BY <2>1
<1>7. CASE DebugControl \/ Catch \/ SoftReset
  <2>1. GoOnOrFail /\ SameCall
    BY <1>7 DEF DebugControl, Catch, SoftReset
  <2> QED
    BY <2>1 DEF GoOnOrFail, SameCall
<1>8. CASE \/ WaitUntilHalted \/ swd_write_core_register \/ swd_wait_until_halted
           \/ swd_read_core_register \/ UNCHANGED vars \/ Done
  <2>1. UNCHANGED counters
    BY <1>8 DEF WaitUntilHalted, swd_write_core_register, swd_wait_until_halted,
       swd_read_core_register, Done, vars, Quiet, Same
  <2> QED
    BY <2>1 DEF counters
<1> QED
  BY <1>1, <1>2, <1>3, <1>4, <1>5, <1>6, <1>7, <1>8 DEF Next, Progress

LEMMA TargetTyped ==
    ASSUME TargetInv, Counts, TargetAssumption
    PROVE  TypeOK /\ CallsTrue
<1>1. step \in 0..16
  BY StepsPrepared DEF TargetInv, CallInv
<1>2. { atVector, C_DEBUGEN, C_MASKINTS, VC_CORERESET, powered, cswCached, cswSet, aborting,
         wasReset } \subseteq BOOLEAN
  BY DEF TargetInv, TypeInv
<1>3. (nRESET = "low") = (core = "reset")
  BY DEF TargetInv, TypeInv
<1>4. /\ nRESET \in { "low", "released" } /\ core \in { "running", "halting", "halted", "reset" }
      /\ retries \in 0..4 /\ ap_retries \in 0..2 /\ result \in -1..1 /\ CallsTrue
  BY DEF TargetInv, TypeInv
<1> QED
  BY <1>1, <1>2, <1>3, <1>4 DEF TypeOK, Counts

=============================================================================
