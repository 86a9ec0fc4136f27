------------------------------- MODULE SwjMode -------------------------------
(***************************************************************************)
(* The commands that decide who drives the debug pins and how fast:        *)
(* DAP_Connect, DAP_Disconnect, DAP_SWJ_Clock, DAP_SWJ_Pins and            *)
(* DAP_ResetTarget, with the pin set-up of DAP_config.h and spi_switch.c.  *)
(* SWD_TransferSpeed says which engine SWD transfers use; the function of  *)
(* the pins is a state of its own and has to follow.                       *)
(***************************************************************************)
EXTENDS Integers

CONSTANTS Chips,   \* CONFIG_IDF_TARGET of the build
          Clocks   \* the clocks a debugger asks for, in Hz

ModeAssumption ==
    /\ Chips \subseteq {"ESP8266", "ESP32", "ESP32C3", "ESP32S3"}
    /\ Clocks \subseteq Nat

VARIABLES
    chip,
    debug_port, SWD_TransferSpeed, fast_clock, clock_delay,
    pins,      \* function of SWCLK and SWDIO: "BOOT", "GPIO" or "SPI"
    nRESET,    \* "low" or "released"
    clock,     \* the last clock accepted, 0 for the default
    clocked,   \* it came after the last Connect
    last       \* the command just executed

DAP_Data == << debug_port, fast_clock, clock_delay >>
vars == << chip, DAP_Data, SWD_TransferSpeed, pins, nRESET, clock, clocked, last >>

IO_PORT_WRITE_CYCLES == 2
DELAY_SLOW_CYCLES == 3
BUS_CLOCK_FIXED == IF chip \in {"ESP32", "ESP32S3"} THEN 100000000 ELSE 80000000
CPU_CLOCK == CASE chip = "ESP8266" -> 160000000
               [] chip = "ESP32C3" -> 16000000
               [] OTHER -> 240000000

DefaultDelay == (CPU_CLOCK \div 2) \div 1000000 - IO_PORT_WRITE_CYCLES

(* Mutant: the iterations of the delay are rounded down. *)
DelayDown(hz) ==
    LET half == (BUS_CLOCK_FIXED \div 2 + (hz - 1)) \div hz IN
    IF half > IO_PORT_WRITE_CYCLES
    THEN (half - IO_PORT_WRITE_CYCLES) \div DELAY_SLOW_CYCLES ELSE 1

(* Iterations of PIN_DELAY_SLOW in half a clock                            *)
Delay(hz) ==
    LET half == (BUS_CLOCK_FIXED \div 2 + (hz - 1)) \div hz IN
    IF half > IO_PORT_WRITE_CYCLES
    THEN (half - IO_PORT_WRITE_CYCLES + DELAY_SLOW_CYCLES - 1) \div DELAY_SLOW_CYCLES
    ELSE 1

DAP_SPI_Init == pins' = "SPI"
DAP_SPI_Deinit == pins' = "GPIO"
PORT_SWD_SETUP == DAP_SPI_Deinit

(* TCK and TMS are set up on the ESP8266 only; the ESP32S3 enables the     *)
(* output of nRESET at its old level, the others release it.               *)
PORT_JTAG_SETUP ==
    /\ pins' = IF chip = "ESP8266" THEN "GPIO" ELSE pins
    /\ nRESET' = IF chip = "ESP32S3" THEN nRESET ELSE "released"

(* Mutant: a disconnect leaves nRESET alone. *)
PORT_OFF_Nothing == UNCHANGED << nRESET, pins >>

PORT_OFF == nRESET' = "released" /\ UNCHANGED pins

PIN_nRESET_OUT(bit) == nRESET' = IF bit = 1 THEN "released" ELSE "low"

----------------------------------------------------------------------------

(* The SPI engine keeps its pins over a Connect                            *)
SwdPins == IF SWD_TransferSpeed = "SPI" THEN UNCHANGED pins ELSE PORT_SWD_SETUP

(* Port 0 asks for the default, SWD; a port that is not built in changes   *)
(* nothing.                                                                *)
DAP_Connect(port) ==
    /\ \/ /\ port \in {"DEFAULT", "SWD"}
          /\ debug_port' = "SWD" /\ SwdPins /\ UNCHANGED nRESET
       \/ /\ port = "JTAG"
          /\ debug_port' = "JTAG" /\ PORT_JTAG_SETUP
       \/ /\ port = "OTHER"
          /\ UNCHANGED << debug_port, pins, nRESET >>
    /\ clocked' = (clocked /\ port = "OTHER")
    /\ last' = "Connect"
    /\ UNCHANGED << chip, fast_clock, clock_delay, SWD_TransferSpeed, clock >>

DAP_Disconnect ==
    /\ debug_port' = "DISABLED" /\ PORT_OFF /\ last' = "Disconnect"
    /\ UNCHANGED << chip, fast_clock, clock_delay, SWD_TransferSpeed, clock, clocked >>

(* Ends with nRESET released; the transfers of a software reset change     *)
(* nothing here.                                                           *)
DAP_ResetTarget ==
    /\ PIN_nRESET_OUT(1) /\ last' = "ResetTarget"
    /\ UNCHANGED << chip, DAP_Data, SWD_TransferSpeed, pins, clock, clocked >>

(* Mutant: the pins are not given back. *)
RestoreForgotten == IF SWD_TransferSpeed = "SPI" THEN DAP_SPI_Deinit ELSE UNCHANGED pins

Restore == IF SWD_TransferSpeed = "SPI" THEN DAP_SPI_Init ELSE UNCHANGED pins

(* The pins are taken from SPI, set, waited for, read, and given back.     *)
DAP_SWJ_Pins(select, bit) ==
    /\ IF select THEN PIN_nRESET_OUT(bit) ELSE UNCHANGED nRESET
    /\ Restore
    /\ last' = "SWJ_Pins"
    /\ UNCHANGED << chip, DAP_Data, SWD_TransferSpeed, clock, clocked >>

(* Mutant: the fast engine runs without a delay. *)
EngineNoDelay(speed, fast, delay) ==
    /\ SWD_TransferSpeed' = speed /\ fast_clock' = fast
    /\ clock_delay' = IF fast THEN 0 ELSE delay

Engine(speed, fast, delay) ==
    SWD_TransferSpeed' = speed /\ fast_clock' = fast /\ clock_delay' = delay

(* From 10 MHz SWD uses SPI; JTAG keeps the pins it has.                   *)
Fastest ==
    IF debug_port # "JTAG"
    THEN DAP_SPI_Init /\ Engine("SPI", TRUE, 1)
    ELSE UNCHANGED pins /\ Engine("GPIO_fast", TRUE, 1)

Fast == DAP_SPI_Deinit /\ Engine("GPIO_fast", TRUE, 1)

(* Mutant: a JTAG session has the pins anyway. *)
SlowJtagKeepsPins(hz) ==
    /\ IF debug_port = "JTAG" THEN UNCHANGED pins ELSE DAP_SPI_Deinit
    /\ Engine("GPIO_normal", FALSE, Delay(hz))

Slow(hz) == DAP_SPI_Deinit /\ Engine("GPIO_normal", FALSE, Delay(hz))

DAP_SWJ_Clock(hz) ==
    /\ last' = "SWJ_Clock"
    /\ \/ /\ hz = 0
          /\ UNCHANGED << DAP_Data, SWD_TransferSpeed, pins, clock, clocked >>
       \/ /\ hz > 0 /\ clock' = hz /\ clocked' = TRUE
          /\ \/ hz >= 10000000 /\ Fastest
             \/ hz >= 2000000 /\ hz < 10000000 /\ Fast
             \/ hz < 2000000 /\ Slow(hz)
          /\ UNCHANGED debug_port
    /\ UNCHANGED << chip, nRESET >>

(* At boot, and when the program is set up anew.  The speed and the pins   *)
(* are left as they are.                                                   *)
DAP_Setup ==
    /\ debug_port' = "DISABLED" /\ fast_clock' = FALSE /\ clock_delay' = DefaultDelay
    /\ PORT_OFF /\ clock' = 0 /\ clocked' = FALSE /\ last' = "Setup"
    /\ UNCHANGED << chip, SWD_TransferSpeed >>

Init ==
    /\ chip \in Chips
    /\ debug_port = "DISABLED" /\ fast_clock = FALSE /\ clock_delay = DefaultDelay
    /\ SWD_TransferSpeed = "GPIO_normal"
    /\ pins = "BOOT" /\ nRESET = "released" /\ clock = 0 /\ clocked = FALSE /\ last = "Setup"

Next ==
    \/ \E port \in {"DEFAULT", "SWD", "JTAG", "OTHER"} : DAP_Connect(port)
    \/ DAP_Disconnect \/ DAP_ResetTarget \/ DAP_Setup
    \/ \E select \in BOOLEAN, bit \in 0..1 : DAP_SWJ_Pins(select, bit)
    \/ \E hz \in Clocks : DAP_SWJ_Clock(hz)

Spec == Init /\ [][Next]_vars

----------------------------------------------------------------------------

(* Every variable has its type; a delay of 0 would be 2^32 iterations.     *)
TypeOK ==
    /\ chip \in Chips /\ debug_port \in {"DISABLED", "SWD", "JTAG"}
    /\ SWD_TransferSpeed \in {"SPI", "GPIO_fast", "GPIO_normal"}
    /\ fast_clock \in BOOLEAN /\ clock_delay \in Nat \ {0}
    /\ pins \in {"BOOT", "GPIO", "SPI"} /\ nRESET \in {"low", "released"}
    /\ clock \in Nat /\ clocked \in BOOLEAN
    /\ last \in {"Setup", "Connect", "Disconnect", "ResetTarget", "SWJ_Pins", "SWJ_Clock"}

(* A debugger that sets its clock after it connects to SWD transfers       *)
(* through the engine that has the pins, whatever other sessions, clocks   *)
(* and pin commands came before.                                           *)
SwdEngineHasPins ==
    debug_port = "SWD" /\ clocked =>
        pins = IF SWD_TransferSpeed = "SPI" THEN "SPI" ELSE "GPIO"

(* JTAG is always through the pins: after its clock was set below 10 MHz   *)
(* they are with it, and stay.                                             *)
JtagHasPins ==
    debug_port = "JTAG" /\ clocked /\ clock < 10000000 => pins = "GPIO"

(* The delays of the pins never make the clock faster than the debugger    *)
(* allows. This leaves fast_clock out: the pins without a delay, and SPI,  *)
(* which runs at 40 MHz for every clock from 10 MHz on.                    *)
ClockNotExceeded ==
    clock > 0 /\ ~fast_clock =>
        (IO_PORT_WRITE_CYCLES + DELAY_SLOW_CYCLES * clock_delay) * clock
            >= BUS_CLOCK_FIXED \div 2

(* No target is left in reset by a debugger that disconnects.              *)
ResetReleased == debug_port = "DISABLED" /\ last = "Disconnect" => nRESET = "released"

(* A session finds what it needs, whatever the ones before it left.        *)
SessionSound == SwdEngineHasPins /\ JtagHasPins /\ ClockNotExceeded /\ ResetReleased

=============================================================================
