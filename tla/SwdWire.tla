------------------------------ MODULE SwdWire ------------------------------
(***************************************************************************)
(* The SWD line, clock by clock: what SW_DP.c drives through the pins, and *)
(* spi_op.c through the SPI peripheral, against the phases of the target.  *)
(* One letter stands for one clock.                                        *)
(*   host     "d" data, "0" and "1" constant levels, "Z" not driven        *)
(*   target   "d" listens, "T" drives, "t" turnaround                      *)
(***************************************************************************)
EXTENDS Integers, Sequences

CONSTANTS Chips,       \* CONFIG_IDF_TARGET of the build
          Idles,       \* the values of DAP_Data.transfer.idle_cycles
          Turnarounds, \* the turnaround periods a target is set to
          Counts       \* the lengths of SWJ and SWD sequences

WireAssumption ==
    /\ Chips \subseteq {"ESP8266", "ESP32", "ESP32C3", "ESP32S3"}
    /\ Idles \subseteq 0..255 /\ Turnarounds \subseteq 1..4 /\ Counts \subseteq 1..256

VARIABLES
    chip,
    SWD_TransferSpeed,   \* kTransfer_SPI, _GPIO_fast or _GPIO_normal
    turnaround, data_phase, idle_cycles,
    target_turnaround, orundetect,       \* the settings of the target
    in_step,   \* the target takes the next clock for the start of a packet
    last       \* what the last call did on the line

settings == << SWD_TransferSpeed, turnaround, data_phase, idle_cycles >>
target == << target_turnaround, orundetect >>
vars == << chip, settings, target, in_step, last >>

Speeds == {"SPI", "GPIO_fast", "GPIO_normal"}
UsesSpi == SWD_TransferSpeed = "SPI"
Late == chip \in {"ESP32C3", "ESP32S3"}   \* the chips with the newer SPI

Rep(n, x) == [i \in 1..n |-> x]

(* Mutant: SWDIO is not switched to input. *)
ReleasedNever == "1"

(* PIN_SWDIO_OUT_DISABLE does nothing on the ESP32S3: the park bit stays   *)
Released == IF chip = "ESP32S3" THEN "1" ELSE "Z"

Failed(ack) == ack \in {"WAIT", "FAULT"}

GpioTurnaround == Rep(turnaround, Released)

GpioTransferred(rnw) ==
    (IF rnw THEN Rep(33, Released) \o GpioTurnaround ELSE GpioTurnaround \o Rep(33, "d"))
    \o Rep(idle_cycles, "0")

GpioFailed(rnw) ==
    LET dummy(x) == Rep(IF data_phase THEN 33 ELSE 0, x) IN
    IF rnw THEN dummy(Released) \o GpioTurnaround ELSE GpioTurnaround \o dummy("0")

GpioProtocolError == GpioTurnaround \o Rep(33, Released)

Gpio(rnw, ack) ==
    Rep(8, "d") \o GpioTurnaround \o Rep(3, Released) \o
    CASE ack = "NOACK" -> GpioProtocolError
      [] Failed(ack) -> GpioFailed(rnw)
      [] OTHER -> GpioTransferred(rnw)

(* Mutant: no turnaround after the acknowledge of a write. *)
SpiHeaderShort(rnw) == Rep(8, "d") \o Rep(4, "Z")

(* DAP_SPI_Send_Header: the newer chips drive the turnaround as ninth bit  *)
SpiHeader(rnw) ==
    Rep(8, "d") \o Rep(1, IF Late THEN "0" ELSE "Z") \o Rep(IF rnw THEN 3 ELSE 4, "Z")

DAP_SPI_Read_Data == Rep(34, "Z")

(* The newer chips cannot send 33 bits                                     *)
DAP_SPI_Write_Data == Rep(33, "d") \o Rep(IF Late THEN 1 ELSE 0, "0")

(* The ESP32C3 cannot send a single bit and reads instead                  *)
DAP_SPI_Generate_Cycle(n) == Rep(n, IF chip = "ESP32C3" THEN "Z" ELSE "0")

(* The pulse of handing SWCLK to the pins and back                         *)
DAP_SPI_Fast_Cycle == Rep(1, "Z")

DAP_SPI_Protocol_Error(rnw) == Rep(IF rnw THEN 33 ELSE 34, "1")

SpiRead(ack) ==
    CASE ack = "NOACK" -> DAP_SPI_Protocol_Error(TRUE)
      [] Failed(ack) -> IF Late THEN DAP_SPI_Fast_Cycle ELSE DAP_SPI_Generate_Cycle(1)
      [] OTHER -> DAP_SPI_Read_Data

SpiWrite(ack) ==
    CASE ack = "NOACK" -> DAP_SPI_Protocol_Error(FALSE)
      [] Failed(ack) -> << >>
      [] OTHER -> DAP_SPI_Write_Data \o DAP_SPI_Generate_Cycle(idle_cycles)

Spi(rnw, ack) == SpiHeader(rnw) \o IF rnw THEN SpiRead(ack) ELSE SpiWrite(ack)

Host(rnw, ack) == IF UsesSpi THEN Spi(rnw, ack) ELSE Gpio(rnw, ack)

(* The target: a failed packet has a data phase only under overrun         *)
(* detection, and one it does not answer it did not understand.            *)
Target(rnw, ack) ==
    LET trn == Rep(target_turnaround, "t")
        data(x) == IF Failed(ack) /\ ~orundetect THEN << >> ELSE Rep(33, x)
    IN Rep(8, "d") \o trn \o
       IF ack = "NOACK" THEN << >>
       ELSE Rep(3, "T") \o IF rnw THEN data("T") \o trn ELSE trn \o data("d")

(* The target hears what it listens for, and then only idle clocks         *)
Follows(h, t) ==
    /\ Len(h) >= Len(t)
    /\ \A i \in 1..Len(t) : t[i] = "d" => h[i] \in {"d", "0"}
    /\ \A i \in (Len(t) + 1)..Len(h) : h[i] \in {"0", "Z"}

Clash(h, t) == \E i \in 1..Len(h) : i <= Len(t) /\ t[i] = "T" /\ h[i] # "Z"

----------------------------------------------------------------------------

Quiet == [call |-> "none", rnw |-> FALSE, ack |-> "NONE", clocks |-> 0, asked |-> 0,
          idle |-> 0, clash |-> FALSE, kept |-> 0]

(* One packet.  A target that lost its place does not answer.  A write may *)
(* be one that programs DLCR or CTRL/STAT, which the target obeys from the *)
(* next packet on.                                                         *)
SWD_Transfer(rnw, ack, trn, orun) ==
    /\ ~in_step => ack = "NOACK"
    /\ ack = "PARITY" => rnw
    /\ << trn, orun >> # target => ~rnw /\ ack = "OK"
    /\ LET h == Host(rnw, IF ack = "PARITY" THEN "OK" ELSE ack)
           t == Target(rnw, ack)
       IN /\ last' = [Quiet EXCEPT !.call = "packet", !.rnw = rnw, !.ack = ack, !.clocks = Len(h),
                                   !.idle = Len(h) - Len(t), !.clash = in_step /\ Clash(h, t)]
          /\ in_step' = (in_step /\ ack # "NOACK" /\ Follows(h, t))
    /\ target_turnaround' = trn /\ orundetect' = orun
    /\ UNCHANGED << chip, settings >>

(* The bits of the last byte that DAP_SPI_ReadBits keeps: its mask is      *)
(* (2 >> (count % 8)) - 1.                                                 *)
Kept(n) == CASE n % 8 = 0 -> 1
             [] n % 8 = 1 -> 0
             [] OTHER -> n % 8

(* A sequence in which the debugger captures SWDIO, or drives it; the      *)
(* direction of the pin is left alone, also where it should be released.   *)
(* The target loses its place.                                             *)
SWD_Sequence(n, din) ==
    /\ n <= 64
    /\ last' = [Quiet EXCEPT !.call = IF din THEN "capture" ELSE "drive", !.clocks = n, !.asked = n,
                             !.kept = IF din /\ UsesSpi THEN Kept(n) ELSE ((n - 1) % 8) + 1]
    /\ in_step' = FALSE
    /\ UNCHANGED << chip, settings, target >>

(* The length register set to 0 - 1 (nine bits on the ESP8266, more on the *)
(* others).                                                                *)
Longest == 512

(* A sequence of the debugger, the reset of the line if it is long enough. *)
(* The count of DAP_SPI_WriteBits has eight bits, and the 256 that became  *)
(* 0 is the longest transfer of the peripheral, of what its buffer held.   *)
SWJ_Sequence(n) ==
    LET wrapped == UsesSpi /\ n % 256 = 0
        reset == n >= 50 /\ ~wrapped
    IN
    /\ last' = [Quiet EXCEPT !.call = "sequence", !.clocks = IF wrapped THEN Longest ELSE n,
                             !.asked = n]
    /\ in_step' = reset
    /\ target_turnaround' = IF reset THEN 1 ELSE target_turnaround
    /\ UNCHANGED << chip, settings, orundetect >>

(* Mutant: the field is taken for the period. *)
TurnaroundRaw(value) == value % 4

Turnaround(value) == (value % 4) + 1

DAP_SWD_Configure(value) ==
    /\ turnaround' = Turnaround(value)
    /\ data_phase' = ((value \div 4) % 2 = 1)
    /\ last' = Quiet
    /\ UNCHANGED << chip, SWD_TransferSpeed, idle_cycles, target, in_step >>

DAP_TransferConfigure(idle) ==
    /\ idle_cycles' = idle /\ last' = Quiet
    /\ UNCHANGED << chip, SWD_TransferSpeed, turnaround, data_phase, target, in_step >>

(* DAP_SWJ_Clock chose another engine *)
ChangeSpeed ==
    /\ SWD_TransferSpeed' \in Speeds /\ last' = Quiet
    /\ UNCHANGED << chip, turnaround, data_phase, idle_cycles, target, in_step >>

(* DAP_Setup's values; the target was just powered. *)
Init ==
    /\ chip \in Chips /\ SWD_TransferSpeed = "GPIO_normal"
    /\ turnaround = 1 /\ data_phase = FALSE /\ idle_cycles = 0
    /\ target_turnaround = 1 /\ orundetect = FALSE
    /\ in_step = FALSE /\ last = Quiet

Next ==
    \/ \E rnw \in BOOLEAN, ack \in {"OK", "WAIT", "FAULT", "PARITY", "NOACK"},
          trn \in Turnarounds, orun \in BOOLEAN : SWD_Transfer(rnw, ack, trn, orun)
    \/ \E n \in Counts, din \in BOOLEAN : SWD_Sequence(n, din)
    \/ \E n \in Counts : SWJ_Sequence(n)
    \/ \E value \in 0..7 : DAP_SWD_Configure(value)
    \/ \E idle \in Idles : DAP_TransferConfigure(idle)
    \/ ChangeSpeed

Spec == Init /\ [][Next]_vars

----------------------------------------------------------------------------

(* Every variable has its type. *)
TypeOK ==
    /\ chip \in Chips /\ SWD_TransferSpeed \in Speeds
    /\ turnaround \in 1..4 /\ data_phase \in BOOLEAN /\ idle_cycles \in Idles
    /\ target_turnaround \in Turnarounds /\ orundetect \in BOOLEAN /\ in_step \in BOOLEAN
    /\ DOMAIN last = DOMAIN Quiet

(* The engine in use and the target were given the same protocol: the SPI  *)
(* engine knows one turnaround clock and no forced data phase.             *)
Agreed ==
    IF UsesSpi THEN target_turnaround = 1 /\ ~orundetect
    ELSE target_turnaround = turnaround /\ orundetect = data_phase

(* A packet never makes the target lose its place while the settings       *)
(* agree: retries and faults give it the clocks it counts, and what comes  *)
(* after (idle cycles, the extra bits of the newer SPI) is never a start   *)
(* bit.                                                                    *)
StaysInStep ==
    in_step /\ Agreed /\ last'.call = "packet" /\ last'.ack # "NOACK" => in_step'

(* Probe and target never drive SWDIO in the same clock while the settings *)
(* agree (the pins of the ESP32S3 cannot be released).                     *)
NoClash == Agreed /\ (chip = "ESP32S3" => UsesSpi) => ~last'.clash

(* The idle cycles asked for follow every write, and every read that is    *)
(* not left to SPI.                                                        *)
IdleCycles ==
    Agreed /\ last'.call = "packet" /\ last'.ack = "OK" /\ (UsesSpi => ~last'.rnw)
        => last'.idle >= idle_cycles

(* Where the debugger asked for it, packets that fail have a data phase,   *)
(* unless they are left to SPI.                                            *)
DataPhase ==
    data_phase /\ ~UsesSpi /\ last'.call = "packet" /\ Failed(last'.ack)
        => last'.clocks >= 8 + 3 + 33

(* A sequence has as many clocks as the debugger gave bits, but for one of *)
(* 256 by SPI; and all bits of one that is captured are answered, but for  *)
(* those by SPI whose last byte has eight bits, or one.                    *)
SequenceClocks ==
    /\ last'.call = "sequence" /\ ~(UsesSpi /\ last'.asked = 256)
        => last'.clocks = last'.asked
    /\ last'.call = "capture" /\ ~(UsesSpi /\ last'.asked % 8 \in { 0, 1 })
        => last'.kept = ((last'.asked - 1) % 8) + 1

(* Every step is sound on the wire: the target follows, nothing clashes,   *)
(* and what the debugger asked for is there where the engine can give it.  *)
WireSound == [][StaysInStep /\ NoClash /\ IdleCycles /\ DataPhase /\ SequenceClocks]_vars
=============================================================================
