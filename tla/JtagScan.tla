------------------------------ MODULE JtagScan ------------------------------
(***************************************************************************)
(* JTAG_DP.c on a chain of devices: instruction and data scans as the      *)
(* TMS and TDI levels of every clock, run through the TAP controllers and  *)
(* shift registers of the chain.  A data word has W bits instead of 32;    *)
(* the device nearest TDO has index 0.                                     *)
(***************************************************************************)
EXTENDS Integers, Sequences, SequencesExt

CONSTANTS Chains,     \* the IR lengths of the devices, by chain
          W, Words,   \* bits in a data word, and the words that are sent and read
          Requests    \* the request bits RnW, A2, A3

ScanAssumption == /\ W \in Nat \ {0} /\ Words \subseteq [1..W -> {0, 1}]
                  /\ Requests \subseteq [1..3 -> {0, 1}]
                  /\ \A c \in Chains : c \in Seq(Nat \ (0..3))

VARIABLES
    chain,          \* the chain that is connected
    jtag_dev,       \* DAP_Data.jtag_dev: count, index, ir_length, ir_before, ir_after
    selected,       \* device and instruction of the transfer command under way
    tap, irs, sr,   \* chain: TAP state, instructions, shift register
    last            \* what the last command sent and got

vars == << chain, jtag_dev, selected, tap, irs, sr, last >>

Devices == 1..Len(chain)
Bits(n) == [1..n -> {0, 1}]
Rep(n, x) == [i \in 1..n |-> x]

JTAG_ABORT  == << 0, 0, 0, 1 >>
JTAG_DPACC  == << 0, 1, 0, 1 >>
JTAG_APACC  == << 1, 1, 0, 1 >>
JTAG_IDCODE == << 0, 1, 1, 1 >>

(* The instruction in the length of the device, low bit first              *)
Ir(code, n) == [i \in 1..n |-> IF i <= 4 THEN code[i] ELSE 0]

----------------------------------------------------------------------------
(* The chain: 16 TAP states; Capture loads the registers, Shift moves      *)
(* every bit one place towards TDO, Update takes what each device holds.   *)

TapNext == [
    Reset |-> << "Idle", "Reset" >>,       Idle |-> << "Idle", "SelectDR" >>,
    SelectDR |-> << "CaptureDR", "SelectIR" >>,
    CaptureDR |-> << "ShiftDR", "Exit1DR" >>, ShiftDR |-> << "ShiftDR", "Exit1DR" >>,
    Exit1DR |-> << "PauseDR", "UpdateDR" >>,  PauseDR |-> << "PauseDR", "Exit2DR" >>,
    Exit2DR |-> << "ShiftDR", "UpdateDR" >>,  UpdateDR |-> << "Idle", "SelectDR" >>,
    SelectIR |-> << "CaptureIR", "Reset" >>,
    CaptureIR |-> << "ShiftIR", "Exit1IR" >>, ShiftIR |-> << "ShiftIR", "Exit1IR" >>,
    Exit1IR |-> << "PauseIR", "UpdateIR" >>,  PauseIR |-> << "PauseIR", "Exit2IR" >>,
    Exit2IR |-> << "ShiftIR", "UpdateIR" >>,  UpdateIR |-> << "Idle", "SelectDR" >> ]

DrLength(ir) ==
    CASE \E c \in {JTAG_DPACC, JTAG_APACC, JTAG_ABORT} : ir = Ir(c, Len(ir)) -> 3 + W
      [] ir = Ir(JTAG_IDCODE, Len(ir)) -> W
      [] OTHER -> 1

(* The bits before those of device d                                       *)
Before(lengths, d) ==
    LET at[n \in 1..d] == IF n = 1 THEN 0 ELSE at[n - 1] + lengths[n - 1] IN at[d]

(* The part of the shift register that device d holds                      *)
Section(s, lengths, d) ==
    SubSeq(s, Before(lengths, d) + 1, Before(lengths, d) + lengths[d])

(* One clock: tms and tdi; captured is what device d has in its DR.        *)
Clock(c, clk, captured) ==
    LET shifts == c.tap \in {"ShiftDR", "ShiftIR"}
        sr2 == CASE c.tap = "CaptureDR" -> FlattenSeq([d \in Devices |-> captured[d]])
                 [] c.tap = "CaptureIR" -> FlattenSeq([d \in Devices |-> Rep(chain[d], 0)])
                 [] shifts -> Append(Tail(c.sr), clk[2])
                 [] OTHER -> c.sr
        next == TapNext[c.tap][clk[1] + 1]
    IN [tap |-> next, sr |-> sr2,
        out |-> IF shifts THEN Append(c.out, Head(c.sr)) ELSE c.out,
        irs |-> IF next = "UpdateIR" THEN [d \in Devices |-> Section(sr2, chain, d)]
                ELSE IF next = "Reset" THEN [d \in Devices |-> Rep(chain[d], 1)] ELSE c.irs,
        update |-> IF next # "UpdateDR" THEN c.update
                   ELSE [d \in Devices |->
                            Section(sr2, [i \in Devices |-> DrLength(c.irs[i])], d)]]

Run(c, clocks, captured) ==
    LET run[i \in 0..Len(clocks)] ==
            IF i = 0 THEN c ELSE Clock(run[i - 1], clocks[i], captured)
    IN run[Len(clocks)]

Now == [tap |-> tap, sr |-> sr, irs |-> irs, out |-> << >>, update |-> [d \in Devices |-> << >>]]

----------------------------------------------------------------------------
(* The scans *)

Exit(clocks, n) ==   \* the last bit and the n bits of the devices behind it
    IF n = 0 THEN Append(Front(clocks), << 1, Last(clocks)[2] >>)
    ELSE clocks \o Rep(n - 1, << 0, 1 >>) \o << << 1, 1 >> >>

Update == << << 1, 1 >>, << 0, 1 >> >>

Tdi(bits) == [i \in 1..Len(bits) |-> << 0, bits[i] >>]

(* Mutant: the devices before the selected one are not passed. *)
JTAG_IRNear(dev, code) ==
    LET n == dev.index + 1 IN
    << <<1, 1>>, <<1, 1>>, <<0, 1>>, <<0, 1>> >>
    \o Exit(Tdi(Ir(code, dev.ir_length[n])), dev.ir_after[n]) \o Update

JTAG_IR(dev, code) ==
    LET n == dev.index + 1 IN
    << <<1, 1>>, <<1, 1>>, <<0, 1>>, <<0, 1>> >> \o Rep(dev.ir_before[n], << 0, 1 >>)
    \o Exit(Tdi(Ir(code, dev.ir_length[n])), dev.ir_after[n]) \o Update

(* Mutant: one bit too many behind the device. *)
BehindOne(dev) == dev.count - dev.index

Behind(dev) == dev.count - dev.index - 1

DrHead(dev) == << <<1, 1>>, <<0, 1>>, <<0, 1>> >> \o Rep(dev.index, << 0, 1 >>)

(* Mutant: a transfer that is not taken leaves the TAP where it is. *)
TransferTailStays(dev, ok, data) ==
    IF ok THEN Exit(Tdi(data), Behind(dev)) \o Update ELSE << << 1, 1 >> >>

(* After the acknowledge: the data, or at once to Exit1 and Idle           *)
TransferTail(dev, ok, data) ==
    (IF ok THEN Exit(Tdi(data), Behind(dev)) ELSE << << 1, 1 >> >>) \o Update

----------------------------------------------------------------------------

AckOk == << 0, 1, 0 >>
AckWait == << 1, 0, 0 >>

Quiet == [call |-> "none", code |-> << >>, sent |-> << >>, held |-> << >>, ack |-> << >>,
          data |-> << >>, update |-> [d \in Devices |-> << >>]]

(* Mutant: the bits after a device count the device itself. *)
AfterItself(n, bits) == bits

(* ir_after: what is left of the chain without this device                 *)
After(n, bits) == bits - chain[n]

SumTo(n) == Before(chain, n + 1)

(* The debugger describes the chain that is there.                         *)
DAP_JTAG_Configure ==
    LET total == SumTo(Len(chain)) IN
    /\ jtag_dev' = [count |-> Len(chain), index |-> jtag_dev.index, ir_length |-> chain,
                    ir_before |-> [n \in Devices |-> SumTo(n - 1)],
                    ir_after |-> [n \in Devices |-> After(n, total - SumTo(n - 1))]]
    /\ selected' = << >> /\ last' = Quiet
    /\ UNCHANGED << chain, tap, irs, sr >>

At(index) == [jtag_dev EXCEPT !.index = index]

(* The instruction is scanned when the last transfer used another          *)
Selecting(dev, code) ==
    IF selected = << dev.index, code >> THEN << >> ELSE JTAG_IR(dev, code)

(* What the chain has in its data registers once the instruction is in     *)
Captured(c, dev, held) ==
    [d \in Devices |-> IF d = dev.index + 1 THEN held ELSE Rep(DrLength(c.irs[d]), 0)]

Became(c) == tap' = c.tap /\ irs' = c.irs /\ sr' = << >>

(* An index beyond the chain is kept, and nothing is sent.                 *)
Refused(index) ==
    /\ index >= jtag_dev.count
    /\ jtag_dev' = At(index)
    /\ last' = Quiet /\ selected' = << >>
    /\ UNCHANGED << chain, tap, irs, sr >>

(* One transfer of DAP_JTAG_Transfer: request bits RnW, A2, A3 against the *)
(* acknowledge that comes out, then the word in or out, or neither.        *)
JTAG_Transfer(index, code, request, data, ack, held) ==
    /\ tap = "Idle" /\ index < jtag_dev.count
    /\ LET dev == At(index)
           c1 == Run(Now, Selecting(dev, code), << >>)
           dr == Captured(c1, dev, ack \o held)
           c2 == Run([c1 EXCEPT !.out = << >>], DrHead(dev) \o Tdi(request), dr)
           got == SubSeq(c2.out, Len(c2.out) - 2, Len(c2.out))
           c3 == Run([c2 EXCEPT !.out = << >>], TransferTail(dev, got = AckOk, data), dr)
       IN /\ Became(c3) /\ jtag_dev' = dev
          /\ last' = [call |-> "transfer", code |-> code, sent |-> request \o data, held |-> held,
                      ack |-> got, update |-> c3.update,
                      data |-> IF got = AckOk THEN SubSeq(c3.out, 1, W) ELSE << >>]
    /\ selected' = << index, code >>
    /\ UNCHANGED chain

(* Mutant: the bits of the devices before are taken for the word. *)
WordFirst(out, before) == SubSeq(out, 1, W)

Word(out, before) == SubSeq(out, before + 1, before + W)

(* JTAG_ReadIDCode leaves Shift-DR with the last bit, whatever is behind   *)
DAP_JTAG_IDCode(index, held) ==
    /\ tap = "Idle" /\ index < jtag_dev.count
    /\ LET dev == At(index)
           c1 == Run(Now, JTAG_IR(dev, JTAG_IDCODE), << >>)
           c2 == Run([c1 EXCEPT !.out = << >>],
                     DrHead(dev) \o Exit(Rep(W, << 0, 1 >>), 0) \o Update, Captured(c1, dev, held))
       IN /\ Became(c2) /\ jtag_dev' = dev
          /\ last' = [Quiet EXCEPT !.call = "idcode", !.code = JTAG_IDCODE, !.held = held,
                                   !.data = Word(c2.out, index)]
    /\ selected' = << >>
    /\ UNCHANGED chain

DAP_JTAG_WriteAbort(index, data) ==
    /\ tap = "Idle" /\ index < jtag_dev.count
    /\ LET dev == At(index)
           c1 == Run(Now, JTAG_IR(dev, JTAG_ABORT), << >>)
           c2 == Run(c1, DrHead(dev) \o Tdi(Rep(3, 0)) \o Exit(Tdi(data), Behind(dev)) \o Update,
                     Captured(c1, dev, Rep(3 + W, 0)))
       IN /\ Became(c2) /\ jtag_dev' = dev
          /\ last' = [Quiet EXCEPT !.call = "abort", !.code = JTAG_ABORT, !.ack = AckOk,
                                   !.sent = Rep(3, 0) \o data, !.update = c2.update]
    /\ selected' = << >>
    /\ UNCHANGED chain

(* n clocks at one TMS level.  The registers of the chain are of interest  *)
(* in the scans above only: in between, the debugger moves the TAP.        *)
JTAG_Sequence(n, tms) ==
    /\ LET path[i \in 0..n] == IF i = 0 THEN tap ELSE TapNext[path[i - 1]][tms + 1]
       IN /\ \A i \in 1..n : path[i] \in {"Reset", "Idle", "SelectDR", "SelectIR"}
          /\ tap' = path[n]
          /\ irs' = IF \E i \in 1..n : path[i] = "Reset"
                    THEN [d \in Devices |-> Rep(chain[d], 1)] ELSE irs
    /\ last' = Quiet /\ selected' = << >>
    /\ UNCHANGED << chain, jtag_dev, sr >>

Init ==
    /\ chain \in Chains
    /\ jtag_dev = [count |-> 0, index |-> 0, ir_length |-> << >>, ir_before |-> << >>,
                   ir_after |-> << >>]
    /\ selected = << >> /\ tap = "Reset" /\ irs = [d \in Devices |-> Rep(chain[d], 1)]
    /\ sr = << >> /\ last = Quiet

Next ==
    \/ DAP_JTAG_Configure
    \/ \E index \in 0..Len(chain) :
        \/ Refused(index)
        \/ \E code \in {JTAG_DPACC, JTAG_APACC}, request \in Requests, data \in Words,
              ack \in {AckOk, AckWait}, held \in Words :
                JTAG_Transfer(index, code, request, data, ack, held)
        \/ \E held \in Words : DAP_JTAG_IDCode(index, held)
        \/ \E data \in Words : DAP_JTAG_WriteAbort(index, data)
    \/ \E n \in {1, 8}, tms \in 0..1 : JTAG_Sequence(n, tms)

Spec == Init /\ [][Next]_vars

----------------------------------------------------------------------------

(* Every variable has its type. *)
TypeOK ==
    /\ chain \in Chains /\ jtag_dev.count \in 0..Len(chain) /\ tap \in DOMAIN TapNext
    /\ jtag_dev.index \in 0..Len(chain)
    /\ \A d \in Devices : irs[d] \in Bits(chain[d])
    /\ \A n \in 1..jtag_dev.count :
        jtag_dev.ir_before[n] + jtag_dev.ir_length[n] + jtag_dev.ir_after[n] = SumTo(Len(chain))

Scanned == last.call \in {"transfer", "idcode", "abort"}

(* A scan addresses one device: it has the instruction, and every other    *)
(* device of the chain is in bypass.                                       *)
OneSelected ==
    Scanned => irs = [d \in Devices |-> IF d = jtag_dev.index + 1 THEN Ir(last.code, chain[d])
                                        ELSE Rep(chain[d], 1)]

(* Every command leaves the TAPs where it found them, in Run-Test/Idle.    *)
BackToIdle == Scanned => tap = "Idle"

(* The device takes exactly the request and the word that were sent, in    *)
(* its place in the chain.                                                 *)
Delivered ==
    last.call \in {"transfer", "abort"} /\ last.ack = AckOk =>
        last.update[jtag_dev.index + 1] = last.sent

(* The word that is read is the one this device held, not a neighbour's.   *)
Returned ==
    last.call = "idcode" \/ (last.call = "transfer" /\ last.ack = AckOk) => last.data = last.held

(* A command reaches the device it names, that one only, and all of it.    *)
ScanExact == OneSelected /\ BackToIdle /\ Delivered /\ Returned

=============================================================================
