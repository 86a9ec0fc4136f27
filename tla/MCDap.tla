-------------------------------- MODULE MCDap --------------------------------
(***************************************************************************)
(* The commands of the debugger and the pins on small instances: packets   *)
(* of commands (DapCommand), a list of transfers (DapTransfer), a block    *)
(* (TransferBlock), SWD clock by clock (SwdWire), the commands that set up *)
(* pins and clock (SwjMode), JTAG scans (JtagScan).                        *)
(*                                                                         *)
(* The modules share no variable here: each behaviour is one of a single   *)
(* part of the program, the others staying as they began, so that the      *)
(* states of the parts add up and do not multiply.                         *)
(***************************************************************************)
EXTENDS Integers, Sequences

CONSTANTS
    Packets,                               \* of DapCommand
    Requests, MaxRequests,                 \* of DapTransfer
    RetryCount, MatchRetry,
    MaxCount, BlockRetries,                \* of TransferBlock
    Ports,
    Idles, Turnarounds, Counts,            \* of SwdWire
    Clocks,                                \* of SwjMode
    Chips,
    ScanChains, W, Words, ScanRequests     \* of JtagScan

VARIABLES
    part,    \* the part of the probe that this behaviour is about
    \* DapCommand
    listPort, count, route, packet, left, taken, num, answers,
    \* DapTransfer
    list, debug_port, phase, done, request, response, response_count,
    response_value, mismatch, request_count, retry, match_retry, post_read,
    check_write, data, timestamp, match_mask, ir, posted, log, unchecked,
    \* TransferBlock
    blockPort, blockRnw, blockAp, words, blockPhase, blockLeft, blockIr,
    blockRetry, wordsRead, blockCount, blockValue, accesses, blockPosted,
    blockUnchecked,
    \* SwdWire
    wireChip, engine, turnaround, data_phase, idle_cycles, target_turnaround,
    orundetect, in_step, lastCall,
    \* SwjMode
    chip, connected, SWD_TransferSpeed, fast_clock, clock_delay, pins, nRESET,
    clock, clocked, lastCommand,
    \* JtagScan
    chain, jtag_dev, selected, tap, irs, sr, lastScan

commands ==
    << listPort, count, route, packet, left, taken, num, answers >>
transfer ==
    << list, debug_port, phase, done, request, response, response_count,
       response_value, mismatch, request_count, retry, match_retry, post_read,
       check_write, data, timestamp, match_mask, ir, posted, log, unchecked >>
block ==
    << blockPort, blockRnw, blockAp, words, blockPhase, blockLeft, blockIr,
       blockRetry, wordsRead, blockCount, blockValue, accesses, blockPosted,
       blockUnchecked >>
wire ==
    << wireChip, engine, turnaround, data_phase, idle_cycles,
       target_turnaround, orundetect, in_step, lastCall >>
mode ==
    << chip, connected, SWD_TransferSpeed, fast_clock, clock_delay, pins,
       nRESET, clock, clocked, lastCommand >>
scan ==
    << chain, jtag_dev, selected, tap, irs, sr, lastScan >>
vars == << part, commands, transfer, block, wire, mode, scan >>

(* The commands a debugger sends in the runs, with the bytes it writes for *)
(* each.                                                                   *)

Cmd(id, bytes) == [ id |-> id, bytes |-> bytes ]
Sequences(id, seqs, bytes, captured) ==
    [ id |-> id, seqs |-> seqs, bytes |-> bytes, captured |-> captured ]
Seq1(clocks, capture) == [ clocks |-> clocks, capture |-> capture ]
Transfer(id, reads, writes, device, bytes) ==
    [ id |-> id, reads |-> reads, writes |-> writes, device |-> device, bytes |-> bytes ]
Info(what) == [ id |-> "Info", info |-> what, bytes |-> 2 ]
Connect(to) == [ id |-> "Connect", port |-> to, bytes |-> 2 ]
Vendor8(type, inner, bytes) ==
    [ id |-> "Vendor8", type |-> type, inner |-> inner, bytes |-> bytes ]

(* Those that depend on what came before, or whose length varies           *)
Interesting ==
    { Connect("SWD"), Connect("JTAG"), Cmd("Disconnect", 1),
      [ id |-> "JTAG_Configure", count |-> 1, bytes |-> 3 ],
      [ id |-> "JTAG_IDCODE", device |-> 0, bytes |-> 2 ],
      Transfer("Transfer", 1, 1, 0, 9), Transfer("TransferBlock", 0, 2, 0, 13),
      Transfer("TransferBlock", 2, 0, 0, 5),
      Sequences("SWD_Sequence", << Seq1(9, FALSE), Seq1(0, TRUE), Seq1(8, FALSE) >>, 8, 8),
      Sequences("JTAG_Sequence", << Seq1(0, TRUE), Seq1(1, FALSE) >>, 13, 8),
      Cmd("Unknown", 3), Vendor8("ENTER", 0, 4), Vendor8("PASSTHROUGH", 2, 7) }

Others ==
    { Info("PRODUCT"), Info("PACKET_COUNT"), Info("CAPABILITIES"), Info("UART_RX_BUFFER_SIZE"),
      Cmd("HostStatus", 3), Cmd("Delay", 3), Cmd("ResetTarget", 1), Cmd("SWJ_Pins", 7),
      Cmd("SWJ_Clock", 5), Cmd("SWD_Configure", 2), Cmd("TransferConfigure", 6),
      Cmd("WriteABORT", 6), Cmd("Vendor0", 1), Vendor8("OTHER", 0, 2),
      [ id |-> "SWJ_Sequence", clocks |-> 9, bytes |-> 4 ],
      [ id |-> "SWJ_Sequence", clocks |-> 256, bytes |-> 34 ] }

Commands == Interesting \cup Others

Lists == { << a, b >> : a, b \in Commands } \cup
         { << a, b, c >> : a, b, c \in Interesting }

AllPackets == [ list : { << c >> : c \in Commands }, atomic : { FALSE } ] \cup
              [ list : Lists, atomic : { TRUE } ]

(* The kinds of transfer request that DAP_Transfer tells apart, in the     *)
(* runs.                                                                   *)

Kind(rnw, ap, match, mask, ts) ==
    [rnw |-> rnw, ap |-> ap, match |-> match, mask |-> mask, ts |-> ts]

RequestKinds ==
    { Kind(TRUE, ap, match, FALSE, FALSE) : ap, match \in BOOLEAN } \cup
    { Kind(TRUE, ap, FALSE, FALSE, TRUE) : ap \in BOOLEAN } \cup
    { Kind(FALSE, TRUE, FALSE, FALSE, FALSE), Kind(FALSE, FALSE, FALSE, FALSE, TRUE),
      Kind(FALSE, FALSE, FALSE, TRUE, FALSE) }

(* JTAG, in the runs: a single device, and a device before, between and    *)
(* after others                                                            *)
SomeChains == {<< 4 >>, << 4, 5 >>, << 5, 4, 6 >>}
SomeWords == {<< 1, 0, 0 >>, << 1, 1, 0 >>}
SomeRequests == {<< 1, 0, 1 >>, << 0, 1, 0 >>}

----------------------------------------------------------------------------

C == INSTANCE DapCommand WITH
    debug_port <- listPort, request <- taken
T == INSTANCE DapTransfer
B == INSTANCE TransferBlock WITH
    RetryCount <- BlockRetries, rnw <- blockRnw, ap <- blockAp,
    debug_port <- blockPort, phase <- blockPhase, request_count <- blockLeft,
    ir <- blockIr, retry <- blockRetry, response <- wordsRead,
    response_count <- blockCount, response_value <- blockValue,
    posted <- blockPosted, unchecked <- blockUnchecked
Wire == INSTANCE SwdWire WITH
    chip <- wireChip, SWD_TransferSpeed <- engine, last <- lastCall
Mode == INSTANCE SwjMode WITH
    last <- lastCommand, debug_port <- connected
Jtag == INSTANCE JtagScan WITH
    Chains <- ScanChains, Requests <- ScanRequests, last <- lastScan

ASSUME PartsAssumption ==
    /\ C!CommandAssumption /\ T!TransferAssumption /\ B!BlockAssumption
    /\ Wire!WireAssumption /\ Mode!ModeAssumption /\ Jtag!ScanAssumption

(* What is not the part begins in one of its initial states.               *)
Init ==
    /\ part \in { "commands", "transfer", "block", "wire", "mode", "scan" }
    /\ C!Init
    /\ T!Init /\ (part # "transfer" => list = << >> /\ debug_port = "SWD")
    /\ B!Init /\ (part # "block" => words = 0 /\ blockPort = "SWD" /\ blockRnw /\ blockAp)
    /\ Wire!Init /\ (part # "wire" => wireChip = "ESP8266")
    /\ Mode!Init /\ (part # "mode" => chip = "ESP8266")
    /\ Jtag!Init /\ (part # "scan" => chain = CHOOSE c \in ScanChains : TRUE)

Next ==
    \/ part = "commands" /\ C!Next
       /\ UNCHANGED << part, transfer, block, wire, mode, scan >>
    \/ part = "transfer" /\ T!Next
       /\ UNCHANGED << part, commands, block, wire, mode, scan >>
    \/ part = "block" /\ B!Next
       /\ UNCHANGED << part, commands, transfer, wire, mode, scan >>
    \/ part = "wire" /\ Wire!Next
       /\ UNCHANGED << part, commands, transfer, block, mode, scan >>
    \/ part = "mode" /\ Mode!Next
       /\ UNCHANGED << part, commands, transfer, block, wire, scan >>
    \/ part = "scan" /\ Jtag!Next
       /\ UNCHANGED << part, commands, transfer, block, wire, mode >>

Spec == Init /\ [][Next]_vars

----------------------------------------------------------------------------

(* Every variable has its type.                                            *)
TypeOK ==
    CASE part = "commands" -> C!TypeOK
      [] part = "transfer" -> T!TypeOK
      [] part = "block" -> B!TypeOK
      [] part = "wire" -> Wire!TypeOK
      [] part = "mode" -> Mode!TypeOK
      [] part = "scan" -> Jtag!TypeOK

(* A debugger that puts several commands into a packet, and takes the      *)
(* answers apart again, is in step with DAP_ExecuteCommand, until a        *)
(* command of unknown length or a list of transfers that fails.            *)
ListInStep == part = "commands" => C!ListInStep

(* What DAP_Transfer answers is what happened: each value is that of its   *)
(* own request, and the count is of what the target took.                  *)
TransferTrue == part = "transfer" => T!TransferTrue

(* What DAP_TransferBlock answers is what happened, and the register was   *)
(* not accessed once too often.                                            *)
BlockTrue == part = "block" => B!BlockTrue

(* "return: number of bytes in request (upper 16 bits)" (DAP.c:732): where *)
(* the next command of the packet is looked for.                           *)
RequestLength == T!RequestLength

(* Probe and target keep in step and out of each other's way, clock by     *)
(* clock, whatever failed before and whatever the settings that agree; but *)
(* for the pins of the ESP32-S3, which cannot be released, and for the     *)
(* lengths of captures and of sequences of 256 bits by SPI that SwdWire    *)
(* names.                                                                  *)
WireSound == Wire!WireSound

(* The engine in use has the pins, a delayed clock (not fast_clock) is no  *)
(* faster than the debugger asked for, and no session leaves the target in *)
(* reset.                                                                  *)
SessionSound == part = "mode" => Mode!SessionSound

(* JTAG scans address the device that was asked for, deliver and return    *)
(* its bits, and leave the chain where the next scan expects it.           *)
ScanExact == part = "scan" => Jtag!ScanExact

=============================================================================
