------------------------------- MODULE MCKcp -------------------------------
(* The two ends of Kcp on small instances.  Either both send, the host     *)
(* more than the window of the probe holds and a message of two fragments  *)
(* among it, and datagrams change their order; or the host sends, and they *)
(* are lost and duplicated, too; or its second message is longer than the  *)
(* buffer of the probe.                                                    *)
EXTENDS Integers, Sequences

CONSTANTS
    probe, host,
    mtu, IKCP_OVERHEAD, IKCP_WND_RCV, snd_wnd, rcv_wnd, MTU_SIZE, Word, FirstSn, MaxCopies,
    MaxFaults

VARIABLES part, kcp, network, faults, sent, got

vars == << part, kcp, network, faults, sent, got >>

Nodes == { probe, host }
BothWays == [n \in Nodes |-> IF n = host THEN << 3, 1 >> ELSE << 2 >>]
OneWay == [n \in Nodes |-> IF n = host THEN << 3, 1 >> ELSE << >>]
TooLong == [n \in Nodes |-> IF n = host THEN << 1, 4, 1 >> ELSE << >>]

Reordered == INSTANCE Kcp WITH Lengths <- BothWays, MaxFaults <- 0
Faulty == INSTANCE Kcp WITH Lengths <- OneWay
Blocked == INSTANCE Kcp WITH Lengths <- TooLong, MaxFaults <- 0

Init == part \in { "reordered", "faulty", "blocked" } /\ Faulty!Init

Next ==
    \/ part = "reordered" /\ Reordered!Next /\ UNCHANGED part
    \/ part = "faulty" /\ Faulty!Next /\ UNCHANGED part
    \/ part = "blocked" /\ Blocked!Next /\ UNCHANGED part

(* The fairness of Kcp does not depend on what is sent or lost.            *)
Spec == Init /\ [][Next]_vars /\ Faulty!Fairness

----------------------------------------------------------------------------

(* A segment that is let go of has been received: the other end has given  *)
(* it to the program or keeps it, in buffers and windows of their sizes.   *)
NothingLost == Faulty!TypeOK /\ Faulty!NothingLost

(* What can arrive; in the other parts every message fits the buffer.      *)
Receivable == IF part = "blocked" THEN [n \in Nodes |-> Blocked!UpToTooLong(sent[n])] ELSE sent
Pipe == INSTANCE MessagePipe WITH
    sent <- Receivable, Payload <- { Faulty!Bytes(k, l): k \in 1..4, l \in 1..9 }

(* KCP keeps the promise of MessagePipe: messages arrive whole, once and   *)
(* in order, and in the end all of them up to the first that is longer     *)
(* than the buffer they are received into (kcp_server.c gives up with it,  *)
(* and nothing behind it is ever received).                                *)
ImplementsPipe == Pipe!Spec

=============================================================================
