---------------------------- MODULE MessagePipe ----------------------------
(* What a transport over UDP promises: the messages an end sends reach the *)
(* other whole, once, in order, and in the end all of them.                *)
EXTENDS Naturals, Sequences

CONSTANTS
    Nodes,          \* the two ends
    Payload         \* messages

VARIABLES
    sent,           \* messages of each end
    got             \* messages each end has been given

pipeVars == << sent, got >>

Peer(n) == CHOOSE m \in Nodes: m # n

Init == sent = [n \in Nodes |-> << >>] /\ got = [n \in Nodes |-> << >>]

Send(n) == (\E m \in Payload: sent' = [sent EXCEPT ![n] = Append(@, m)]) /\ UNCHANGED got

Deliver(n) ==
    /\ Len(got[n]) < Len(sent[Peer(n)])
    /\ got' = [got EXCEPT ![n] = Append(@, sent[Peer(n)][Len(@) + 1])]
    /\ UNCHANGED sent

Next == \E n \in Nodes: Send(n) \/ Deliver(n)

Spec == Init /\ [][Next]_pipeVars /\ \A n \in Nodes: WF_pipeVars(Deliver(n))

=============================================================================
