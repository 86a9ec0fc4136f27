---------------------------- MODULE ResponsePipe ----------------------------
(***************************************************************************)
(* What a client of the USBIP device relies on: the commands it sent on    *)
(* this connection are answered one by one, each once, in the order it     *)
(* sent them; an unlink discards the oldest answer it has not read; what   *)
(* is unanswered when the connection closes is forgotten, and no later     *)
(* connection sees it.                                                     *)
(***************************************************************************)
EXTENDS Naturals, Sequences

CONSTANT Window     \* commands a client has unanswered at most

VARIABLES
    sess,           \* number of the connection
    sent,           \* commands sent on it
    pending,        \* those not answered, oldest first
    lastReply       \* the last command answered

pipeVars == <<sess, sent, pending, lastReply>>

Init ==
    /\ sess = 0 /\ sent = 0
    /\ pending = << >>
    /\ lastReply = [s |-> 0, n |-> 0]

Connect ==
    /\ pending = << >>
    /\ sess' = sess + 1
    /\ sent' = 0
    /\ UNCHANGED <<pending, lastReply>>

Submit ==
    /\ Len(pending) < Window
    /\ sent' = sent + 1
    /\ pending' = Append(pending, [s |-> sess, n |-> sent + 1])
    /\ UNCHANGED <<sess, lastReply>>

Answer ==
    /\ pending # << >>
    /\ lastReply' = Head(pending)
    /\ pending' = Tail(pending)
    /\ UNCHANGED <<sess, sent>>

Discard ==
    /\ pending # << >>
    /\ pending' = Tail(pending)
    /\ UNCHANGED <<sess, sent, lastReply>>

Disconnect ==
    /\ pending' = << >>
    /\ UNCHANGED <<sess, sent, lastReply>>

Next == Connect \/ Submit \/ Answer \/ Discard \/ Disconnect

Spec == Init /\ [][Next]_pipeVars

=============================================================================
