------------------------------ MODULE Netconn ------------------------------
(***************************************************************************)
(* The USBIP server on the netconn interface (main/tcp_netconn.c), instead *)
(* of tcp_server.c when USE_TCP_NETCONN is 1.  lwIP's callback queues an   *)
(* event for every arrival; the task takes the events one by one, reads    *)
(* the netconn of each and answers on it.  A lister asks for the devices   *)
(* and leaves, an attacher imports the device and sends URBs.              *)
(***************************************************************************)
EXTENDS Integers, Sequences, FiniteSets, SequencesExt

CONSTANTS
    Listers, Attachers,
    EVENTS_QUEUE_SIZE,
    RecvMbox,    \* items that lwIP keeps for a netconn
    MaxUrbs,     \* of an attacher: a bound
    Alone,       \* a client connects when those before it have left
    Resets       \* clients may reset their connection

Clients == Listers \union Attachers

NetconnAssumption ==
    /\ IsFiniteSet(Clients) /\ "listen" \notin Clients
    /\ {EVENTS_QUEUE_SIZE, RecvMbox} \subseteq Nat \ {0} /\ Alone \in BOOLEAN /\ Resets \in BOOLEAN

VARIABLES
    xQueue_events,
    state, pending_err, inbox,  \* of the netconn of each client
    acceptmbox,                 \* of the listening netconn
    kState, kNetconn,
    restarts,                   \* of the DAP task
    sent, answers               \* to and from each client: sequences of requests

netconns == << state, pending_err, inbox, acceptmbox >>
server == << kState, kNetconn, restarts, answers >>
vars == << xQueue_events, netconns, server, sent >>

None == "none"
Listen == "listen"
Fin == "fin"

Init ==
    /\ xQueue_events = << >>
    /\ state = [c \in Clients |-> "none"] /\ pending_err = [c \in Clients |-> "ok"]
    /\ inbox = [c \in Clients |-> << >>] /\ acceptmbox = << >>
    /\ kState = "ACCEPTING" /\ kNetconn = None /\ restarts = 0
    /\ sent = [c \in Clients |-> << >>] /\ answers = [c \in Clients |-> << >>]

----------------------------------------------------------------------------
(* lwIP and the clients                                                    *)

(* lwIP waits for room in the queue for a while, then drops the event.     *)
xQueueSend(event) ==
    xQueue_events' = IF Len(xQueue_events) < EVENTS_QUEUE_SIZE THEN Append(xQueue_events, event) ELSE xQueue_events

(* "If netconn got error, it is close or deleted".                         *)
netCallback(c) == IF pending_err[c] = "ok" THEN xQueueSend(c) ELSE UNCHANGED xQueue_events

Left(c) == Last(<< None >> \o sent[c]) = Fin \/ pending_err[c] # "ok"

Connect(c) ==
    /\ state[c] = "none" /\ (Alone => \A d \in Clients: state[d] = "none" \/ Left(d))
    /\ state' = [state EXCEPT ![c] = "backlog"] /\ acceptmbox' = Append(acceptmbox, c) /\ xQueueSend(Listen)
    /\ UNCHANGED << pending_err, inbox, server, sent >>

(* What a client may send next: URBs go out without waiting for the last.  *)
Requests(c) ==
    LET first == IF c \in Listers THEN "DEVLIST" ELSE "IMPORT" IN
    IF sent[c] = << >> THEN {first}
    ELSE IF answers[c] = << >> THEN {}
    ELSE IF c \in Attachers /\ Len(sent[c]) <= MaxUrbs THEN {"URB", Fin} ELSE {Fin}

Send(c) ==
    /\ state[c] \in {"backlog", "open"} /\ ~Left(c) /\ Len(inbox[c]) < RecvMbox
    /\ \E request \in Requests(c):
        sent' = [sent EXCEPT ![c] = Append(@, request)] /\ inbox' = [inbox EXCEPT ![c] = Append(@, request)]
    /\ netCallback(c)
    /\ UNCHANGED << state, pending_err, acceptmbox, server >>

(* lwIP sets the error and then calls the callback.                        *)
Reset(c) ==
    /\ Resets /\ state[c] \in {"backlog", "open"} /\ pending_err[c] = "ok"
    /\ pending_err' = [pending_err EXCEPT ![c] = "RST"]
    /\ UNCHANGED << xQueue_events, state, inbox, acceptmbox, server, sent >>

----------------------------------------------------------------------------
(* The task                                                                *)

Take(event) == xQueue_events # << >> /\ event = Head(xQueue_events) /\ xQueue_events' = Tail(xQueue_events)

Accept ==
    /\ Take(Listen) /\ acceptmbox # << >>
    /\ acceptmbox' = Tail(acceptmbox) /\ state' = [state EXCEPT ![Head(acceptmbox)] = "open"]
    /\ UNCHANGED << pending_err, inbox, server, sent >>

(* Mutant: the answers go to the one who attached.                         *)
HandleFirst(c, request) ==
    LET attached == IF kState = "EMULATING" THEN {"URB"} ELSE {"DEVLIST", "IMPORT"}
        to == IF kNetconn = None THEN c ELSE kNetconn
    IN /\ kNetconn' = to /\ kState' = "EMULATING"
       /\ answers' = IF request \in attached THEN [answers EXCEPT ![to] = Append(@, request)] ELSE answers

(* attach, after which the device is emulated whatever was asked for; or   *)
(* emulate.  Neither answers what is not of its stage.                     *)
Handle(c, request) ==
    LET attached == IF kState = "EMULATING" THEN {"URB"} ELSE {"DEVLIST", "IMPORT"} IN
    /\ kNetconn' = c /\ kState' = "EMULATING"
    /\ answers' = IF request \in attached THEN [answers EXCEPT ![c] = Append(@, request)] ELSE answers

(* Mutant: all that is there is read for one event.                        *)
RecvAll(c) ==
    /\ Take(c) /\ pending_err[c] = "ok" /\ inbox[c] # << >> /\ Head(inbox[c]) # Fin
    /\ inbox' = [inbox EXCEPT ![c] = << >>] /\ Handle(c, Head(inbox[c]))
    /\ UNCHANGED << state, pending_err, acceptmbox, restarts, sent >>

Recv(c) ==
    /\ Take(c) /\ pending_err[c] = "ok" /\ inbox[c] # << >> /\ Head(inbox[c]) # Fin
    /\ inbox' = [inbox EXCEPT ![c] = Tail(@)] /\ Handle(c, Head(inbox[c]))
    /\ UNCHANGED << state, pending_err, acceptmbox, restarts, sent >>

(* Mutant: the state is left to the next client.                           *)
CloseKeepsState(c) ==
    /\ Take(c) /\ pending_err[c] # "CLSD" /\ (pending_err[c] = "RST" \/ inbox[c] = << >> \/ Head(inbox[c]) = Fin)
    /\ pending_err' = [pending_err EXCEPT ![c] = "CLSD"] /\ state' = [state EXCEPT ![c] = "closed"]
    /\ inbox' = [inbox EXCEPT ![c] = << >>] /\ restarts' = restarts + 1
    /\ UNCHANGED << acceptmbox, kState, kNetconn, answers, sent >>

(* Mutant: the state goes back one stage.                                  *)
CloseToAttaching(c) ==
    /\ Take(c) /\ pending_err[c] # "CLSD" /\ (pending_err[c] = "RST" \/ inbox[c] = << >> \/ Head(inbox[c]) = Fin)
    /\ pending_err' = [pending_err EXCEPT ![c] = "CLSD"] /\ state' = [state EXCEPT ![c] = "closed"]
    /\ inbox' = [inbox EXCEPT ![c] = << >>]
    /\ kState' = IF kState = "EMULATING" THEN "ATTACHING" ELSE kState
    /\ restarts' = restarts + 1
    /\ UNCHANGED << acceptmbox, kNetconn, answers, sent >>

(* Mutant: closed once is not remembered.                                  *)
CloseAgain(c) ==
    /\ Take(c) /\ (pending_err[c] # "ok" \/ inbox[c] = << >> \/ Head(inbox[c]) = Fin)
    /\ pending_err' = [pending_err EXCEPT ![c] = "CLSD"] /\ state' = [state EXCEPT ![c] = "closed"]
    /\ inbox' = [inbox EXCEPT ![c] = << >>]
    /\ kState' = IF kState = "EMULATING" THEN "ACCEPTING" ELSE kState
    /\ restarts' = restarts + 1
    /\ UNCHANGED << acceptmbox, kNetconn, answers, sent >>

(* Nothing to be read, or an error: close_tcp_netconn, and the DAP task is *)
(* restarted.                                                              *)
Close(c) ==
    /\ Take(c) /\ pending_err[c] # "CLSD" /\ (pending_err[c] = "RST" \/ inbox[c] = << >> \/ Head(inbox[c]) = Fin)
    /\ pending_err' = [pending_err EXCEPT ![c] = "CLSD"] /\ state' = [state EXCEPT ![c] = "closed"]
    /\ inbox' = [inbox EXCEPT ![c] = << >>]
    /\ kState' = IF kState = "EMULATING" THEN "ACCEPTING" ELSE kState
    /\ restarts' = restarts + 1
    /\ UNCHANGED << acceptmbox, kNetconn, answers, sent >>

(* An event from before the close.                                         *)
ClosedBefore(c) ==
    /\ Take(c) /\ pending_err[c] = "CLSD"
    /\ UNCHANGED << netconns, server, sent >>

----------------------------------------------------------------------------

Lwip == \E c \in Clients: Connect(c) \/ Send(c) \/ Reset(c)
tcp_netconn_task == Accept \/ \E c \in Clients: Recv(c) \/ Close(c) \/ ClosedBefore(c)

Next == Lwip \/ tcp_netconn_task

(* The task waits for nothing but events.                                  *)
Spec == Init /\ [][Next]_vars /\ WF_vars(tcp_netconn_task)

----------------------------------------------------------------------------

(* Every variable has its type; the queue holds no more than its places.   *)
TypeOK ==
    /\ xQueue_events \in Seq(Clients \union {Listen}) /\ Len(xQueue_events) <= EVENTS_QUEUE_SIZE
    /\ state \in [Clients -> {"none", "backlog", "open", "closed"}]
    /\ pending_err \in [Clients -> {"ok", "RST", "CLSD"}]
    /\ kState \in {"ACCEPTING", "EMULATING"} /\ kNetconn \in Clients \union {None}

(* A client gets answers only to what it asked, however the events of      *)
(* several clients follow each other.                                      *)
Count(s, request) == Cardinality({ i \in 1..Len(s): s[i] = request })
OwnAnswers ==
    \A c \in Clients, request \in {"DEVLIST", "IMPORT", "URB"}: Count(answers[c], request) <= Count(sent[c], request)

(* Every item has its event: no event is lost as long as the queue has     *)
(* room for what lwIP keeps, and none is left over, which would close a    *)
(* connection that has only nothing to say.                                *)
EventPerItem ==
    /\ \A c \in Clients: pending_err[c] = "ok" => Count(xQueue_events, c) = Len(inbox[c])
    /\ Count(xQueue_events, Listen) = Len(acceptmbox)

(* Clients that come one after the other each find the server as the first *)
(* did, even when the next connects before the end of the last is handled; *)
(* and whatever they ask is answered.                                      *)
AllAnswered == \A c \in Clients: Len(answers[c]) = Len(sent[c]) - Count(sent[c], Fin)
Answered == []<>AllAnswered

(* A client that leaves has the DAP task restarted, once.                  *)
RestartPerClient == restarts = Cardinality({c \in Clients: state[c] = "closed"})

(* The events of the queue, and what was done for them, follow what the    *)
(* clients did.                                                            *)
EventsFollow == OwnAnswers /\ EventPerItem /\ RestartPerClient

=============================================================================
