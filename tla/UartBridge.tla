------------------------------ MODULE UartBridge ------------------------------
(***************************************************************************)
(* The TCP bridge of the UART (main/uart_bridge.c): lwIP's callback queues *)
(* an event for every arrival, and the bridge task takes them one by one:  *)
(* it accepts one client at a time, carries its data to the UART and, at   *)
(* each event and each timeout, the bytes of the UART to it.  An event     *)
(* names a netconn; netconns live in slots of a pool, and the slot of a    *)
(* deleted one is given to the next client.                                *)
(***************************************************************************)
EXTENDS Integers, Sequences, FiniteSets

CONSTANTS
    Slots,
    EVENTS_QUEUE_SIZE,
    MaxClients, MaxChunks, MaxUart,   \* clients, chunks of each, bytes of the UART
    Rude         \* clients send before they are accepted and reset, WiFi is lost

BridgeAssumption ==
    /\ IsFiniteSet(Slots) /\ EVENTS_QUEUE_SIZE \in Nat \ {0} /\ Rude \in BOOLEAN
    /\ {MaxClients, MaxChunks, MaxUart} \subseteq Nat
    /\ \A s \in Slots: s # 0 /\ s # "listen" /\ s # "wifi"

VARIABLES
    uart_server_events,
    state, pending_err, inbox, client,   \* of each slot; client: whose it is, or was
    backlog,                             \* of the listening netconn
    uart_netconn, is_conn_valid, is_first_time_recv,
    uart, baud,                          \* what reached the UART, and what set its baud rate
    uartIn, toClient,                    \* bytes the UART holds; the last bytes sent, and to whom
    clients, sent

pool == << state, pending_err, inbox, client >>
bridge == << uart_netconn, is_conn_valid, is_first_time_recv >>
vars == << uart_server_events, pool, backlog, bridge, uart, baud, uartIn, toClient, clients, sent >>

None == 0
Fin == << >>
Clients == 1..MaxClients

Init ==
    /\ uart_server_events = << >>
    /\ state = [ s \in Slots |-> "free" ] /\ pending_err = [ s \in Slots |-> "ok" ]
    /\ inbox = [ s \in Slots |-> << >> ] /\ client = [ s \in Slots |-> None ]
    /\ backlog = << >>
    /\ uart_netconn = None /\ is_conn_valid = FALSE /\ is_first_time_recv = FALSE
    /\ uart = << >> /\ baud = << >> /\ uartIn = 0 /\ toClient = None
    /\ clients = 0 /\ sent = [ c \in Clients |-> 0 ]

----------------------------------------------------------------------------
(* lwIP and the clients                                                    *)

(* Mutant: the callback waits until there is room.                         *)
SendAnyway(event) == uart_server_events' = Append(uart_server_events, event)

(* An event is waited for with a full queue for a second, then dropped.    *)
xQueueSend(event) ==
    uart_server_events' = IF Len(uart_server_events) < EVENTS_QUEUE_SIZE
                          THEN Append(uart_server_events, event) ELSE uart_server_events

(* A netconn with an error does not tell of arrivals.                      *)
netCallback(s) ==
    IF pending_err[s] # "ok" THEN UNCHANGED uart_server_events ELSE xQueueSend(s)

Connect(s) ==
    /\ clients < MaxClients /\ state[s] = "free"
    /\ clients' = clients + 1
    /\ state' = [ state EXCEPT ![s] = "backlog" ] /\ pending_err' = [ pending_err EXCEPT ![s] = "ok" ]
    /\ inbox' = [ inbox EXCEPT ![s] = << >> ] /\ client' = [ client EXCEPT ![s] = clients' ]
    /\ backlog' = Append(backlog, s) /\ xQueueSend("listen")
    /\ UNCHANGED << bridge, uart, baud, uartIn, toClient, sent >>

(* A chunk may look like a baud rate; the end of the stream is an item too *)
Arrive(s, item) ==
    /\ state[s] = "open" \/ (Rude /\ state[s] = "backlog")
    /\ pending_err[s] = "ok"
    /\ \A i \in 1..Len(inbox[s]): inbox[s][i] # Fin
    /\ inbox' = [ inbox EXCEPT ![s] = Append(@, item) ]
    /\ netCallback(s)
    /\ UNCHANGED << state, pending_err, client, backlog, bridge, uart, baud, uartIn, toClient,
                    clients >>

Send(s, looksLikeBaud) ==
    /\ state[s] # "free" /\ sent[client[s]] < MaxChunks
    /\ sent' = [ sent EXCEPT ![client[s]] = @ + 1 ]
    /\ Arrive(s, << client[s], sent'[client[s]], looksLikeBaud >>)
Finish(s) == Arrive(s, Fin) /\ UNCHANGED sent

(* The error is set before the callback is called, which then ignores it.  *)
Reset(s) ==
    /\ Rude /\ state[s] \in { "open", "backlog" } /\ pending_err[s] = "ok"
    /\ pending_err' = [ pending_err EXCEPT ![s] = "RST" ]
    /\ UNCHANGED << uart_server_events, state, inbox, client, backlog, bridge, uart, baud, uartIn,
                    toClient, clients, sent >>

uart_bridge_close ==
    /\ Rude /\ xQueueSend("wifi")
    /\ UNCHANGED << pool, backlog, bridge, uart, baud, uartIn, toClient, clients, sent >>

UartReceives ==
    /\ uartIn < MaxUart /\ uartIn' = uartIn + 1
    /\ UNCHANGED << uart_server_events, pool, backlog, bridge, uart, baud, toClient, clients, sent >>

----------------------------------------------------------------------------
(* The bridge task                                                         *)

(* What the UART holds is taken and written to s, whether it is anybody's  *)
(* or not; only what is open or about to be accepted gets it.              *)
WriteUartData(s) ==
    /\ uartIn' = 0
    /\ toClient' = IF uartIn > 0 /\ state[s] # "free" /\ pending_err[s] = "ok"
                   THEN client[s] ELSE toClient

close_tcp_netconn(s) ==
    /\ pending_err' = [ pending_err EXCEPT ![s] = "CLSD" ]
    /\ state' = [ state EXCEPT ![s] = "free" ] /\ UNCHANGED client

uart_bridge_reset == uart_netconn' = None /\ is_conn_valid' = FALSE /\ UNCHANGED is_first_time_recv

(* Mutant: a client is served once it has spoken.                          *)
TimeoutSpoken ==
    /\ uart_server_events = << >> /\ is_conn_valid /\ uartIn > 0 /\ ~is_first_time_recv
    /\ WriteUartData(uart_netconn)
    /\ UNCHANGED << uart_server_events, pool, backlog, bridge, uart, baud, clients, sent >>

Timeout ==
    /\ uart_server_events = << >> /\ is_conn_valid /\ uartIn > 0
    /\ WriteUartData(uart_netconn)
    /\ UNCHANGED << uart_server_events, pool, backlog, bridge, uart, baud, clients, sent >>

Take == uart_server_events # << >> /\ uart_server_events' = Tail(uart_server_events)

WifiDisconnected ==
    /\ Take /\ Head(uart_server_events) = "wifi"
    /\ IF is_conn_valid THEN close_tcp_netconn(uart_netconn) /\ uart_bridge_reset
       ELSE UNCHANGED << state, pending_err, client, bridge >>
    /\ UNCHANGED << inbox, backlog, uart, baud, uartIn, toClient, clients, sent >>

(* Mutant: a newcomer takes the bridge over.                               *)
AcceptNewest ==
    /\ Take /\ Head(uart_server_events) = "listen" /\ backlog # << >>
    /\ backlog' = Tail(backlog)
    /\ LET s == Head(backlog)
       IN /\ state' = IF state[s] = "backlog" THEN [ state EXCEPT ![s] = "open" ] ELSE state
          /\ uart_netconn' = s /\ is_conn_valid' = TRUE /\ is_first_time_recv' = TRUE
    /\ UNCHANGED << pending_err, inbox, client, uart, baud, uartIn, toClient, clients, sent >>

(* The first that waits is accepted, or, while there is a client, closed.  *)
Accept ==
    /\ Take /\ Head(uart_server_events) = "listen" /\ backlog # << >>
    /\ backlog' = Tail(backlog)
    /\ LET s == Head(backlog)
       IN IF is_conn_valid
          THEN close_tcp_netconn(s) /\ UNCHANGED bridge
          ELSE /\ state' = IF state[s] = "backlog" THEN [ state EXCEPT ![s] = "open" ] ELSE state
               /\ uart_netconn' = s /\ is_conn_valid' = TRUE /\ is_first_time_recv' = TRUE
               /\ UNCHANGED << pending_err, client >>
    /\ UNCHANGED << inbox, uart, baud, uartIn, toClient, clients, sent >>

(* Mutant: every chunk may set the baud rate.                              *)
ToUartAlways(chunk) ==
    /\ is_first_time_recv' = is_first_time_recv
    /\ IF chunk[3] THEN baud' = Append(baud, chunk) /\ UNCHANGED uart
                   ELSE uart' = Append(uart, chunk) /\ UNCHANGED baud

(* Mutant: a chunk that sets the baud rate is written too.                 *)
ToUartToo(chunk) ==
    /\ is_first_time_recv' = FALSE
    /\ baud' = IF is_first_time_recv /\ chunk[3] THEN Append(baud, chunk) ELSE baud
    /\ uart' = Append(uart, chunk)

(* The first chunk of a client sets the baud rate if it looks like one.    *)
ToUart(chunk) ==
    /\ is_first_time_recv' = FALSE
    /\ IF is_first_time_recv /\ chunk[3] THEN baud' = Append(baud, chunk) /\ UNCHANGED uart
                                         ELSE uart' = Append(uart, chunk) /\ UNCHANGED baud

(* Any other event is about data (the memory of a deleted netconn keeps    *)
(* its state until the slot is used again): its netconn becomes the        *)
(* one to write to, and is read.  It is closed if nothing can be read,     *)
(* unless the bridge closed it before.                                     *)
Data ==
    /\ Take /\ Head(uart_server_events) \in Slots
    /\ LET s == Head(uart_server_events)
       IN
       /\ WriteUartData(s)
       /\ IF state[s] # "free" /\ inbox[s] # << >> /\ Head(inbox[s]) # Fin
          THEN /\ inbox' = [ inbox EXCEPT ![s] = Tail(@) ]
               /\ uart_netconn' = s /\ ToUart(Head(inbox[s]))
               /\ UNCHANGED << state, pending_err, client, is_conn_valid >>
          ELSE /\ UNCHANGED << inbox, uart, baud, is_first_time_recv >>
               /\ IF pending_err[s] = "CLSD"
                  THEN uart_netconn' = s /\ UNCHANGED << state, pending_err, client, is_conn_valid >>
                  ELSE close_tcp_netconn(s) /\ uart_netconn' = None /\ is_conn_valid' = FALSE
    /\ UNCHANGED << backlog, clients, sent >>

----------------------------------------------------------------------------

Lwip == (\E s \in Slots: Connect(s) \/ Finish(s) \/ Reset(s) \/ \E b \in BOOLEAN: Send(s, b))
            \/ uart_bridge_close
uart_bridge_task == Timeout \/ WifiDisconnected \/ Accept \/ Data

Next == Lwip \/ UartReceives \/ uart_bridge_task

(* The task runs at the lowest priority but is not starved for good.       *)
Spec == Init /\ [][Next]_vars /\ WF_vars(uart_bridge_task)

----------------------------------------------------------------------------

(* The state of the bridge.                                                *)
TypeOK ==
    /\ Len(uart_server_events) <= EVENTS_QUEUE_SIZE
    /\ state \in [ Slots -> { "free", "backlog", "open" } ]
    /\ pending_err \in [ Slots -> { "ok", "CLSD", "RST" } ]
    /\ client \in [ Slots -> Clients \cup { None } ]
    /\ uart_netconn \in Slots \cup { None } /\ uartIn \in 0..MaxUart
    /\ toClient \in Clients \cup { None }

(* The bridge has one client, the one it is valid for, and none when it is *)
(* not valid: events of netconns that were closed do not change it.        *)
OneClient == \A s \in Slots: state[s] = "open" <=> (is_conn_valid /\ uart_netconn = s)

(* A chunk reaches the UART or its baud rate, not both, and those of a     *)
(* client do in the order they were sent: whatever becomes of events and   *)
(* slots, none is read twice.                                              *)
OnceInOrder ==
    /\ \A q \in { uart, baud }: \A i, j \in 1..Len(q):
            i < j /\ q[i][1] = q[j][1] => q[i][2] < q[j][2]
    /\ \A i \in 1..Len(uart), j \in 1..Len(baud): uart[i] # baud[j]

(* Only the first chunk of a client sets the baud rate, and every first    *)
(* chunk that looks like one does.                                         *)
BaudFirst ==
    /\ \A i \in 1..Len(baud): baud[i][2] = 1
    /\ \A i \in 1..Len(uart): ~(uart[i][2] = 1 /\ uart[i][3])

(* The state of the bridge follows its client, and so does the baud rate.  *)
EventsFollow == OneClient /\ BaudFirst

(* What the UART holds, early bytes and late ones, goes to the client of   *)
(* the bridge until it holds none, for as long as the client stays; to be  *)
(* asked of clients that are not Rude, whose events are never stale.       *)
UartIsSent ==
    \A c \in Clients:
        (uartIn > 0 /\ is_conn_valid /\ uart_netconn # None /\ client[uart_netconn] = c)
            ~> ((uartIn = 0 /\ toClient = c) \/ ~is_conn_valid)

=============================================================================
