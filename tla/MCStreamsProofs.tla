--------------------------- MODULE MCStreamsProofs ---------------------------
(***************************************************************************)
(* What becomes of bytes that come as they like, for any number of slots,  *)
(* clients and chunks, any sizes of the buffers and any number of bytes    *)
(* and errors: the bridge hands on each chunk once and in order, the trace *)
(* tells of every error and a transfer that no start interrupts lies in    *)
(* its buffer, the UART commands pass bytes on in order through rings with *)
(* wrapping indices, as long as no block ends between two reads of a       *)
(* command, and the frames of a WebSocket, cut anywhere, and the packets   *)
(* of elaphureLink, whose rest comes together, are found in a TCP stream.  *)
(***************************************************************************)
EXTENDS MCStreams, PrefixSums, SequenceTheorems, TLAPS

----------------------------------------------------------------------------
(* The bridge: the numbers of a client's chunks rise from what has been    *)
(* handed on, over what is in the inbox of its slot, to what it has sent.  *)

Chunk == Bridge!Clients \X Nat \X BOOLEAN
Item == Chunk \cup { Bridge!Fin }

BridgeTypes ==
    /\ clients \in 0..MaxClients
    /\ state \in [ Slots -> { "free", "backlog", "open" } ]
    /\ client \in [ Slots -> 0..clients ]
    /\ inbox \in [ Slots -> Seq(Item) ]
    /\ chunksSent \in [ Bridge!Clients -> Nat ]
    /\ uart \in Seq(Chunk) /\ baud \in Seq(Chunk)

(* A client has one slot, and a slot that is used has a client. *)
OwnSlots ==
    /\ \A s \in Slots : state[s] # "free" => client[s] # 0
    /\ \A s, t \in Slots : client[s] = client[t] /\ client[s] # 0 => s = t

Waiting(s) == { j \in 1..Len(inbox[s]) : inbox[s][j] # Bridge!Fin }

Inboxes ==
    \A s \in Slots : \A j \in Waiting(s) :
        /\ client[s] # 0 /\ inbox[s][j][1] = client[s] /\ inbox[s][j][2] <= chunksSent[client[s]]
        /\ \A k \in Waiting(s) : j < k => inbox[s][j][2] < inbox[s][k][2]

(* What has been handed on is behind what waits. *)
Behind(q) ==
    \A i \in 1..Len(q) :
        /\ q[i][1] <= clients /\ q[i][2] <= chunksSent[q[i][1]]
        /\ \A s \in Slots : client[s] = q[i][1] => \A j \in Waiting(s) : q[i][2] < inbox[s][j][2]

Rising(q) == \A i, j \in 1..Len(q) : i < j /\ q[i][1] = q[j][1] => q[i][2] < q[j][2]
Apart == \A i \in 1..Len(uart), j \in 1..Len(baud) : uart[i] # baud[j]

BridgeInv ==
    /\ BridgeTypes /\ OwnSlots /\ Inboxes
    /\ Behind(uart) /\ Behind(baud) /\ Rising(uart) /\ Rising(baud) /\ Apart

LEMMA Chunks3 ==
    ASSUME NEW x \in Chunk
    PROVE  x[1] \in Bridge!Clients /\ x[2] \in Nat /\ x # Bridge!Fin /\ x \in Item
BY DEF Chunk, Item, Bridge!Fin

LEMMA ClientsKnown ==
    ASSUME BridgeTypes, NEW s \in Slots, client[s] # 0
    PROVE  client[s] \in Bridge!Clients /\ chunksSent[client[s]] \in Nat
           /\ MaxClients \in Nat
BY PartsAssumption DEF BridgeTypes, Bridge!Clients, Bridge!BridgeAssumption, PartsAssumption

(* Only the state of a slot changes. *)
LEMMA SlotFreed ==
    ASSUME BridgeInv, state' \in [ Slots -> { "free", "backlog", "open" } ],
           \A s \in Slots : state'[s] # "free" => state[s] # "free",
           UNCHANGED << inbox, client, uart, baud, clients, chunksSent >>
    PROVE  BridgeInv'
<1>1. BridgeTypes' /\ OwnSlots'
  BY DEF BridgeInv, BridgeTypes, OwnSlots
<1>2. \A s \in Slots : Waiting(s)' = Waiting(s)
  BY DEF Waiting
<1>3. Inboxes' /\ Behind(uart)' /\ Behind(baud)' /\ Rising(uart)' /\ Rising(baud)' /\ Apart'
  BY <1>2 DEF BridgeInv, Inboxes, Behind, Rising, Apart
<1> QED
  BY <1>1, <1>3 DEF BridgeInv

LEMMA ConnectKeeps ==
    ASSUME BridgeInv, NEW s \in Slots, Bridge!Connect(s)
    PROVE  BridgeInv'
<1>1. /\ clients < MaxClients /\ state[s] = "free" /\ clients' = clients + 1
      /\ state' = [ state EXCEPT ![s] = "backlog" ]
      /\ inbox' = [ inbox EXCEPT ![s] = << >> ]
      /\ client' = [ client EXCEPT ![s] = clients + 1 ]
      /\ UNCHANGED << uart, baud, chunksSent >>
  BY DEF Bridge!Connect
<1>2. clients \in Nat /\ MaxClients \in Nat /\ clients + 1 \in Nat
  BY PartsAssumption DEF BridgeInv, BridgeTypes, Bridge!BridgeAssumption, PartsAssumption
<1>3. BridgeTypes'
  <2>1. << >> \in Seq(Item)
    BY EmptySeq, Zenon
  <2>2. clients' \in 0..MaxClients /\ client' \in [ Slots -> 0..clients' ]
    BY <1>1, <1>2 DEF BridgeInv, BridgeTypes
  <2>3. inbox' \in [ Slots -> Seq(Item) ]
    BY <1>1, <2>1 DEF BridgeInv, BridgeTypes
  <2> QED
    BY <1>1, <2>2, <2>3 DEF BridgeInv, BridgeTypes
<1>4. OwnSlots'
  BY <1>1, <1>2 DEF BridgeInv, BridgeTypes, OwnSlots
<1>5. Waiting(s)' = {} /\ \A t \in Slots \ {s} : Waiting(t)' = Waiting(t) /\ inbox'[t] = inbox[t]
                                                /\ client'[t] = client[t]
  <2>1. inbox'[s] = << >> /\ Len(<< >>) = 0
    BY <1>1 DEF BridgeInv, BridgeTypes
  <2>2. Waiting(s)' = {}
    BY <2>1 DEF Waiting
  <2>3. \A t \in Slots \ {s} : inbox'[t] = inbox[t] /\ client'[t] = client[t]
    BY <1>1 DEF BridgeInv, BridgeTypes
  <2> QED
    BY <2>2, <2>3 DEF Waiting
<1>6. Inboxes'
  BY <1>1, <1>5 DEF BridgeInv, Inboxes
<1>7. ASSUME NEW q \in Seq(Chunk), Behind(q)
      PROVE  Behind(q)'
  <2>1. ASSUME NEW i \in 1..Len(q)
        PROVE  q[i][1] \in Nat /\ q[i][1] <= clients'
    BY <1>1, <1>2, <1>7, Chunks3 DEF Behind, Bridge!Clients
  <2>2. ASSUME NEW i \in 1..Len(q), NEW t \in Slots, client'[t] = q[i][1], NEW j \in Waiting(t)'
        PROVE  q[i][2] < inbox'[t][j][2]
    BY <1>5, <1>7, <2>2 DEF Behind
  <2> QED
    BY <1>1, <1>7, <2>1, <2>2 DEF Behind
<1> QED
  BY <1>1, <1>3, <1>4, <1>6, <1>7 DEF BridgeInv, BridgeTypes, Rising, Apart

LEMMA Appended ==
    ASSUME NEW S, NEW q \in Seq(S), NEW x \in S
    PROVE  /\ Append(q, x) \in Seq(S) /\ Len(q) \in Nat /\ Len(Append(q, x)) = Len(q) + 1
           /\ Append(q, x)[Len(q) + 1] = x
           /\ \A j \in 1..Len(q) : Append(q, x)[j] = q[j]
OBVIOUS

(* What a slot is sent comes after what waits in it. *)
LEMMA SendKeeps ==
    ASSUME BridgeInv, NEW s \in Slots, NEW b \in BOOLEAN, Bridge!Send(s, b)
    PROVE  BridgeInv'
<1> DEFINE c == client[s]
           n == chunksSent[c] + 1
           x == << c, n, b >>
           old == Len(inbox[s])
<1>1. /\ state[s] # "free"
      /\ chunksSent' = [ chunksSent EXCEPT ![c] = @ + 1 ]
      /\ inbox' = [ inbox EXCEPT ![s] = Append(@, << c, chunksSent'[c], b >>) ]
      /\ UNCHANGED << state, client, uart, baud, clients >>
  BY DEF Bridge!Send, Bridge!Arrive
<1>2. c # 0 /\ c \in Bridge!Clients /\ chunksSent[c] \in Nat /\ c <= clients /\ clients \in Nat
  BY <1>1, ClientsKnown DEF BridgeInv, BridgeTypes, OwnSlots
<1>3. n \in Nat /\ chunksSent'[c] = n /\ x \in Chunk /\ x \in Item /\ x # Bridge!Fin
      /\ x[1] = c /\ x[2] = n
  <2>1. n \in Nat /\ x \in Chunk
    BY <1>2 DEF Chunk
  <2>2. chunksSent'[c] = n
    BY <1>1, <1>2 DEF BridgeInv, BridgeTypes
  <2> QED
    BY <2>1, <2>2, Chunks3
<1> HIDE DEF n, x, c
<1>4. inbox' = [ inbox EXCEPT ![s] = Append(@, x) ]
  BY <1>1, <1>3 DEF x
<1>5. inbox[s] \in Seq(Item)
  BY DEF BridgeInv, BridgeTypes
<1>6. /\ Append(inbox[s], x) \in Seq(Item) /\ old \in Nat /\ Len(Append(inbox[s], x)) = old + 1
      /\ Append(inbox[s], x)[old + 1] = x
      /\ \A j \in 1..old : Append(inbox[s], x)[j] = inbox[s][j]
  BY <1>3, <1>5, Appended
<1>7. /\ inbox'[s] = Append(inbox[s], x)
      /\ \A t \in Slots \ {s} : inbox'[t] = inbox[t]
  BY <1>4 DEF BridgeInv, BridgeTypes
<1>8. /\ Waiting(s)' = Waiting(s) \cup { old + 1 }
      /\ \A j \in Waiting(s) : j \in 1..old /\ inbox'[s][j] = inbox[s][j]
      /\ inbox'[s][old + 1] = x
      /\ \A t \in Slots \ {s} : Waiting(t)' = Waiting(t)
  BY <1>3, <1>6, <1>7 DEF Waiting
<1>9. /\ \A d \in Bridge!Clients : chunksSent'[d] \in Nat /\ chunksSent[d] \in Nat
                                   /\ chunksSent[d] <= chunksSent'[d]
      /\ chunksSent[c] < n /\ chunksSent'[c] = n
  BY <1>1, <1>2, <1>3 DEF BridgeInv, BridgeTypes, n
<1>10. BridgeTypes'
  <2>1. inbox' \in [ Slots -> Seq(Item) ]
    BY <1>4, <1>6 DEF BridgeInv, BridgeTypes
  <2>2. chunksSent' \in [ Bridge!Clients -> Nat ]
    BY <1>1, <1>2 DEF BridgeInv, BridgeTypes
  <2> QED
    BY <1>1, <2>1, <2>2 DEF BridgeInv, BridgeTypes
<1>11. OwnSlots'
  BY <1>1 DEF BridgeInv, OwnSlots
<1>12. \A t \in Slots : \A j \in Waiting(t) : inbox[t][j] \in Chunk
  BY DEF BridgeInv, BridgeTypes, Waiting, Item, Bridge!Fin
<1>13. Inboxes'
  <2>1. ASSUME NEW t \in Slots \ {s}, NEW j \in Waiting(t)'
        PROVE  /\ client[t] # 0 /\ inbox'[t][j][1] = client[t]
               /\ inbox'[t][j][2] <= chunksSent'[client[t]]
               /\ \A k \in Waiting(t)' : j < k => inbox'[t][j][2] < inbox'[t][k][2]
    <3>1. inbox[t][j][2] \in Nat /\ client[t] \in Bridge!Clients
      BY <1>7, <1>8, <1>12, Chunks3, ClientsKnown DEF BridgeInv, Inboxes
    <3> QED
      BY <1>7, <1>8, <1>9, <3>1 DEF BridgeInv, Inboxes
  <2>2. ASSUME NEW j \in Waiting(s)
        PROVE  inbox[s][j][2] \in Nat /\ inbox[s][j][1] = c /\ inbox[s][j][2] < n /\ inbox[s][j][2] <= n
    BY <1>2, <1>9, <1>12, Chunks3 DEF BridgeInv, Inboxes, c
  <2>3. ASSUME NEW j \in Waiting(s)'
        PROVE  /\ client[s] # 0 /\ inbox'[s][j][1] = client[s]
               /\ inbox'[s][j][2] <= chunksSent'[client[s]]
               /\ \A k \in Waiting(s)' : j < k => inbox'[s][j][2] < inbox'[s][k][2]
    <3>1. CASE j = old + 1
      <4>1. \A k \in Waiting(s)' : ~(j < k)
        BY <1>6, <1>8, <3>1
      <4> QED
        BY <1>2, <1>3, <1>8, <1>9, <3>1, <4>1 DEF c
    <3>2. CASE j \in Waiting(s)
      <4>1. \A k \in Waiting(s) : j < k => inbox[s][j][2] < inbox[s][k][2]
        BY <3>2 DEF BridgeInv, Inboxes
      <4>2. inbox'[s][j][2] < inbox'[s][old + 1][2]
        BY <1>3, <1>8, <2>2, <3>2
      <4> QED
        BY <1>2, <1>8, <1>9, <2>2, <3>2, <4>1, <4>2 DEF c
    <3> QED
      BY <1>8, <3>1, <3>2
  <2> QED
    BY <1>1, <2>1, <2>3 DEF Inboxes
<1>14. ASSUME NEW q \in Seq(Chunk), Behind(q)
       PROVE  Behind(q)'
  <2>1. ASSUME NEW i \in 1..Len(q)
        PROVE  /\ q[i][1] \in Bridge!Clients /\ q[i][2] \in Nat
               /\ q[i][2] <= chunksSent[q[i][1]] /\ q[i][2] <= chunksSent'[q[i][1]]
    BY <1>9, <1>14, Chunks3 DEF Behind
  <2>2. ASSUME NEW i \in 1..Len(q), NEW t \in Slots, client[t] = q[i][1], NEW j \in Waiting(t)'
        PROVE  q[i][2] < inbox'[t][j][2]
    <3>1. CASE t = s /\ j = old + 1
      BY <1>3, <1>8, <1>9, <2>1, <2>2, <3>1 DEF c
    <3>2. CASE j \in Waiting(t) /\ inbox'[t][j] = inbox[t][j]
      BY <1>14, <2>2, <3>2 DEF Behind
    <3> QED
      BY <1>7, <1>8, <2>2, <3>1, <3>2
  <2> QED
    BY <1>1, <1>14, <2>1, <2>2 DEF Behind
<1> QED
  BY <1>1, <1>10, <1>11, <1>13, <1>14 DEF BridgeInv, BridgeTypes, Rising, Apart

(* The end of a stream is no chunk. *)
LEMMA FinishKeeps ==
    ASSUME BridgeInv, NEW s \in Slots, Bridge!Finish(s)
    PROVE  BridgeInv'
<1> DEFINE x == Bridge!Fin
           old == Len(inbox[s])
<1>1. /\ inbox' = [ inbox EXCEPT ![s] = Append(@, x) ]
      /\ UNCHANGED << state, client, uart, baud, clients, chunksSent >>
  BY DEF Bridge!Finish, Bridge!Arrive
<1>2. x \in Item /\ inbox[s] \in Seq(Item)
  BY DEF Item, BridgeInv, BridgeTypes
<1>3. x = Bridge!Fin
  OBVIOUS
<1> HIDE DEF x
<1>4. /\ Append(inbox[s], x) \in Seq(Item) /\ old \in Nat /\ Len(Append(inbox[s], x)) = old + 1
      /\ Append(inbox[s], x)[old + 1] = x
      /\ \A j \in 1..old : Append(inbox[s], x)[j] = inbox[s][j]
  BY <1>2, Appended
<1>5. /\ inbox'[s] = Append(inbox[s], x)
      /\ \A t \in Slots \ {s} : inbox'[t] = inbox[t]
  BY <1>1 DEF BridgeInv, BridgeTypes
<1>6. \A t \in Slots : Waiting(t)' = Waiting(t) /\ \A j \in Waiting(t) : inbox'[t][j] = inbox[t][j]
  BY <1>3, <1>4, <1>5, SMTT(30) DEF Waiting
<1>7. inbox' \in [ Slots -> Seq(Item) ]
  BY <1>1, <1>4 DEF BridgeInv, BridgeTypes
<1>8. BridgeTypes' /\ OwnSlots' /\ Rising(uart)' /\ Rising(baud)' /\ Apart'
  BY <1>1, <1>7 DEF BridgeInv, BridgeTypes, OwnSlots, Rising, Apart
<1>9. Inboxes'
  <2>1. ASSUME NEW t \in Slots, NEW j \in Waiting(t)'
        PROVE  /\ client[t] # 0 /\ inbox'[t][j][1] = client[t]
               /\ inbox'[t][j][2] <= chunksSent[client[t]]
               /\ \A k \in Waiting(t)' : j < k => inbox'[t][j][2] < inbox'[t][k][2]
    BY <1>6 DEF BridgeInv, Inboxes
  <2> QED
    BY <1>1, <2>1 DEF Inboxes
<1>10. ASSUME NEW q \in Seq(Chunk), Behind(q)
       PROVE  Behind(q)'
  <2>1. ASSUME NEW i \in 1..Len(q), NEW t \in Slots, client[t] = q[i][1], NEW j \in Waiting(t)'
        PROVE  q[i][2] < inbox'[t][j][2]
    BY <1>6, <1>10, <2>1 DEF Behind
  <2> QED
    BY <1>1, <1>10, <2>1 DEF Behind
<1> QED
  BY <1>1, <1>8, <1>9, <1>10 DEF BridgeInv, BridgeTypes

(* A read takes the first of an inbox, which what was handed on is behind. *)
LEMMA DataKeeps ==
    ASSUME BridgeInv, Bridge!Data
    PROVE  BridgeInv'
<1>0. PICK s : s = Head(uart_server_events)
  OBVIOUS
<1>1. s \in Slots /\ UNCHANGED << clients, chunksSent >>
  BY <1>0 DEF Bridge!Data
<1>2. CASE state[s] # "free" /\ inbox[s] # << >> /\ Head(inbox[s]) # Bridge!Fin
  <2>0. PICK x : x = Head(inbox[s])
    OBVIOUS
  <2>1. /\ inbox' = [ inbox EXCEPT ![s] = Tail(@) ]
        /\ UNCHANGED << state, client >>
        /\ \/ baud' = Append(baud, x) /\ uart' = uart
           \/ uart' = Append(uart, x) /\ baud' = baud
    BY <1>0, <1>2, <2>0 DEF Bridge!Data, Bridge!ToUart
  <2>2. inbox[s] \in Seq(Item) /\ inbox[s] # << >>
    BY <1>1, <1>2 DEF BridgeInv, BridgeTypes
  <2>3. /\ Tail(inbox[s]) \in Seq(Item) /\ Len(inbox[s]) \in Nat \ {0}
        /\ Len(Tail(inbox[s])) = Len(inbox[s]) - 1
        /\ \A j \in 1..(Len(inbox[s]) - 1) : Tail(inbox[s])[j] = inbox[s][j + 1]
        /\ x = inbox[s][1] /\ x \in Item
    BY <2>0, <2>2
  <2>4. x \in Chunk /\ 1 \in Waiting(s)
    BY <1>2, <2>0, <2>3 DEF Item, Waiting
  <2>5. /\ inbox'[s] = Tail(inbox[s])
        /\ \A t \in Slots \ {s} : inbox'[t] = inbox[t]
    BY <1>1, <2>1 DEF BridgeInv, BridgeTypes
  <2>6. ASSUME NEW j \in Waiting(s)'
        PROVE  j \in Nat /\ j + 1 \in Waiting(s) /\ inbox'[s][j] = inbox[s][j + 1] /\ 1 < j + 1
    <3>1. j \in 1..Len(inbox'[s]) /\ inbox'[s][j] # Bridge!Fin
      BY DEF Waiting
    <3>2. j \in 1..(Len(inbox[s]) - 1) /\ inbox'[s][j] = inbox[s][j + 1]
      BY <2>3, <2>5, <3>1
    <3> QED
      BY <2>3, <3>1, <3>2 DEF Waiting
  <2>7. \A t \in Slots \ {s} : Waiting(t)' = Waiting(t)
    BY <2>5 DEF Waiting
  <2>8. /\ x[1] = client[s] /\ x[1] # 0 /\ x[2] <= chunksSent[x[1]]
        /\ \A j \in Waiting(s) : 1 < j => x[2] < inbox[s][j][2]
    BY <1>1, <2>3, <2>4 DEF BridgeInv, Inboxes
  <2>9. /\ x[1] \in Bridge!Clients /\ x[2] \in Nat /\ x[1] <= clients
    BY <1>1, <2>4, <2>8, Chunks3 DEF BridgeInv, BridgeTypes
  <2>10. inbox' \in [ Slots -> Seq(Item) ]
    BY <2>1, <2>3 DEF BridgeInv, BridgeTypes
  <2>11. OwnSlots'
    BY <2>1 DEF BridgeInv, OwnSlots
  <2>12. Inboxes'
    <3>1. ASSUME NEW t \in Slots \ {s}, NEW j \in Waiting(t)'
          PROVE  /\ client[t] # 0 /\ inbox'[t][j][1] = client[t]
                 /\ inbox'[t][j][2] <= chunksSent[client[t]]
                 /\ \A k \in Waiting(t)' : j < k => inbox'[t][j][2] < inbox'[t][k][2]
      BY <2>5, <2>7 DEF BridgeInv, Inboxes
    <3>2. ASSUME NEW j \in Waiting(s)'
          PROVE  /\ client[s] # 0 /\ inbox'[s][j][1] = client[s]
                 /\ inbox'[s][j][2] <= chunksSent[client[s]]
                 /\ \A k \in Waiting(s)' : j < k => inbox'[s][j][2] < inbox'[s][k][2]
      <4>1. /\ client[s] # 0 /\ inbox[s][j + 1][1] = client[s]
            /\ inbox[s][j + 1][2] <= chunksSent[client[s]]
            /\ \A k \in Waiting(s) : j + 1 < k => inbox[s][j + 1][2] < inbox[s][k][2]
        BY <1>1, <2>6 DEF BridgeInv, Inboxes
      <4>2. ASSUME NEW k \in Waiting(s)', j < k
            PROVE  inbox'[s][j][2] < inbox'[s][k][2]
        <5>1. j + 1 < k + 1 /\ k + 1 \in Waiting(s)
          BY <2>6, <4>2
        <5> QED
          BY <2>6, <4>1, <5>1
      <4> QED
        BY <2>6, <4>1, <4>2
    <3> QED
      BY <1>1, <2>1, <3>1, <3>2 DEF Inboxes
  <2>13. ASSUME NEW q \in Seq(Chunk), Behind(q), NEW i \in 1..Len(q), NEW t \in Slots,
                client[t] = q[i][1], NEW j \in Waiting(t)'
         PROVE  q[i][2] < inbox'[t][j][2]
    <3>1. CASE t = s
      BY <2>6, <2>13, <3>1 DEF Behind
    <3>2. CASE t # s
      BY <2>5, <2>7, <2>13, <3>2 DEF Behind
    <3> QED
      BY <3>1, <3>2
  <2>14. ASSUME NEW q \in Seq(Chunk), Behind(q)
         PROVE  Behind(q)'
    BY <1>1, <2>1, <2>13, <2>14 DEF Behind
  <2>15. ASSUME NEW q \in Seq(Chunk), Behind(q)
         PROVE  \A i \in 1..Len(q) : q[i][1] = x[1] => q[i][2] < x[2]
    BY <1>1, <2>3, <2>4, <2>8, <2>15 DEF Behind
  <2>16. ASSUME NEW q \in Seq(Chunk), Behind(q), Rising(q), NEW r, r = Append(q, x)
         PROVE  r \in Seq(Chunk) /\ Behind(r)' /\ Rising(r)
    <3>1. /\ r \in Seq(Chunk) /\ Len(q) \in Nat /\ Len(r) = Len(q) + 1 /\ r[Len(q) + 1] = x
          /\ \A j \in 1..Len(q) : r[j] = q[j]
      BY <2>4, <2>16, Appended
    <3>2. ASSUME NEW j \in Waiting(s)'
          PROVE  x[2] < inbox'[s][j][2]
      BY <2>6, <2>8
    <3>3. ASSUME NEW t \in Slots, client[t] = x[1]
          PROVE  t = s
      BY <1>1, <2>8, <3>3 DEF BridgeInv, OwnSlots
    <3>4. ASSUME NEW i \in 1..Len(r)
          PROVE  /\ r[i][1] <= clients /\ r[i][2] <= chunksSent[r[i][1]]
                 /\ \A t \in Slots : client[t] = r[i][1] =>
                        \A j \in Waiting(t)' : r[i][2] < inbox'[t][j][2]
      <4>1. CASE i = Len(q) + 1
        BY <2>8, <2>9, <3>1, <3>2, <3>3, <4>1
      <4>2. CASE i \in 1..Len(q)
        <5>1. r[i] = q[i] /\ q[i][1] <= clients /\ q[i][2] <= chunksSent[q[i][1]]
          BY <2>16, <3>1, <4>2 DEF Behind
        <5> QED
          BY <2>13, <2>16, <4>2, <5>1
      <4> QED
        BY <3>1, <4>1, <4>2
    <3>5. Behind(r)'
      BY <1>1, <2>1, <3>4 DEF Behind
    <3>6. ASSUME NEW i \in 1..Len(r), NEW j \in 1..Len(r), i < j, r[i][1] = r[j][1]
          PROVE  r[i][2] < r[j][2]
      <4>1. i \in 1..Len(q) /\ r[i] = q[i] /\ (j \in 1..Len(q) \/ j = Len(q) + 1)
        BY <3>1, <3>6
      <4>2. CASE j = Len(q) + 1
        BY <2>15, <2>16, <3>1, <3>6, <4>1, <4>2
      <4>3. CASE j \in 1..Len(q)
        BY <2>16, <3>1, <3>6, <4>1, <4>3 DEF Rising
      <4> QED
        BY <4>1, <4>2, <4>3
    <3> QED
      BY <3>1, <3>5, <3>6 DEF Rising
  <2>17. ASSUME NEW q \in Seq(Chunk), Behind(q), NEW i \in 1..Len(q)
         PROVE  q[i] # x
    BY <2>9, <2>15, <2>17
  <2>18. CASE baud' = Append(baud, x) /\ uart' = uart
    <3>1. baud' \in Seq(Chunk) /\ Behind(baud)' /\ Rising(baud)'
      BY <2>16, <2>18 DEF BridgeInv, BridgeTypes
    <3>2. Behind(uart)' /\ Rising(uart)'
      BY <2>14, <2>18 DEF BridgeInv, BridgeTypes, Rising
    <3>3. Apart'
      <4>1. /\ Len(baud) \in Nat /\ Len(baud') = Len(baud) + 1 /\ baud'[Len(baud) + 1] = x
            /\ \A j \in 1..Len(baud) : baud'[j] = baud[j]
        BY <2>4, <2>18, Appended DEF BridgeInv, BridgeTypes
      <4>2. ASSUME NEW i \in 1..Len(uart), NEW j \in 1..Len(baud')
            PROVE  uart[i] # baud'[j]
        <5>1. CASE j = Len(baud) + 1
          BY <2>17, <4>1, <5>1 DEF BridgeInv, BridgeTypes
        <5>2. CASE j \in 1..Len(baud)
          BY <4>1, <5>2 DEF BridgeInv, Apart
        <5> QED
          BY <4>1, <5>1, <5>2
      <4> QED
        BY <2>18, <4>2 DEF Apart
    <3> QED
      BY <1>1, <2>1, <2>10, <2>11, <2>12, <2>18, <3>1, <3>2, <3>3 DEF BridgeInv, BridgeTypes
  <2>19. CASE uart' = Append(uart, x) /\ baud' = baud
    <3>1. uart' \in Seq(Chunk) /\ Behind(uart)' /\ Rising(uart)'
      BY <2>16, <2>19 DEF BridgeInv, BridgeTypes
    <3>2. Behind(baud)' /\ Rising(baud)'
      BY <2>14, <2>19 DEF BridgeInv, BridgeTypes, Rising
    <3>3. Apart'
      <4>1. /\ Len(uart) \in Nat /\ Len(uart') = Len(uart) + 1 /\ uart'[Len(uart) + 1] = x
            /\ \A j \in 1..Len(uart) : uart'[j] = uart[j]
        BY <2>4, <2>19, Appended DEF BridgeInv, BridgeTypes
      <4>2. ASSUME NEW i \in 1..Len(uart'), NEW j \in 1..Len(baud)
            PROVE  uart'[i] # baud[j]
        <5>1. CASE i = Len(uart) + 1
          BY <2>17, <4>1, <5>1 DEF BridgeInv, BridgeTypes
        <5>2. CASE i \in 1..Len(uart)
          BY <4>1, <5>2 DEF BridgeInv, Apart
        <5> QED
          BY <4>1, <5>1, <5>2
      <4> QED
        BY <2>19, <4>2 DEF Apart
    <3> QED
      BY <1>1, <2>1, <2>10, <2>11, <2>12, <2>19, <3>1, <3>2, <3>3 DEF BridgeInv, BridgeTypes
  <2> QED
    BY <2>1, <2>18, <2>19
<1>3. CASE ~(state[s] # "free" /\ inbox[s] # << >> /\ Head(inbox[s]) # Bridge!Fin)
  <2>1. /\ UNCHANGED << inbox, client, uart, baud >>
        /\ \/ state' = state
           \/ state' = [ state EXCEPT ![s] = "free" ]
    BY <1>0, <1>3 DEF Bridge!Data, Bridge!close_tcp_netconn
  <2>2. /\ state' \in [ Slots -> { "free", "backlog", "open" } ]
        /\ \A t \in Slots : state'[t] # "free" => state[t] # "free"
    BY <1>1, <2>1 DEF BridgeInv, BridgeTypes
  <2> QED
    BY <1>1, <2>1, <2>2, SlotFreed
<1> QED
  BY <1>2, <1>3

LEMMA BridgeInit == Bridge!Init => BridgeInv
<1> SUFFICES ASSUME Bridge!Init
             PROVE  BridgeInv
  OBVIOUS
<1> USE DEF Bridge!Init, Bridge!None
<1>1. MaxClients \in Nat
  BY PartsAssumption DEF Bridge!BridgeAssumption, PartsAssumption
<1>2. << >> \in Seq(Item) /\ << >> \in Seq(Chunk) /\ Len(<< >>) = 0
  BY EmptySeq, Zenon
<1>3. \A s \in Slots : Waiting(s) = {}
  BY <1>2 DEF Waiting
<1>4. BridgeTypes
  BY <1>1, <1>2 DEF BridgeTypes
<1>5. OwnSlots /\ Inboxes
  BY <1>3 DEF OwnSlots, Inboxes
<1>6. Behind(uart) /\ Behind(baud) /\ Rising(uart) /\ Rising(baud) /\ Apart
  BY <1>2 DEF Behind, Rising, Apart
<1> QED
  BY <1>4, <1>5, <1>6 DEF BridgeInv

LEMMA BridgeStep ==
    ASSUME BridgeInv, Bridge!Next
    PROVE  BridgeInv'
<1>1. ASSUME NEW s \in Slots, Bridge!Reset(s)
      PROVE  BridgeInv'
  BY <1>1, SlotFreed DEF Bridge!Reset, BridgeInv, BridgeTypes
<1>2. CASE Bridge!uart_bridge_close \/ Bridge!UartReceives
  BY <1>2, SlotFreed DEF Bridge!uart_bridge_close, Bridge!UartReceives, Bridge!pool, BridgeInv, BridgeTypes
<1>3. CASE Bridge!Timeout
  BY <1>3, SlotFreed DEF Bridge!Timeout, Bridge!pool, BridgeInv, BridgeTypes
<1>4. CASE Bridge!WifiDisconnected
  <2>1. /\ UNCHANGED << inbox, client, uart, baud, clients, chunksSent >>
        /\ state' = state \/ state' = [ state EXCEPT ![uart_netconn] = "free" ]
    BY <1>4 DEF Bridge!WifiDisconnected, Bridge!close_tcp_netconn
  <2>2. /\ state' \in [ Slots -> { "free", "backlog", "open" } ]
        /\ \A t \in Slots : state'[t] # "free" => state[t] # "free"
    BY <2>1 DEF BridgeInv, BridgeTypes
  <2> QED
    BY <2>1, <2>2, SlotFreed
<1>5. CASE Bridge!Accept
  <2>1. PICK s : s = Head(backlog)
    OBVIOUS
  <2>2. /\ UNCHANGED << inbox, client, uart, baud, clients, chunksSent >>
        /\ \/ state' = state
           \/ state' = [ state EXCEPT ![s] = "free" ]
           \/ state[s] = "backlog" /\ state' = [ state EXCEPT ![s] = "open" ]
    BY <1>5, <2>1 DEF Bridge!Accept, Bridge!close_tcp_netconn
  <2>3. /\ state' \in [ Slots -> { "free", "backlog", "open" } ]
        /\ \A t \in Slots : state'[t] # "free" => state[t] # "free"
    BY <2>2 DEF BridgeInv, BridgeTypes
  <2> QED
    BY <2>2, <2>3, SlotFreed
<1> QED
  BY <1>1, <1>2, <1>3, <1>4, <1>5, ConnectKeeps, SendKeeps, FinishKeeps, DataKeeps
  DEF Bridge!Next, Bridge!Lwip, Bridge!uart_bridge_task

(* What a client of the UART bridge sends (uart_bridge.c) reaches the UART *)
(* or its baud rate once and in the order it was sent, for any number of   *)
(* slots, clients and chunks and any size of the queue of events, however  *)
(* events outlive the netconns they name.                                  *)
THEOREM ChunksInOrder == Spec => []OnceInOrder
<1> DEFINE Inv == part = "bridge" => BridgeInv
<1>1. Init => Inv
  BY BridgeInit DEF Init
<1>2. Inv /\ [Next]_vars => Inv'
  <2> SUFFICES ASSUME Inv, [Next]_vars, part' = "bridge"
               PROVE  BridgeInv'
    OBVIOUS
  <2>1. part = "bridge" /\ (Bridge!Next \/ UNCHANGED bridge)
    BY DEF Next, vars
  <2>2. CASE Bridge!Next
    BY <2>1, <2>2, BridgeStep
  <2>3. CASE UNCHANGED bridge
    <3>1. UNCHANGED << state, inbox, client, uart, baud, clients, chunksSent >>
      BY <2>3 DEF bridge
    <3> QED
      BY <2>1, <3>1, SlotFreed DEF BridgeInv, BridgeTypes
  <2> QED
    BY <2>1, <2>2, <2>3
<1>3. Inv => OnceInOrder
  <2> SUFFICES ASSUME BridgeInv
               PROVE  Bridge!OnceInOrder
    BY DEF OnceInOrder
  <2> QED
    BY DEF BridgeInv, Rising, Apart, Bridge!OnceInOrder
<1> QED
  BY <1>1, <1>2, <1>3, PTL DEF Spec

----------------------------------------------------------------------------
(* The trace: the bank in use holds what was raised since the last flip,   *)
(* and the other one what the command that flipped it is about to tell;    *)
(* between commands it is empty.                                           *)

BankInv ==
    /\ TraceError \in [ 0..1 -> SUBSET Swo!Errors ] /\ TraceError_n \in 0..1
    /\ TraceError[TraceError_n] = raised
    /\ stage \in { "idle", "flipped", "collected", "counted", "final" }
    /\ cmd = "ask" <=> stage # "idle"
    /\ stage = "flipped" => TraceError[1 - TraceError_n] = due
    /\ stage # "flipped" => TraceError[1 - TraceError_n] = {}
    /\ stage \in { "collected", "counted", "final" } => status = due

SwoNumbers ==
    /\ {TraceIndexI, TraceIndexO, TraceBlockSize, TransferSize, swo_data_to_send, swo_data_num,
        rx_buffered_len, rx_stash_len, kSWO_read_num, count, available} \subseteq Int
    /\ piece \in Int \X Int

(* The thread stores a piece of the buffer, and nobody else does; once it  *)
(* is through, what is stored is one transfer.                             *)
Storing == { "pointer", "length" }
QueueInv ==
    /\ thread \in { "count", "counting", "cut", "size", "busy" } => ~kSwoTransferBusy
    /\ thread \in { "size", "busy" } \cup Storing => piece[1] + piece[2] <= SWO_BUFFER_SIZE
    /\ thread \in { "busy" } \cup Storing => TransferSize = piece[2]
    /\ thread = "length" => swo_data_to_send = piece[1]
    /\ kSwoTransferBusy /\ thread \notin Storing =>
         swo_data_num = TransferSize /\ swo_data_to_send + swo_data_num <= SWO_BUFFER_SIZE

(* While the server loads an untorn transfer the flag keeps the thread     *)
(* from storing another.                                                   *)
ServerInv ==
    server \in { "pointer", "length", "send" } /\ ~torn =>
        /\ kSwoTransferBusy /\ thread \notin Storing
        /\ server # "pointer" => sending[1] = swo_data_to_send
        /\ server = "send" => sending[2] = swo_data_num

(* The thread works on a timeout only from the moment it finds the capture *)
(* inactive, and until it is cut a piece is whole or the trace is over.    *)
TimeOut == "SWO_ERROR_TIME_OUT"
TimeoutInv ==
    /\ TimeOut \notin events
    /\ thread \in { "read", "account", "check" } => TimeOut \notin flags
    /\ thread \in { "test", "count", "counting", "cut" } /\ active /\ ~started => TimeOut \notin flags
    /\ thread \in { "size", "busy" } /\ active /\ ~started => (piece[1] + piece[2]) % USB_BLOCK_SIZE = 0

SwoInv == BankInv /\ SwoNumbers /\ QueueInv /\ ServerInv /\ TimeoutInv

LEMMA SwoSizes ==
    /\ TRACE_BLOCK_SIZE \in Nat \ {0} /\ USB_BLOCK_SIZE \in Nat \ {0} /\ SWO_BUFFER_SIZE \in Nat \ {0}
    /\ Chunks \subseteq Int /\ LineErrors \subseteq Swo!Errors /\ DataSizes \subseteq Int
BY PartsAssumption DEF PartsAssumption, Swo!SwoAssumption, Swo!Errors

LEMMA ModRange ==
    ASSUME NEW m \in Nat \ {0}, NEW a \in Int
    PROVE  a % m \in 0..(m - 1)
OBVIOUS

LEMMA Quotient ==
    ASSUME NEW m \in Nat \ {0}, NEW a \in Int
    PROVE  a = m * (a \div m) + (a % m) /\ a \div m \in Int
OBVIOUS

LEMMA MultipleMod ==
    ASSUME NEW m \in Nat \ {0}, NEW k \in Int
    PROVE  (m * k) % m = 0
OBVIOUS

LEMMA SumOfMultiples ==
    ASSUME NEW m \in Nat \ {0}, NEW j \in Int, NEW k \in Int
    PROVE  (m * j + m * k) % m = 0 /\ m * j \in Int /\ m * k \in Int
<1>1. m * j + m * k = m * (j + k) /\ j + k \in Int
  OBVIOUS
<1>2. (m * (j + k)) % m = 0
  BY <1>1, MultipleMod
<1> QED
  BY <1>1, <1>2

LEMMA BlockLeftInt ==
    ASSUME NEW i \in Int
    PROVE  Swo!BlockLeft(i) \in Int
<1>1. i % TRACE_BLOCK_SIZE \in 0..(TRACE_BLOCK_SIZE - 1)
  BY SwoSizes, ModRange
<1> QED
  BY <1>1, SwoSizes DEF Swo!BlockLeft

LEMMA AvailableInt ==
    ASSUME SwoNumbers, NEW live \in BOOLEAN
    PROVE  Swo!Available(live) \in Int
<1> DEFINE held == IF live /\ TraceMode = "uart" THEN rx_buffered_len ELSE 0
           n == TraceIndexI - TraceIndexO + held
<1>1. n \in Int
  BY DEF SwoNumbers
<1>2. Swo!Word \in Nat \ {0}
  BY DEF Swo!Word
<1>3. n % Swo!Word \in 0..(Swo!Word - 1)
  BY <1>1, <1>2, ModRange
<1> QED
  BY <1>2, <1>3 DEF Swo!Available

(* What is sent ends in the buffer and, unless it is all there is, with a  *)
(* whole block.                                                            *)
LEMMA SendSizes ==
    ASSUME NEW start \in 0..(SWO_BUFFER_SIZE - 1), NEW n \in Int, NEW all \in BOOLEAN
    PROVE  LET size == Swo!SendSize(start, n, all) IN
           /\ size \in Int /\ start + size <= SWO_BUFFER_SIZE
           /\ ~all /\ size > 0 => (start + size) % USB_BLOCK_SIZE = 0
<1> DEFINE B == USB_BLOCK_SIZE
           i == start % B
           u == Swo!Least(n, SWO_BUFFER_SIZE - start)
           size == Swo!SendSize(start, n, all)
<1>1. B \in Nat \ {0} /\ SWO_BUFFER_SIZE \in Nat \ {0} /\ start \in Int
  BY SwoSizes
<1>2. u \in Int /\ start + u <= SWO_BUFFER_SIZE
  BY <1>1 DEF Swo!Least
<1>3. /\ i \in 0..(B - 1) /\ start \div B \in Int /\ start = B * (start \div B) + i
      /\ u % B \in 0..(B - 1) /\ u \div B \in Int /\ u = B * (u \div B) + (u % B)
  BY <1>1, <1>2, ModRange, Quotient
<1>4. size = IF all THEN u ELSE IF i = 0 THEN u - (u % B)
             ELSE IF u >= B - i THEN B - i ELSE 0
  BY DEF Swo!SendSize
<1> HIDE DEF B, i, u, size
<1>5. CASE all
  BY <1>2, <1>4, <1>5 DEF size
<1>6. CASE ~all /\ i = 0
  <2>1. size = u - (u % B) /\ size \in Int /\ start + size <= SWO_BUFFER_SIZE
    BY <1>1, <1>2, <1>3, <1>4, <1>6
  <2>2. PICK j \in Int : start = B * j + i
    BY <1>3
  <2>3. PICK k \in Int : u = B * k + (u % B)
    BY <1>3
  <2>4. (B * j + B * k) % B = 0 /\ B * j \in Int /\ B * k \in Int
    BY <1>1, SumOfMultiples
  <2>5. u % B \in Int
    BY <1>3
  <2>6. size = B * k /\ start = B * j
    BY <1>2, <1>6, <2>1, <2>2, <2>3, <2>4, <2>5
  <2> QED
    BY <2>1, <2>4, <2>6 DEF size, B
<1>7. CASE ~all /\ i # 0 /\ u >= B - i
  <2>1. size = B - i /\ size \in Int /\ start + size <= SWO_BUFFER_SIZE
    BY <1>1, <1>2, <1>3, <1>4, <1>7
  <2>2. PICK j \in Int : start = B * j + i
    BY <1>3
  <2>3. (B * j + B * 1) % B = 0 /\ B * j \in Int /\ B * 1 = B
    BY <1>1, SumOfMultiples
  <2>4. start + size = B * j + B * 1
    BY <1>1, <1>3, <2>1, <2>2, <2>3
  <2> QED
    BY <2>1, <2>3, <2>4 DEF size, B
<1>8. CASE ~all /\ i # 0 /\ ~(u >= B - i)
  BY <1>1, <1>4, <1>8 DEF size
<1> QED
  BY <1>5, <1>6, <1>7, <1>8

LEMMA SwoInit == Swo!Init => SwoInv
BY DEF Swo!Init, SwoInv, BankInv, SwoNumbers, QueueInv, ServerInv, TimeoutInv, Storing, TimeOut

(* No command and no error: the banks stay as they are. *)
LEMMA BanksStay ==
    ASSUME BankInv, UNCHANGED << TraceError, TraceError_n, raised, due, stage, status >>,
           cmd' = "ask" <=> cmd = "ask"
    PROVE  BankInv'
BY DEF BankInv

LEMMA ErrorRaised ==
    ASSUME BankInv, NEW flag \in Swo!Errors, Swo!SetTraceError(flag),
           UNCHANGED << cmd, stage, status >>
    PROVE  BankInv'
BY DEF BankInv, Swo!SetTraceError

LEMMA BankStep ==
    ASSUME BankInv, Swo!Next
    PROVE  BankInv'
<1> USE DEF Swo!task, Swo!errs
<1>1. ASSUME NEW n \in Chunks, Swo!Receive(n)
      PROVE  BankInv'
  <2>1. UNCHANGED << cmd, stage, status >>
    BY <1>1 DEF Swo!Receive
  <2>2. CASE Swo!SetTraceError("overrun")
    BY <2>1, <2>2, ErrorRaised DEF Swo!Errors
  <2>3. CASE UNCHANGED << TraceError, TraceError_n, raised, due >>
    BY <2>1, <2>3, BanksStay
  <2> QED
    BY <1>1, <2>2, <2>3 DEF Swo!Receive
<1>2. CASE Swo!LineError
  <2>1. PICK flag \in LineErrors : Swo!SetTraceError(flag)
    BY <1>2 DEF Swo!LineError
  <2>2. flag \in Swo!Errors
    BY SwoSizes
  <2> QED
    BY <1>2, <2>1, <2>2, ErrorRaised DEF Swo!LineError
<1>3. CASE Swo!SWO_Transport \/ Swo!SWO_Mode \/ Swo!SWO_Baudrate
  BY <1>3, BanksStay DEF Swo!SWO_Transport, Swo!SWO_Mode, Swo!SWO_Baudrate, Swo!vars
<1>4. ASSUME NEW on \in BOOLEAN, Swo!SWO_Control(on)
      PROVE  BankInv'
  <2>1. /\ cmd = "none" /\ cmd' \in { "none", "start" } /\ UNCHANGED << stage, status >>
        /\ \/ UNCHANGED << TraceError, TraceError_n, raised, due >>
           \/ TraceError' = [ n \in 0..1 |-> {} ] /\ TraceError_n' = 0 /\ raised' = {}
    BY <1>4 DEF Swo!SWO_Control, Swo!Command, Swo!ClearTrace, Swo!vars
  <2> QED
    BY <2>1 DEF BankInv
<1>5. CASE Swo!StartCapture
  <2>1. cmd = "start" /\ cmd' = "none" /\ UNCHANGED << TraceError, TraceError_n, raised, due, stage, status >>
    BY <1>5 DEF Swo!StartCapture
  <2> QED
    BY <2>1, BanksStay
<1>6. CASE Swo!Flip
  <2>1. /\ cmd = "none" /\ cmd' = "ask" /\ stage' = "flipped"
        /\ TraceError_n' = 1 - TraceError_n /\ TraceError' = TraceError
        /\ due' = raised /\ raised' = {}
    BY <1>6 DEF Swo!Flip, Swo!Command
  <2>2. stage = "idle" /\ TraceError[1 - TraceError_n] = {} /\ TraceError[TraceError_n] = raised
        /\ TraceError_n \in 0..1
    BY <2>1 DEF BankInv
  <2>3. TraceError_n' \in 0..1 /\ 1 - TraceError_n' = TraceError_n
    BY <2>1, <2>2
  <2> QED
    BY <2>1, <2>2, <2>3 DEF BankInv
<1>7. CASE Swo!GetTraceStatus
  <2>1. /\ stage = "flipped" /\ stage' = "collected" /\ cmd' = cmd
        /\ status' = TraceError[1 - TraceError_n]
        /\ TraceError' = [ TraceError EXCEPT ![1 - TraceError_n] = {} ]
        /\ UNCHANGED << TraceError_n, raised, due >>
    BY <1>7 DEF Swo!GetTraceStatus
  <2>2. TraceError_n \in 0..1 /\ 1 - TraceError_n \in 0..1 /\ 1 - TraceError_n # TraceError_n
    BY DEF BankInv
  <2> QED
    BY <2>1, <2>2 DEF BankInv
<1>8. CASE Swo!GetTraceCount
  <2>1. /\ stage \in { "collected", "counted" } /\ stage' \in { "counted", "final" }
        /\ UNCHANGED << TraceError, TraceError_n, raised, due, cmd, status >>
    BY <1>8 DEF Swo!GetTraceCount
  <2> QED
    BY <2>1 DEF BankInv
<1>9. CASE Swo!Answer
  <2>1. /\ stage \in { "counted", "final" } /\ stage' = "idle" /\ cmd' = "none"
        /\ UNCHANGED << TraceError, TraceError_n, raised >>
    BY <1>9 DEF Swo!Answer
  <2> QED
    BY <2>1 DEF BankInv
<1>10. CASE Swo!SWO_Thread \/ Swo!UsbipTask
  <2>1. UNCHANGED << TraceError, TraceError_n, raised, due, cmd, stage, status >>
    BY <1>10
    DEF Swo!SWO_Thread, Swo!UsbipTask, Swo!Wake, Swo!Read, Swo!Account, Swo!CheckStatus, Swo!TestBusy,
        Swo!CountTrace, Swo!Counted, Swo!CutTransfer, Swo!StoreSize, Swo!SetBusy, Swo!SWO_QueueTransfer,
        Swo!handle_swo_trace_response, Swo!SWO_TransferComplete, Swo!Local, Swo!Beside
  <2> QED
    BY <2>1, BanksStay
<1> HIDE DEF Swo!task, Swo!errs
<1> QED
  BY <1>1, <1>2, <1>3, <1>4, <1>5, <1>6, <1>7, <1>8, <1>9, <1>10
  DEF Swo!Next, Swo!Interrupt, Swo!DapTask

(* What the interrupt and the DAP task leave to the thread and the server: *)
(* the flag may fall, under the server's eyes only in a start that tears   *)
(* its transfer, and a capture that starts is known to have started.       *)
Aside ==
    /\ UNCHANGED << thread, flags, piece, TransferSize, swo_data_to_send, swo_data_num, server, sending >>
    /\ kSwoTransferBusy' => kSwoTransferBusy
    /\ torn => torn'
    /\ server # "idle" /\ ~torn' => (kSwoTransferBusy => kSwoTransferBusy')
    /\ ~started' => ~started /\ (active' => active)
    /\ events' \subseteq events \cup { "UART_GOT_DATA", "SWO_GOT_DATA" }

LEMMA AsideKeeps ==
    ASSUME QueueInv, ServerInv, TimeoutInv, Aside
    PROVE  QueueInv' /\ ServerInv' /\ TimeoutInv'
<1>1. QueueInv'
  BY DEF Aside, QueueInv, Storing
<1>2. ServerInv'
  BY DEF Aside, ServerInv, Storing
<1>3. TimeoutInv'
  BY DEF Aside, TimeoutInv, TimeOut
<1> QED
  BY <1>1, <1>2, <1>3

LEMMA InterruptAside ==
    ASSUME Swo!Interrupt
    PROVE  Aside
<1> USE DEF Aside, Swo!trace, Swo!transfer, Swo!swo, Swo!usbip, Swo!races
<1>1. ASSUME NEW n \in Chunks, Swo!Receive(n)
      PROVE  Aside
  BY <1>1 DEF Swo!Receive, Swo!Notify
<1>2. CASE Swo!LineError
  BY <1>2 DEF Swo!LineError
<1> QED
  BY <1>1, <1>2 DEF Swo!Interrupt

LEMMA DapTaskAside ==
    ASSUME Swo!DapTask
    PROVE  Aside
<1> USE DEF Aside, Swo!trace, Swo!transfer, Swo!swo, Swo!usbip, Swo!races
<1>1. CASE Swo!SWO_Transport
  BY <1>1 DEF Swo!SWO_Transport, Swo!vars
<1>2. CASE Swo!SWO_Mode
  BY <1>2 DEF Swo!SWO_Mode
<1>3. CASE Swo!SWO_Baudrate
  BY <1>3 DEF Swo!SWO_Baudrate
<1>4. ASSUME NEW on \in BOOLEAN, Swo!SWO_Control(on)
      PROVE  Aside
  <2>1. CASE UNCHANGED Swo!vars
    BY <2>1 DEF Swo!vars
  <2>2. CASE ~UNCHANGED Swo!vars /\ on
    <3>1. /\ ~active /\ UNCHANGED << TransferSize, swo_data_to_send, swo_data_num, events, started >>
          /\ UNCHANGED << Swo!trace, Swo!swo, Swo!usbip >>
      BY <1>4, <2>2 DEF Swo!SWO_Control
    <3>2. /\ kSwoTransferBusy' = (kSwoTransferBusy /\ TraceTransport # 2)
          /\ torn' = (torn \/ (server # "idle" /\ kSwoTransferBusy /\ TraceTransport = 2))
      BY <1>4, <2>2 DEF Swo!SWO_Control, Swo!ClearTrace
    <3> QED
      BY <3>1, <3>2
  <2>3. CASE ~UNCHANGED Swo!vars /\ ~on
    <3>1. UNCHANGED << Swo!transfer, Swo!swo, Swo!usbip, Swo!races >>
      BY <1>4, <2>3 DEF Swo!SWO_Control
    <3>2. (active' => active) /\ events' \subseteq events \cup { "SWO_GOT_DATA" }
      BY <1>4, <2>3 DEF Swo!SWO_Control, Swo!Controlled
    <3> QED
      BY <3>1, <3>2
  <2> QED
    BY <2>1, <2>2, <2>3
<1>5. CASE Swo!StartCapture
  BY <1>5 DEF Swo!StartCapture, Swo!Controlled
<1>6. CASE Swo!Flip \/ Swo!GetTraceStatus \/ Swo!GetTraceCount
  BY <1>6 DEF Swo!Flip, Swo!GetTraceStatus, Swo!GetTraceCount
<1>7. CASE Swo!Answer
  BY <1>7 DEF Swo!Answer
<1> QED
  BY <1>1, <1>2, <1>3, <1>4, <1>5, <1>6, <1>7 DEF Swo!DapTask

(* The numbers of the trace are numbers *)
LEMMA NumbersStay ==
    ASSUME SwoNumbers,
           {TraceIndexI', TraceIndexO', TraceBlockSize', rx_buffered_len', rx_stash_len',
            kSWO_read_num', count'} \subseteq Int,
           UNCHANGED << TransferSize, swo_data_to_send, swo_data_num, available, piece >>
    PROVE  SwoNumbers'
BY DEF SwoNumbers

LEMMA NumbersStep ==
    ASSUME SwoNumbers, Swo!Interrupt \/ Swo!DapTask
    PROVE  SwoNumbers'
<1> DEFINE Kept == UNCHANGED << TransferSize, swo_data_to_send, swo_data_num, available, piece >>
<1>0. {TraceIndexI, TraceIndexO, TraceBlockSize, rx_buffered_len, rx_stash_len, kSWO_read_num, count}
        \subseteq Int
  BY DEF SwoNumbers
<1>1. ASSUME NEW n \in Chunks, Swo!Receive(n)
      PROVE  SwoNumbers'
  <2>1. /\ Kept /\ UNCHANGED << TraceIndexI, TraceIndexO, TraceBlockSize, kSWO_read_num, count >>
        /\ rx_buffered_len' \in { rx_buffered_len, rx_buffered_len + n }
        /\ rx_stash_len' \in { rx_stash_len, n }
    BY <1>1 DEF Swo!Receive, Swo!Notify, Swo!index, Swo!transfer, Swo!task, Swo!swo
  <2>2. n \in Int
    BY SwoSizes
  <2> QED
    BY <1>0, <2>1, <2>2, NumbersStay
<1>2. CASE Swo!LineError
  BY <1>0, <1>2, NumbersStay DEF Swo!LineError, Swo!index, Swo!transfer, Swo!uart, Swo!task, Swo!swo
<1>3. CASE Swo!SWO_Transport
  BY <1>0, <1>3, NumbersStay
  DEF Swo!SWO_Transport, Swo!index, Swo!transfer, Swo!uart, Swo!swo, Swo!task, Swo!vars
<1>4. CASE Swo!SWO_Mode
  <2>1. /\ Kept /\ UNCHANGED << TraceIndexI, TraceIndexO, TraceBlockSize, count >>
        /\ kSWO_read_num' \in { 0, kSWO_read_num } /\ rx_buffered_len' = 0 /\ rx_stash_len' = 0
    BY <1>4 DEF Swo!SWO_Mode, Swo!index, Swo!transfer, Swo!swo
  <2> QED
    BY <1>0, <2>1, NumbersStay
<1>5. CASE Swo!SWO_Baudrate
  <2>1. /\ Kept /\ UNCHANGED << TraceIndexO, count >>
        /\ TraceIndexI' \in { TraceIndexI, TraceIndexI + rx_buffered_len }
        /\ rx_buffered_len' \in { 0, rx_buffered_len } /\ rx_stash_len' \in { 0, rx_stash_len }
        /\ TraceBlockSize' \in { TraceBlockSize, Swo!BlockLeft(TraceIndexI') }
        /\ kSWO_read_num' \in { kSWO_read_num, TraceBlockSize' }
    BY <1>5 DEF Swo!SWO_Baudrate, Swo!Flush, Swo!my_uart_read_bytes_async_swo, Swo!transfer, Swo!swo
  <2>2. TraceIndexI' \in Int
    BY <1>0, <2>1
  <2>3. TraceBlockSize' \in Int
    BY <1>0, <2>1, <2>2, BlockLeftInt
  <2> QED
    BY <1>0, <2>1, <2>2, <2>3, NumbersStay
<1>6. ASSUME NEW on \in BOOLEAN, Swo!SWO_Control(on)
      PROVE  SwoNumbers'
  <2>1. /\ Kept /\ UNCHANGED << count, TraceBlockSize, kSWO_read_num >>
        /\ TraceIndexI' \in { 0, TraceIndexI, TraceIndexI + rx_buffered_len }
        /\ TraceIndexO' \in { 0, TraceIndexO }
        /\ rx_buffered_len' \in { 0, rx_buffered_len } /\ rx_stash_len' \in { 0, rx_stash_len }
    BY <1>6 DEF Swo!SWO_Control, Swo!ClearTrace, Swo!Flush, Swo!index, Swo!transfer, Swo!uart,
                Swo!task, Swo!swo, Swo!vars
  <2> QED
    BY <1>0, <2>1, NumbersStay
<1>7. CASE Swo!StartCapture
  <2>1. /\ Kept /\ UNCHANGED << count, TraceIndexI, TraceIndexO, rx_buffered_len, rx_stash_len >>
        /\ TraceBlockSize' \in { 1, TraceBlockSize } /\ kSWO_read_num' \in { 1, kSWO_read_num }
    BY <1>7 DEF Swo!StartCapture, Swo!my_uart_read_bytes_async_swo, Swo!transfer, Swo!swo
  <2> QED
    BY <1>0, <2>1, NumbersStay
<1>8. CASE Swo!Flip \/ Swo!GetTraceStatus
  BY <1>0, <1>8, NumbersStay
  DEF Swo!Flip, Swo!GetTraceStatus, Swo!index, Swo!transfer, Swo!uart, Swo!swo
<1>9. CASE Swo!GetTraceCount
  <2>1. /\ Kept /\ UNCHANGED << TraceIndexI, TraceIndexO, TraceBlockSize, rx_buffered_len, rx_stash_len,
                                kSWO_read_num >>
        /\ count' = Swo!Available(TRUE) \/ count' = Swo!Available(FALSE)
    BY <1>9 DEF Swo!GetTraceCount, Swo!Available, Swo!index, Swo!transfer, Swo!uart, Swo!swo
  <2>2. count' \in Int
    BY <2>1, AvailableInt
  <2> QED
    BY <1>0, <2>1, <2>2, NumbersStay
<1>10. CASE Swo!Answer
  <2>1. /\ Kept /\ UNCHANGED << TraceIndexI, rx_buffered_len, rx_stash_len >>
        /\ count' = 0
        /\ TraceIndexO' = TraceIndexO
           \/ \E n \in DataSizes : TraceIndexO' = TraceIndexO + Swo!Least(n, count)
        /\ TraceBlockSize' \in { 1, TraceBlockSize } /\ kSWO_read_num' \in { 1, kSWO_read_num }
    BY <1>10 DEF Swo!Answer, Swo!ResumeTrace, Swo!my_uart_read_bytes_async_swo, Swo!transfer, Swo!swo
  <2>2. TraceIndexO' \in Int
    BY <1>0, <2>1, SwoSizes DEF Swo!Least
  <2> QED
    BY <1>0, <2>1, <2>2, NumbersStay
<1> QED
  BY <1>1, <1>2, <1>3, <1>4, <1>5, <1>6, <1>7, <1>8, <1>9, <1>10 DEF Swo!Interrupt, Swo!DapTask

(* The thread: until it has cut a piece it leaves the transfer alone       *)
Looking == { "wait", "read", "account", "check", "test", "count", "counting", "cut" }
Leaves ==
    UNCHANGED << kSwoTransferBusy, TransferSize, swo_data_to_send, swo_data_num, server, sending, torn >>

LEMMA ThreadLooks ==
    ASSUME QueueInv, ServerInv, Leaves, thread \in Looking, thread' \in Looking,
           thread' \in { "count", "counting", "cut" } => ~kSwoTransferBusy
    PROVE  QueueInv' /\ ServerInv'
BY DEF QueueInv, ServerInv, Storing, Looking, Leaves

LEMMA ThreadReads ==
    ASSUME SwoInv, Swo!Wake \/ Swo!Read \/ Swo!Account
    PROVE  SwoNumbers' /\ QueueInv' /\ ServerInv' /\ TimeoutInv'
<1>0. /\ {TraceIndexI, TraceIndexO, TraceBlockSize, rx_buffered_len, rx_stash_len, kSWO_read_num, count}
           \subseteq Int
      /\ SwoNumbers /\ QueueInv /\ ServerInv /\ TimeOut \notin events
      /\ thread \in { "read", "account", "check" } => TimeOut \notin flags
  BY DEF SwoInv, SwoNumbers, TimeoutInv
<1> USE DEF Swo!transfer, Swo!usbip, Swo!races, Swo!index, Swo!uart, Swo!task
<1>1. CASE Swo!Wake
  <2>1. /\ Leaves /\ thread = "wait" /\ thread' \in { "read", "check" }
        /\ UNCHANGED << TraceIndexI, TraceIndexO, TraceBlockSize, rx_buffered_len, rx_stash_len,
                        kSWO_read_num, count, available, piece >>
        /\ events' = {} /\ flags' \subseteq events \cup { "UART_GOT_DATA" }
    BY <1>1 DEF Swo!Wake, Leaves
  <2>2. SwoNumbers'
    BY <1>0, <2>1, NumbersStay DEF Leaves
  <2>3. QueueInv' /\ ServerInv'
    BY <1>0, <2>1, ThreadLooks DEF Looking
  <2>4. TimeoutInv'
    BY <1>0, <2>1 DEF TimeoutInv, TimeOut
  <2> QED
    BY <2>2, <2>3, <2>4
<1>2. CASE Swo!Read
  <2>1. /\ Leaves /\ thread = "read" /\ thread' = "account"
        /\ UNCHANGED << TraceIndexI, TraceIndexO, TraceBlockSize, kSWO_read_num, count, available, piece,
                        flags >>
        /\ \/ UNCHANGED << rx_buffered_len, rx_stash_len, events >>
           \/ Swo!my_uart_read_bytes(kSWO_read_num)
    BY <1>2 DEF Swo!Read, Leaves
  <2>2. {rx_buffered_len', rx_stash_len'} \subseteq Int /\ events' \subseteq events \cup { "UART_GOT_DATA" }
    BY <1>0, <2>1 DEF Swo!my_uart_read_bytes, Swo!Least, Swo!Notify
  <2>3. SwoNumbers'
    BY <1>0, <2>1, <2>2, NumbersStay DEF Leaves
  <2>4. QueueInv' /\ ServerInv'
    BY <1>0, <2>1, ThreadLooks DEF Looking
  <2>5. TimeoutInv'
    BY <1>0, <2>1, <2>2 DEF TimeoutInv, TimeOut
  <2> QED
    BY <2>3, <2>4, <2>5
<1>3. CASE Swo!Account
  <2>1. /\ Leaves /\ thread = "account" /\ thread' = "check"
        /\ UNCHANGED << TraceIndexO, count, available, piece, rx_buffered_len, rx_stash_len, events >>
        /\ TraceIndexI' = TraceIndexI + TraceBlockSize
        /\ TraceBlockSize' \in { TraceBlockSize, Swo!BlockLeft(TraceIndexI') }
        /\ kSWO_read_num' \in { kSWO_read_num, Swo!BlockLeft(TraceIndexI') }
        /\ flags' \subseteq flags \cup { "SWO_GOT_DATA" }
    BY <1>3 DEF Swo!Account, Swo!my_uart_read_bytes_async_swo, Leaves
  <2>2. TraceIndexI' \in Int /\ Swo!BlockLeft(TraceIndexI') \in Int
    BY <1>0, <2>1, BlockLeftInt
  <2>3. SwoNumbers'
    BY <1>0, <2>1, <2>2, NumbersStay DEF Leaves
  <2>4. QueueInv' /\ ServerInv'
    BY <1>0, <2>1, ThreadLooks DEF Looking
  <2>5. TimeoutInv'
    BY <1>0, <2>1 DEF TimeoutInv, TimeOut
  <2> QED
    BY <2>3, <2>4, <2>5
<1> QED
  BY <1>1, <1>2, <1>3

LEMMA ThreadCounts ==
    ASSUME SwoInv, Swo!CheckStatus \/ Swo!TestBusy \/ Swo!CountTrace \/ Swo!Counted
    PROVE  SwoNumbers' /\ QueueInv' /\ ServerInv' /\ TimeoutInv'
<1>0. SwoNumbers /\ QueueInv /\ ServerInv /\ TimeoutInv
  BY DEF SwoInv
<1> USE DEF Swo!transfer, Swo!usbip, Swo!races, Swo!index, Swo!uart, Swo!task, Swo!Goes
<1>1. /\ Leaves
      /\ UNCHANGED << TraceIndexI, TraceIndexO, TraceBlockSize, rx_buffered_len, rx_stash_len,
                      kSWO_read_num, count, piece, events, active >>
  <2>1. CASE Swo!CheckStatus
    BY <2>1 DEF Swo!CheckStatus, Leaves, Swo!trace
  <2>2. CASE Swo!TestBusy \/ Swo!CountTrace \/ Swo!Counted
    BY <2>2 DEF Swo!TestBusy, Swo!CountTrace, Swo!Counted, Leaves, Swo!Local, Swo!trace
  <2> QED
    BY <2>1, <2>2
<1>2. CASE Swo!CheckStatus
  <2>1. /\ thread = "check" /\ thread' = "test" /\ started' = FALSE /\ available' = available
        /\ active => flags' = flags
    BY <1>2 DEF Swo!CheckStatus
  <2>2. SwoNumbers'
    BY <1>0, <1>1, <2>1 DEF SwoNumbers, Leaves
  <2>3. QueueInv' /\ ServerInv'
    BY <1>0, <1>1, <2>1, ThreadLooks DEF Looking
  <2>4. TimeoutInv'
    BY <1>0, <1>1, <2>1 DEF TimeoutInv, TimeOut
  <2> QED
    BY <2>2, <2>3, <2>4
<1>3. CASE Swo!TestBusy \/ Swo!Counted
  <2>1. /\ \/ thread = "test" /\ thread' = "wait"
           \/ thread = "test" /\ thread' = "count" /\ ~kSwoTransferBusy
           \/ thread = "counting" /\ thread' = "cut"
        /\ UNCHANGED << started, flags, available >>
    BY <1>3 DEF Swo!TestBusy, Swo!Counted
  <2>2. SwoNumbers'
    BY <1>0, <1>1, <2>1 DEF SwoNumbers, Leaves
  <2>3. thread = "counting" => ~kSwoTransferBusy
    BY <1>0 DEF QueueInv
  <2>4. QueueInv' /\ ServerInv'
    BY <1>0, <1>1, <2>1, <2>3, ThreadLooks DEF Looking
  <2>5. TimeoutInv'
    BY <1>0, <1>1, <2>1 DEF TimeoutInv, TimeOut
  <2> QED
    BY <2>2, <2>4, <2>5
<1>4. CASE Swo!CountTrace
  <2>1. /\ thread \in { "count", "counting" } /\ thread' \in { "counting", "cut" }
        /\ UNCHANGED << started, flags >>
        /\ available' = Swo!Available(TRUE) \/ available' = Swo!Available(FALSE)
    BY <1>4 DEF Swo!CountTrace, Swo!Available
  <2>2. available' \in Int
    BY <1>0, <2>1, AvailableInt
  <2>3. SwoNumbers'
    BY <1>0, <1>1, <2>2 DEF SwoNumbers, Leaves
  <2>4. ~kSwoTransferBusy
    BY <1>0, <2>1 DEF QueueInv
  <2>5. QueueInv' /\ ServerInv'
    BY <1>0, <1>1, <2>1, <2>4, ThreadLooks DEF Looking
  <2>6. TimeoutInv'
    BY <1>0, <1>1, <2>1 DEF TimeoutInv, TimeOut
  <2> QED
    BY <2>3, <2>5, <2>6
<1> QED
  BY <1>2, <1>3, <1>4

LEMMA ThreadCuts ==
    ASSUME SwoInv, Swo!CutTransfer
    PROVE  SwoNumbers' /\ QueueInv' /\ ServerInv' /\ TimeoutInv'
<1> DEFINE start == TraceIndexO % SWO_BUFFER_SIZE
           all == "SWO_ERROR_TIME_OUT" \in flags
           size == Swo!SendSize(start, available, all)
<1>0. SwoNumbers /\ QueueInv /\ ServerInv /\ TimeoutInv
  BY DEF SwoInv
<1>1. /\ Leaves /\ thread = "cut"
      /\ UNCHANGED << TraceIndexI, TraceIndexO, TraceBlockSize, rx_buffered_len, rx_stash_len,
                      kSWO_read_num, count, events, active, started, flags >>
      /\ available' = 0
      /\ IF size > 0 THEN thread' = "size" /\ piece' = << start, size >>
                     ELSE thread' = "wait" /\ piece' = piece
  BY DEF Swo!CutTransfer, Swo!Goes, Swo!Local, Leaves, Swo!transfer, Swo!usbip, Swo!races, Swo!index,
         Swo!uart, Swo!task, Swo!trace
<1>2. start \in 0..(SWO_BUFFER_SIZE - 1) /\ available \in Int /\ all \in BOOLEAN
  BY <1>0, SwoSizes, ModRange DEF SwoNumbers
<1>3. /\ size \in Int /\ start + size <= SWO_BUFFER_SIZE
      /\ ~all /\ size > 0 => (start + size) % USB_BLOCK_SIZE = 0
  BY <1>2, SendSizes
<1> HIDE DEF start, all, size
<1>4. start \in Int
  BY <1>2, SwoSizes
<1>5. SwoNumbers'
  BY <1>0, <1>1, <1>3, <1>4 DEF SwoNumbers, Leaves
<1>6. ~kSwoTransferBusy
  BY <1>0, <1>1 DEF QueueInv
<1>7. CASE thread' = "wait"
  <2>1. QueueInv' /\ ServerInv'
    BY <1>0, <1>1, <1>7, ThreadLooks DEF Looking
  <2>2. TimeoutInv'
    BY <1>0, <1>1, <1>7 DEF TimeoutInv, TimeOut
  <2> QED
    BY <1>5, <2>1, <2>2
<1>8. CASE thread' = "size"
  <2>1. piece' = << start, size >> /\ size > 0
    BY <1>1, <1>8
  <2>2. QueueInv'
    BY <1>0, <1>1, <1>3, <1>6, <1>8, <2>1 DEF QueueInv, Leaves, Storing
  <2>3. ServerInv'
    BY <1>0, <1>1, <1>6, <1>8 DEF ServerInv, Leaves, Storing
  <2>4. active /\ ~started => ~all
    BY <1>0, <1>1 DEF TimeoutInv, TimeOut, all
  <2>5. TimeoutInv'
    BY <1>0, <1>1, <1>3, <1>8, <2>1, <2>4 DEF TimeoutInv, TimeOut
  <2> QED
    BY <1>5, <2>2, <2>3, <2>5
<1> QED
  BY <1>1, <1>7, <1>8

LEMMA ThreadStores ==
    ASSUME SwoInv, Swo!StoreSize \/ Swo!SetBusy \/ Swo!SWO_QueueTransfer
    PROVE  SwoNumbers' /\ QueueInv' /\ ServerInv' /\ TimeoutInv'
<1>0. SwoNumbers /\ QueueInv /\ ServerInv /\ TimeoutInv
  BY DEF SwoInv
<1>1. UNCHANGED << TraceIndexI, TraceIndexO, TraceBlockSize, rx_buffered_len, rx_stash_len,
                   kSWO_read_num, count, available, events, active, started, torn, flags, server, sending >>
  BY DEF Swo!StoreSize, Swo!SetBusy, Swo!SWO_QueueTransfer, Swo!Local, Swo!usbip, Swo!races, Swo!index,
         Swo!uart, Swo!task, Swo!trace
<1>2. CASE Swo!StoreSize
  <2>1. /\ thread = "size" /\ thread' = "busy" /\ TransferSize' = piece[2]
        /\ UNCHANGED << kSwoTransferBusy, swo_data_to_send, swo_data_num, piece >>
    BY <1>2 DEF Swo!StoreSize, Swo!Goes
  <2>2. SwoNumbers'
    BY <1>0, <1>1, <2>1 DEF SwoNumbers
  <2>3. ~kSwoTransferBusy
    BY <1>0, <2>1 DEF QueueInv
  <2>4. QueueInv'
    BY <1>0, <2>1, <2>3 DEF QueueInv, Storing
  <2>5. ServerInv'
    BY <1>0, <1>1, <2>1, <2>3 DEF ServerInv, Storing
  <2>6. TimeoutInv'
    BY <1>0, <1>1, <2>1 DEF TimeoutInv, TimeOut
  <2> QED
    BY <2>2, <2>4, <2>5, <2>6
<1>3. CASE Swo!SetBusy
  <2>1. /\ thread = "busy" /\ thread' = "pointer"
        /\ UNCHANGED << TransferSize, swo_data_to_send, swo_data_num, piece >>
    BY <1>3 DEF Swo!SetBusy, Swo!Goes
  <2>2. SwoNumbers'
    BY <1>0, <1>1, <2>1 DEF SwoNumbers
  <2>3. ~kSwoTransferBusy
    BY <1>0, <2>1 DEF QueueInv
  <2>4. QueueInv'
    BY <1>0, <2>1 DEF QueueInv, Storing
  <2>5. ServerInv'
    BY <1>0, <1>1, <2>3 DEF ServerInv, Storing
  <2>6. TimeoutInv'
    BY <1>0, <1>1, <2>1 DEF TimeoutInv, TimeOut
  <2> QED
    BY <2>2, <2>4, <2>5, <2>6
<1>4. CASE Swo!SWO_QueueTransfer
  <2>1. /\ \/ /\ thread = "pointer" /\ thread' = "length"
              /\ swo_data_to_send' = piece[1] /\ UNCHANGED << swo_data_num, piece >>
           \/ /\ thread = "length" /\ thread' = "wait"
              /\ swo_data_num' = piece[2] /\ piece' = << 0, 0 >> /\ UNCHANGED swo_data_to_send
        /\ UNCHANGED << kSwoTransferBusy, TransferSize >>
    BY <1>4 DEF Swo!SWO_QueueTransfer, Swo!Goes
  <2>2. SwoNumbers'
    BY <1>0, <1>1, <2>1 DEF SwoNumbers
  <2>3. QueueInv'
    BY <1>0, <2>1 DEF QueueInv, Storing
  <2>4. ServerInv'
    BY <1>0, <1>1, <2>1 DEF ServerInv, Storing
  <2>5. TimeoutInv'
    BY <1>0, <1>1, <2>1 DEF TimeoutInv, TimeOut
  <2> QED
    BY <2>2, <2>3, <2>4, <2>5
<1> QED
  BY <1>2, <1>3, <1>4

LEMMA ServerSends ==
    ASSUME SwoInv, Swo!UsbipTask
    PROVE  SwoNumbers' /\ QueueInv' /\ ServerInv' /\ TimeoutInv'
<1>0. SwoNumbers /\ QueueInv /\ ServerInv /\ TimeoutInv
  BY DEF SwoInv
<1>1. /\ UNCHANGED << TraceIndexI, TransferSize, swo_data_to_send, swo_data_num, rx_buffered_len,
                      rx_stash_len, count, available, piece, thread, flags, active, started >>
      /\ TraceIndexO' \in { TraceIndexO, TraceIndexO + TransferSize }
      /\ TraceBlockSize' \in { 1, TraceBlockSize } /\ kSWO_read_num' \in { 1, kSWO_read_num }
      /\ events' \subseteq events \cup { "SWO_GOT_DATA" }
      /\ kSwoTransferBusy' => kSwoTransferBusy
  <2> USE DEF Swo!swo, Swo!uart, Swo!task, Swo!trace
  <2>1. CASE Swo!handle_swo_trace_response
    BY <2>1 DEF Swo!handle_swo_trace_response, Swo!Beside
  <2>2. CASE Swo!SWO_TransferComplete /\ server # "resume"
    BY <2>2 DEF Swo!SWO_TransferComplete, Swo!Beside
  <2>3. CASE Swo!SWO_TransferComplete /\ server = "resume"
    BY <2>3 DEF Swo!SWO_TransferComplete, Swo!ResumeTrace, Swo!my_uart_read_bytes_async_swo, Swo!transfer
  <2> QED
    BY <2>1, <2>2, <2>3 DEF Swo!UsbipTask
<1>2. SwoNumbers'
  BY <1>0, <1>1 DEF SwoNumbers
<1>3. QueueInv'
  BY <1>0, <1>1 DEF QueueInv, Storing
<1>4. TimeoutInv'
  BY <1>0, <1>1 DEF TimeoutInv, TimeOut
<1>5. ServerInv'
  <2>1. CASE Swo!handle_swo_trace_response
    <3>1. /\ kSwoTransferBusy' = kSwoTransferBusy
          /\ \/ /\ server = "idle" /\ kSwoTransferBusy /\ server' = "pointer"
                /\ torn' = (thread \in { "pointer", "length" })
             \/ /\ server = "pointer" /\ server' = "length" /\ torn' = torn
                /\ sending' = << swo_data_to_send, 0 >>
             \/ /\ server = "length" /\ server' = "send" /\ torn' = torn
                /\ sending' = << sending[1], swo_data_num >>
      BY <2>1 DEF Swo!handle_swo_trace_response
    <3>2. CASE server' = "pointer"
      BY <1>1, <3>1, <3>2 DEF ServerInv, Storing
    <3>3. CASE server' = "length"
      <4>1. server = "pointer" /\ torn' = torn /\ sending'[1] = swo_data_to_send'
        BY <1>1, <3>1, <3>3
      <4> QED
        BY <1>0, <1>1, <3>1, <3>3, <4>1 DEF ServerInv, Storing
    <3>4. CASE server' = "send"
      <4>1. server = "length" /\ torn' = torn /\ sending'[1] = sending[1] /\ sending'[2] = swo_data_num'
        BY <1>1, <3>1, <3>4
      <4> QED
        BY <1>0, <1>1, <3>1, <3>4, <4>1 DEF ServerInv, Storing
    <3> QED
      BY <3>1, <3>2, <3>3, <3>4
  <2>2. CASE Swo!SWO_TransferComplete
    <3>1. server' \in { "done", "resume", "idle" }
      BY <2>2 DEF Swo!SWO_TransferComplete
    <3> QED
      BY <3>1 DEF ServerInv
  <2> QED
    BY <2>1, <2>2 DEF Swo!UsbipTask
<1> QED
  BY <1>2, <1>3, <1>4, <1>5

LEMMA SwoStep ==
    ASSUME SwoInv, Swo!Next
    PROVE  SwoInv'
<1>1. BankInv'
  BY BankStep DEF SwoInv
<1>2. CASE Swo!Interrupt \/ Swo!DapTask
  <2>1. Aside
    BY <1>2, InterruptAside, DapTaskAside
  <2>2. QueueInv' /\ ServerInv' /\ TimeoutInv'
    BY <2>1, AsideKeeps DEF SwoInv
  <2>3. SwoNumbers'
    BY <1>2, NumbersStep DEF SwoInv
  <2> QED
    BY <1>1, <2>2, <2>3 DEF SwoInv
<1>3. CASE Swo!SWO_Thread
  BY <1>1, <1>3, ThreadReads, ThreadCounts, ThreadCuts, ThreadStores DEF SwoInv, Swo!SWO_Thread
<1>4. CASE Swo!UsbipTask
  BY <1>1, <1>4, ServerSends DEF SwoInv
<1> QED
  BY <1>2, <1>3, <1>4 DEF Swo!Next

LEMMA SwoStays ==
    ASSUME SwoInv, UNCHANGED swo
    PROVE  SwoInv'
<1>1. BankInv'
  BY BanksStay DEF swo, SwoInv
<1>2. SwoNumbers'
  BY DEF swo, SwoInv, SwoNumbers
<1>3. QueueInv' /\ ServerInv'
  BY DEF swo, SwoInv, QueueInv, ServerInv, Storing
<1>4. TimeoutInv'
  BY DEF swo, SwoInv, TimeoutInv, TimeOut
<1> QED
  BY <1>1, <1>2, <1>3, <1>4 DEF SwoInv

LEMMA SwoSafe == Spec => []SwoInv
<1>1. Init => SwoInv
  BY SwoInit DEF Init
<1>2. SwoInv /\ [Next]_vars => SwoInv'
  <2> SUFFICES ASSUME SwoInv, [Next]_vars
               PROVE  SwoInv'
    OBVIOUS
  <2>1. Swo!Next \/ UNCHANGED swo
    BY DEF Next, vars
  <2> QED
    BY <2>1, SwoStep, SwoStays
<1> QED
  BY <1>1, <1>2, PTL DEF Spec

(* The host is told of every error of the trace (SWO.c), each once, when   *)
(* an interrupt comes between any two steps of the answer; and what the    *)
(* USBIP server (DAP_handle.c) loads step by step is one transfer that     *)
(* lies in the trace buffer, if it found the flag when the stores of the   *)
(* transfer were through and no start has cleared the flag since.  For any *)
(* sizes of buffers and blocks and any number of bytes, errors and         *)
(* commands.                                                               *)
THEOREM TraceTold == Spec => []TraceSound
<1>1. SwoInv => TraceSound
  <2> SUFFICES ASSUME SwoInv
               PROVE  Swo!ErrorsReported /\ Swo!SentAsQueued
    BY DEF TraceSound, Swo!TraceSound
  <2>1. Swo!ErrorsReported
    BY DEF SwoInv, BankInv, Swo!ErrorsReported
  <2>2. Swo!SentAsQueued
    BY DEF SwoInv, QueueInv, ServerInv, Swo!SentAsQueued
  <2> QED
    BY <2>1, <2>2
<1> QED
  BY <1>1, SwoSafe, PTL

(* What SetBusy begins is the piece that was cut.                          *)
LEMMA BlocksWhole ==
    ASSUME SwoInv, Swo!Next, ~kSwoTransferBusy, kSwoTransferBusy', active, ~started
    PROVE  (piece[1] + TransferSize) % USB_BLOCK_SIZE = 0
<1>1. CASE Swo!Interrupt \/ Swo!DapTask
  BY <1>1, InterruptAside, DapTaskAside DEF Aside
<1>2. CASE Swo!UsbipTask
  BY <1>2 DEF Swo!UsbipTask, Swo!handle_swo_trace_response, Swo!SWO_TransferComplete, Swo!transfer
<1>3. CASE Swo!SWO_Thread
  <2>1. Swo!SetBusy
    BY <1>3 DEF Swo!SWO_Thread, Swo!Wake, Swo!Read, Swo!Account, Swo!CheckStatus, Swo!TestBusy,
        Swo!CountTrace, Swo!Counted, Swo!CutTransfer, Swo!StoreSize, Swo!SWO_QueueTransfer, Swo!transfer
  <2>2. thread = "busy"
    BY <2>1 DEF Swo!SetBusy, Swo!Goes
  <2> QED
    BY <2>2 DEF SwoInv, QueueInv, TimeoutInv
<1> QED
  BY <1>1, <1>2, <1>3 DEF Swo!Next

(* While the trace goes on every transfer ends with a whole USB block,     *)
(* also from where an earlier one stopped and at the end of the buffer,    *)
(* unless the capture was started while the SWO thread, which had found    *)
(* none, was counting and cutting.                                         *)
THEOREM TransfersWhole == Spec => WholeBlocks
<1>1. SwoInv /\ [Next]_vars =>
        [~kSwoTransferBusy /\ kSwoTransferBusy' /\ active /\ ~started
            => (piece[1] + TransferSize) % USB_BLOCK_SIZE = 0]_Swo!vars
  <2> SUFFICES ASSUME SwoInv, [Next]_vars, ~kSwoTransferBusy, kSwoTransferBusy', active, ~started
               PROVE  (piece[1] + TransferSize) % USB_BLOCK_SIZE = 0
    OBVIOUS
  <2>1. Swo!Next
    BY DEF Next, vars, swo
  <2> QED
    BY <2>1, BlocksWhole
<1> QED
  BY <1>1, SwoSafe, PTL DEF Spec, WholeBlocks, Swo!WholeBlocks

----------------------------------------------------------------------------
(* UART_Status and UART_Transfer                                           *)

(* The indices run freely: what is known of them is a remainder.           *)
LEMMA ModIs ==
    ASSUME NEW s \in Nat \ {0}, NEW a \in Int, NEW q \in Int, NEW r \in 0..s - 1, a = s * q + r
    PROVE  a % s = r
<1> DEFINE q2 == a \div s
           r2 == a % s
<1>1. q2 \in Int /\ r2 \in 0..s - 1 /\ a = s * q2 + r2
  OBVIOUS
<1> HIDE DEF q2, r2
<1>2. PICK d \in Int : d = q - q2
  BY <1>1
<1>3. s * d = r2 - r
  <2>1. q = d + q2
    BY <1>1, <1>2
  <2>2. s * q = s * d + s * q2
    BY <1>1, <2>1
  <2> QED
    BY <1>1, <2>2
<1>4. CASE d = 0
  BY <1>1, <1>3, <1>4 DEF r2
<1>5. CASE d >= 1
  <2>1. s * d >= s
    BY <1>5
  <2> QED
    BY <1>1, <1>3, <2>1
<1>6. CASE d <= -1
  <2>1. s * d <= -s
    BY <1>6
  <2> QED
    BY <1>1, <1>3, <2>1
<1> QED
  BY <1>4, <1>5, <1>6

LEMMA ModShift ==
    ASSUME NEW s \in Nat \ {0}, NEW a \in Int, NEW b \in Int, NEW k \in Int, a = b + s * k
    PROVE  a % s = b % s /\ a % s \in 0..s - 1
<1>1. PICK q \in Int, r \in 0..s - 1 : b = s * q + r /\ r = b % s
  <2>1. b \div s \in Int /\ b % s \in 0..s - 1 /\ b = s * (b \div s) + (b % s)
    OBVIOUS
  <2> QED
    BY <2>1
<1>2. a = s * (q + k) + r /\ q + k \in Int
  BY <1>1
<1>3. a % s = r
  BY <1>2, ModIs
<1> QED
  BY <1>1, <1>3

LEMMA ModStep ==
    ASSUME NEW s \in Nat \ {0}, NEW a \in Int, NEW n \in Int
    PROVE  ((a % s) + n) % s = (a + n) % s
<1>1. PICK q \in Int, r \in 0..s - 1 : a = s * q + r /\ r = a % s
  <2>1. a \div s \in Int /\ a % s \in 0..s - 1 /\ a = s * (a \div s) + (a % s)
    OBVIOUS
  <2> QED
    BY <2>1
<1>2. a = s * q + r
  BY <1>1
<1>3. a + n = (r + n) + s * q /\ a + n \in Int /\ r + n \in Int
  BY <1>2
<1>4. (a + n) % s = (r + n) % s
  BY <1>3, ModShift
<1> QED
  BY <1>1, <1>4

LEMMA ModDiff ==
    ASSUME NEW s \in Nat \ {0}, NEW a \in Int, NEW b \in Int, a - b \in 0..s - 1
    PROVE  ((a % s) - (b % s) + s) % s = a - b
<1>1. PICK q \in Int, r \in 0..s - 1 : a = s * q + r /\ r = a % s
  <2>1. a \div s \in Int /\ a % s \in 0..s - 1 /\ a = s * (a \div s) + (a % s)
    OBVIOUS
  <2> QED
    BY <2>1
<1>2. PICK p \in Int, t \in 0..s - 1 : b = s * p + t /\ t = b % s
  <2>1. b \div s \in Int /\ b % s \in 0..s - 1 /\ b = s * (b \div s) + (b % s)
    OBVIOUS
  <2> QED
    BY <2>1
<1>3. a = s * q + r /\ b = s * p + t
  BY <1>1, <1>2
<1>4. PICK k \in Int : k = p - q + 1
  OBVIOUS
<1>5. s * k = s * p - s * q + s
  BY <1>4
<1>6. r - t + s = s * k + (a - b) /\ r - t + s \in Int
  BY <1>3, <1>5
<1>7. (r - t + s) % s = a - b
  BY <1>6, ModIs
<1> QED
  BY <1>1, <1>2, <1>7

(* An index of the buffer is the same remainder, wrapped or not. *)
LEMMA ModFine ==
    ASSUME NEW s \in Nat \ {0}, NEW w \in Nat \ {0}, w % s = 0, NEW a \in Int
    PROVE  (a % w) % s = a % s
<1>1. PICK m \in Int : w = s * m
  <2>1. w \div s \in Int /\ w = s * (w \div s) + (w % s)
    OBVIOUS
  <2> QED
    BY <2>1
<1>2. PICK q \in Int, r \in 0..w - 1 : a = w * q + r /\ r = a % w
  <2>1. a \div w \in Int /\ a % w \in 0..w - 1 /\ a = w * (a \div w) + (a % w)
    OBVIOUS
  <2> QED
    BY <2>1
<1>3. PICK k \in Int : k = m * q
  OBVIOUS
<1>4. a = w * q + r /\ w * q = s * k
  BY <1>1, <1>2, <1>3
<1>5. a = r + s * k /\ r \in Int
  BY <1>4
<1>6. a % s = r % s
  BY <1>5, ModShift
<1> QED
  BY <1>2, <1>6

LEMMA ModNext ==
    ASSUME NEW s \in Nat \ {0}, NEW a \in Int, NEW g \in Nat, (a % s) + g < s
    PROVE  (a + g) % s = (a % s) + g
<1>1. PICK q \in Int, r \in 0..s - 1 : a = s * q + r /\ r = a % s
  <2>1. a \div s \in Int /\ a % s \in 0..s - 1 /\ a = s * (a \div s) + (a % s)
    OBVIOUS
  <2> QED
    BY <2>1
<1>2. a + g = s * q + (r + g) /\ r + g \in 0..s - 1 /\ a + g \in Int
  BY <1>1
<1> QED
  BY <1>1, <1>2, ModIs

(* What a step of either part of UART.c is, with the requests of both. *)
Controlled ==
    /\ uartPc = "idle" /\ UartTransport = "DAP_COMMAND"
    /\ \E control \in RxControls \cup TxControls : Rx!ControlRx(control) /\ Rx!ControlTx(control)
    /\ UNCHANGED << UartTransport, UartConfigured, Rx!command, Rx!answer, UartErrors, uartTorn >>
Transferred ==
    /\ UartTransport = "DAP_COMMAND"
    /\ \E read \in Nat, write \in Nat : Rx!Begin("rx indices", << read, write >>)
    /\ UNCHANGED << Rx!settings, Rx!rx, Rx!tx, Rx!answer, UartErrors, rx_num, rx_cnt, tx_num, num, uartTorn >>
UartChange ==
    \/ Rx!ReceiveByte \/ Rx!SendByte \/ Rx!LineError
    \/ Rx!UART_Transport \/ Rx!UART_Configure \/ Controlled \/ Rx!UART_Status \/ Transferred
    \/ Rx!RxIndices \/ Rx!RxCount \/ Rx!Overflow \/ Rx!RxRequest \/ Rx!Copy
    \/ Rx!TxIndices \/ Rx!TxCount \/ Rx!TxActive \/ Rx!PutData \/ Rx!StartTransmit \/ Rx!Answer

(* While it is sending that is asked for, nothing is received. *)
RxQuiet == part = "tx" => ~UartReceiveEnabled

LEMMA UartSizes ==
    /\ UART_RX_BLOCK_SIZE \in Nat \ {0} /\ DAP_UART_TX_BUFFER_SIZE \in Nat \ {0}
    /\ DAP_UART_RX_BUFFER_SIZE \in Nat /\ DAP_UART_RX_BUFFER_SIZE > 2 * UART_RX_BLOCK_SIZE
    /\ DAP_UART_RX_BUFFER_SIZE % UART_RX_BLOCK_SIZE = 0
    /\ IndexWord \in Nat \ {0} /\ IndexWord > DAP_UART_RX_BUFFER_SIZE /\ IndexWord >= 2 * DAP_UART_TX_BUFFER_SIZE
    /\ IndexWord % DAP_UART_RX_BUFFER_SIZE = 0 /\ IndexWord % DAP_UART_TX_BUFFER_SIZE = 0
    /\ MaxReceived \in Nat /\ BytesPerCommand \in Nat
BY PartsAssumption DEF PartsAssumption, Rx!UartAssumption

LEMMA TxSteps == (* of the two instances, which differ in what is asked for *)
    ASSUME Tx!Next, ~UartReceiveEnabled
    PROVE  UartChange /\ ~UartReceiveEnabled'
<1> USE DEF Tx!settings, Tx!rx, Tx!tx, Tx!command, Tx!answer, Rx!settings, Rx!rx, Rx!tx, Rx!command, Rx!answer
<1>1. CASE Tx!ReceiveByte
  BY <1>1 DEF Tx!ReceiveByte
<1>2. CASE Tx!SendByte
  <2>1. Rx!SendByte
    BY <1>2 DEF Tx!SendByte, Rx!SendByte, Tx!UART_Transmit, Rx!UART_Transmit,
           Tx!Minus, Rx!Minus, Tx!Least, Rx!Least
  <2> QED
    BY <2>1 DEF UartChange, Rx!SendByte
<1>3. CASE Tx!LineError
  BY <1>3 DEF Tx!LineError
<1>4. CASE Tx!UART_Transport
  <2>1. Rx!UART_Transport
    BY <1>4 DEF Tx!UART_Transport, Rx!UART_Transport, Tx!RxCleared, Rx!RxCleared, Tx!TxCleared, Rx!TxCleared,
           Tx!Receive_Disable, Rx!Receive_Disable, Tx!Transmit_Disable, Rx!Transmit_Disable
  <2> QED
    BY <2>1 DEF UartChange, Rx!UART_Transport
<1>5. CASE Tx!UART_Configure
  <2>1. Rx!UART_Configure
    BY <1>5 DEF Tx!UART_Configure, Rx!UART_Configure
  <2> QED
    BY <2>1 DEF UartChange, Rx!UART_Configure
<1>6. CASE Tx!UART_Control
  <2>1. PICK control \in TxControls : Tx!ControlRx(control) /\ Tx!ControlTx(control)
    BY <1>6 DEF Tx!UART_Control
  <2>2. Rx!ControlRx(control)
    BY <2>1 DEF Tx!ControlRx, Rx!ControlRx, Tx!RxCleared, Rx!RxCleared, Tx!Receive_Disable, Rx!Receive_Disable
  <2>3. Rx!ControlTx(control)
    BY <2>1 DEF Tx!ControlTx, Rx!ControlTx, Tx!TxCleared, Rx!TxCleared, Tx!Transmit_Disable, Rx!Transmit_Disable
  <2>4. Controlled
    BY <1>6, <2>2, <2>3 DEF Tx!UART_Control, Controlled
  <2>5. "RX_ENABLE" \notin control
    BY DEF TxControls
  <2>6. ~UartReceiveEnabled'
    BY <2>2, <2>5 DEF Rx!ControlRx
  <2> QED
    BY <2>4, <2>6 DEF UartChange
<1>7. CASE Tx!UART_Status
  <2>1. Rx!UART_Status
    BY <1>7 DEF Tx!UART_Status, Rx!UART_Status, Tx!Begin, Rx!Begin
  <2> QED
    BY <2>1 DEF UartChange, Rx!UART_Status
<1>8. CASE Tx!UART_Transfer
  <2>1. Transferred
    BY <1>8, PartsAssumption DEF PartsAssumption, Tx!UartAssumption, Tx!UART_Transfer, Transferred, Tx!Begin, Rx!Begin
  <2> QED
    BY <2>1 DEF UartChange, Transferred
<1>9. CASE Tx!RxIndices
  <2>1. Rx!RxIndices
    BY <1>9 DEF Tx!RxIndices, Rx!RxIndices, Tx!Minus, Rx!Minus
  <2> QED
    BY <2>1 DEF UartChange, Rx!RxIndices
<1>10. CASE Tx!RxCount
  <2>1. Rx!RxCount
    BY <1>10 DEF Tx!RxCount, Rx!RxCount, Tx!RxLimit, Rx!RxLimit
  <2> QED
    BY <2>1 DEF UartChange, Rx!RxCount
<1>11. CASE Tx!Overflow
  <2>1. Rx!Overflow
    BY <1>11 DEF Tx!Overflow, Rx!Overflow, Tx!Minus, Rx!Minus
  <2> QED
    BY <2>1 DEF UartChange, Rx!Overflow
<1>12. CASE Tx!RxRequest
  <2>1. Rx!RxRequest
    BY <1>12 DEF Tx!RxRequest, Rx!RxRequest, Tx!Least, Rx!Least
  <2> QED
    BY <2>1 DEF UartChange, Rx!RxRequest
<1>13. CASE Tx!Copy
  <2>1. Rx!Copy
    BY <1>13 DEF Tx!Copy, Rx!Copy
  <2> QED
    BY <2>1 DEF UartChange, Rx!Copy
<1>14. CASE Tx!TxIndices
  <2>1. Rx!TxIndices
    BY <1>14 DEF Tx!TxIndices, Rx!TxIndices, Tx!Minus, Rx!Minus
  <2> QED
    BY <2>1 DEF UartChange, Rx!TxIndices
<1>15. CASE Tx!TxCount
  <2>1. Rx!TxCount
    BY <1>15 DEF Tx!TxCount, Rx!TxCount
  <2> QED
    BY <2>1 DEF UartChange, Rx!TxCount
<1>16. CASE Tx!TxActive
  <2>1. Rx!TxActive
    BY <1>16 DEF Tx!TxActive, Rx!TxActive, Tx!Minus, Rx!Minus
  <2> QED
    BY <2>1 DEF UartChange, Rx!TxActive
<1>17. CASE Tx!PutData
  <2>1. Rx!PutData
    BY <1>17 DEF Tx!PutData, Rx!PutData, Tx!Minus, Rx!Minus, Tx!Least, Rx!Least
  <2> QED
    BY <2>1 DEF UartChange, Rx!PutData
<1>18. CASE Tx!StartTransmit
  <2>1. Rx!StartTransmit
    BY <1>18 DEF Tx!StartTransmit, Rx!StartTransmit, Tx!UART_Transmit, Rx!UART_Transmit,
           Tx!Minus, Rx!Minus, Tx!Least, Rx!Least
  <2> QED
    BY <2>1 DEF UartChange, Rx!StartTransmit
<1>19. CASE Tx!Answer
  <2>1. Rx!Answer
    BY <1>19 DEF Tx!Answer, Rx!Answer
  <2> QED
    BY <2>1 DEF UartChange, Rx!Answer
<1> QED
  BY <1>1, <1>2, <1>3, <1>4, <1>5, <1>6, <1>7, <1>8, <1>9, <1>10, <1>11, <1>12, <1>13, <1>14, <1>15, <1>16, <1>17,
     <1>18, <1>19 DEF Tx!Next

LEMMA UartSteps ==
    ASSUME Next, RxQuiet
    PROVE  (UartChange \/ UNCHANGED dapUart) /\ RxQuiet'
<1>1. CASE part = "tx"
  <2>1. Tx!Next /\ part' = part
    BY <1>1 DEF Next
  <2> QED
    BY <1>1, <2>1, TxSteps DEF RxQuiet
<1>2. CASE part = "rx"
  <2>1. Rx!Next /\ part' = part
    BY <1>2 DEF Next
  <2>2. CASE Rx!UART_Control
    <3>1. Controlled
      BY <2>2 DEF Rx!UART_Control, Controlled
    <3> QED
      BY <1>2, <2>1, <3>1 DEF UartChange, RxQuiet
  <2>3. CASE Rx!UART_Transfer
    <3>1. Transferred
      BY <2>3, PartsAssumption DEF PartsAssumption, Rx!UartAssumption, Rx!UART_Transfer, Transferred
    <3> QED
      BY <1>2, <2>1, <3>1 DEF UartChange, RxQuiet
  <2> QED
    BY <1>2, <2>1, <2>2, <2>3 DEF Rx!Next, UartChange, RxQuiet
<1>3. CASE part \notin { "rx", "tx" }
  <2>1. UNCHANGED << part, dapUart >>
    BY <1>3 DEF Next
  <2> QED
    BY <1>3, <2>1 DEF RxQuiet
<1> QED
  BY <1>1, <1>2, <1>3

(* What has been torn stays so. *)
LEMMA UartTornStays ==
    ASSUME UartChange \/ UNCHANGED dapUart, ~uartTorn'
    PROVE  ~uartTorn
BY DEF UartChange, dapUart, Rx!ReceiveByte, Rx!SendByte, Rx!LineError, Rx!UART_Transport, Rx!UART_Configure, Controlled,
       Rx!UART_Status, Transferred, Rx!RxIndices, Rx!RxCount, Rx!Overflow, Rx!RxRequest, Rx!Copy, Rx!TxIndices, Rx!TxCount,
       Rx!TxActive, Rx!PutData, Rx!StartTransmit, Rx!Answer

(* Where a byte lies in a buffer, and what an index of it shows. *)
TxAt(k) == k % DAP_UART_TX_BUFFER_SIZE
RxAt(k) == k % DAP_UART_RX_BUFFER_SIZE
Wrapped(k) == k % IndexWord

LEMMA TxSizes ==
    DAP_UART_TX_BUFFER_SIZE \in Nat \ {0} /\ IndexWord \in Nat \ {0} /\ IndexWord >= 2 * DAP_UART_TX_BUFFER_SIZE
BY UartSizes

LEMMA RxSizes ==
    /\ UART_RX_BLOCK_SIZE \in Nat \ {0} /\ DAP_UART_RX_BUFFER_SIZE \in Nat \ {0}
    /\ DAP_UART_RX_BUFFER_SIZE > 2 * UART_RX_BLOCK_SIZE
    /\ IndexWord \in Nat \ {0} /\ IndexWord > DAP_UART_RX_BUFFER_SIZE
    /\ MaxReceived \in Nat /\ BytesPerCommand \in Nat
BY UartSizes

LEMMA TxAtIs ==
    ASSUME NEW k \in Int
    PROVE  TxAt(k) \in 0..DAP_UART_TX_BUFFER_SIZE - 1 /\ TxAt(k) \in Int
BY TxSizes DEF TxAt

LEMMA RxAtIs ==
    ASSUME NEW k \in Int
    PROVE  RxAt(k) \in 0..DAP_UART_RX_BUFFER_SIZE - 1 /\ RxAt(k) \in Int
BY RxSizes DEF RxAt

LEMMA TxAtNext ==
    ASSUME NEW k \in Int, NEW g \in Nat, TxAt(k) + g < DAP_UART_TX_BUFFER_SIZE
    PROVE  TxAt(k + g) = TxAt(k) + g
BY TxSizes, ModNext DEF TxAt

LEMMA RxAtNext ==
    ASSUME NEW k \in Int, NEW g \in Nat, RxAt(k) + g < DAP_UART_RX_BUFFER_SIZE
    PROVE  RxAt(k + g) = RxAt(k) + g
BY RxSizes, ModNext DEF RxAt

LEMMA RxAtApart ==
    ASSUME NEW k \in Int, NEW l \in Int, l - k \in 1..DAP_UART_RX_BUFFER_SIZE - 1
    PROVE  RxAt(k) # RxAt(l)
<1> DEFINE r == DAP_UART_RX_BUFFER_SIZE
<1>1. r \in Nat \ {0} /\ l - k \in 0..r - 1
  BY RxSizes
<1> HIDE DEF r
<1>2. ((l % r) - (k % r) + r) % r = l - k
  BY <1>1, ModDiff
<1>3. r % r = 0
  <2>1. r = r * 1 + 0 /\ 0 \in 0..r - 1
    BY <1>1
  <2> QED
    BY <1>1, <2>1, ModIs
<1>4. ASSUME l % r = k % r
      PROVE  FALSE
  <2>1. PICK x \in Int : x = k % r
    BY <1>1
  <2>2. (x - x + r) % r = l - k
    BY <1>2, <1>4, <2>1
  <2>3. x - x + r = r
    BY <1>1, <2>1
  <2> QED
    BY <1>3, <2>2, <2>3
<1> QED
  BY <1>4 DEF RxAt, r

LEMMA TxAtWrapped ==
    ASSUME NEW k \in Int
    PROVE  Wrapped(k) % DAP_UART_TX_BUFFER_SIZE = TxAt(k)
<1>1. DAP_UART_TX_BUFFER_SIZE \in Nat \ {0} /\ IndexWord \in Nat \ {0} /\ IndexWord % DAP_UART_TX_BUFFER_SIZE = 0
  BY UartSizes
<1>2. (k % IndexWord) % DAP_UART_TX_BUFFER_SIZE = k % DAP_UART_TX_BUFFER_SIZE
  BY <1>1, ModFine
<1> QED
  BY <1>2 DEF Wrapped, TxAt

LEMMA WrappedStep ==
    ASSUME NEW k \in Int, NEW n \in Int
    PROVE  (Wrapped(k) + n) % IndexWord = Wrapped(k + n) /\ Wrapped(k) \in 0..IndexWord - 1
<1>1. IndexWord \in Nat \ {0}
  BY TxSizes
<1>2. ((k % IndexWord) + n) % IndexWord = (k + n) % IndexWord
  BY <1>1, ModStep
<1>3. k % IndexWord \in 0..IndexWord - 1
  BY <1>1
<1> QED
  BY <1>2, <1>3 DEF Wrapped

LEMMA WrappedSmall ==
    ASSUME NEW k \in 0..IndexWord - 1
    PROVE  k % IndexWord = k /\ Wrapped(k) = k
<1>1. IndexWord \in Nat \ {0} /\ k = IndexWord * 0 + k /\ k \in Int
  BY TxSizes
<1>2. k % IndexWord = k
  BY <1>1, ModIs
<1> QED
  BY <1>2 DEF Wrapped

(* PutData finds the place of a byte relative to the index. *)
LEMMA TxAtPut ==
    ASSUME NEW i \in Int, NEW k \in Int, NEW d \in 0..DAP_UART_TX_BUFFER_SIZE - 1, NEW e \in Int,
           k - i = d + DAP_UART_TX_BUFFER_SIZE * e
    PROVE  (TxAt(k) - Wrapped(i) + IndexWord) % DAP_UART_TX_BUFFER_SIZE = d
<1> DEFINE s == DAP_UART_TX_BUFFER_SIZE
           w == IndexWord
<1>1. s \in Nat \ {0} /\ w \in Nat \ {0} /\ d \in 0..s - 1
  BY UartSizes
<1>0. w % s = 0 /\ s \in Nat \ {0} /\ w \in Nat \ {0}
  BY UartSizes
<1>10. k - i = d + s * e
  OBVIOUS
<1> HIDE DEF s, w
<1>2. PICK q \in Int, r \in 0..s - 1 : k = s * q + r /\ r = k % s
  <2>1. k \div s \in Int /\ k % s \in 0..s - 1 /\ k = s * (k \div s) + (k % s)
    BY <1>1
  <2> QED
    BY <2>1
<1>3. PICK m \in Int : w = s * m
  <2>1. PICK m \in Int : m = w \div s
    BY <1>0
  <2>2. w = s * m + (w % s)
    BY <1>0, <2>1
  <2>3. w = s * m
    BY <1>0, <2>2
  <2> QED
    BY <2>3
<1>4. PICK u \in Int, x \in 0..w - 1 : i = w * u + x /\ x = i % w
  <2>1. i \div w \in Int /\ i % w \in 0..w - 1 /\ i = w * (i \div w) + (i % w)
    BY <1>1
  <2> QED
    BY <2>1
<1>5. PICK t \in Int : t = m * u
  OBVIOUS
<1>6. w * u = s * t
  BY <1>1, <1>3, <1>5
<1>7. k = s * q + r /\ i = s * t + x
  <2>1. k = s * q + r
    BY <1>2
  <2>2. i = w * u + x
    BY <1>4
  <2> QED
    BY <1>6, <2>1, <2>2
<1>8. PICK f \in Int : f = e - q + t + m
  OBVIOUS
<1>9. s * f = s * e - s * q + s * t + s * m
  BY <1>1, <1>8
<1>11. r - x + w = s * f + d /\ r - x + w \in Int
  BY <1>1, <1>3, <1>7, <1>9, <1>10
<1>12. (r - x + w) % s = d
  BY <1>1, <1>11, ModIs
<1> QED
  BY <1>2, <1>4, <1>12 DEF TxAt, Wrapped, s, w

(* The bytes to send: of all that have ever been put into the buffer, i in *)
(* number, the first o have been sent in blocks.                           *)
SentOf == IF UartTransmitActive THEN GetTxCount ELSE 0

TxTyped ==
    /\ UartTransmitEnabled \in BOOLEAN /\ UartTransmitActive \in BOOLEAN
    /\ UartTxIndexI \in Int /\ UartTxIndexO \in Int /\ UartTxNum \in Int /\ GetTxCount \in Int
    /\ tx_num \in Int /\ num \in Int /\ accepted \in Int /\ request \in Nat \X Nat
    /\ UartTxBuf \in [ 0..DAP_UART_TX_BUFFER_SIZE - 1 -> Int ]

TxIndex(i, o) == UartTxIndexI = Wrapped(i) /\ UartTxIndexO = Wrapped(o)
TxSpan(i, o) == o <= i /\ i - o - SentOf <= DAP_UART_TX_BUFFER_SIZE
TxBlock(i, o) ==
    /\ UartTransmitActive =>
        /\ 0 <= GetTxCount /\ GetTxCount < UartTxNum
        /\ UartTxNum <= i - o /\ UartTxNum <= DAP_UART_TX_BUFFER_SIZE - TxAt(o)
    /\ uartPc # "transmit" /\ o < i => UartTransmitActive
TxBytes(i, o) ==
    /\ onWire = accepted - (i - o) + SentOf
    /\ \A k \in o + SentOf .. i - 1 : UartTxBuf[TxAt(k)] = accepted - i + k + 1
TxStage(i, o) ==
    /\ uartPc = "tx count" => tx_num = i - o
    /\ uartPc = "tx active" =>
        /\ tx_num = i - o
        /\ UartTransmitActive => 0 <= num /\ num <= GetTxCount /\ i - o - num <= DAP_UART_TX_BUFFER_SIZE
    /\ uartPc = "put" => i - o - SentOf <= tx_num /\ tx_num <= DAP_UART_TX_BUFFER_SIZE
TxHeld(i, o) == TxIndex(i, o) /\ TxSpan(i, o) /\ TxBlock(i, o) /\ TxBytes(i, o) /\ TxStage(i, o)

TxInv == TxTyped /\ (UartTransmitEnabled /\ ~uartTorn => \E i \in Nat, o \in Nat : TxHeld(i, o))

LEMMA MinusIs ==
    ASSUME NEW i \in Int, NEW o \in Int, i - o \in 0..IndexWord - 1
    PROVE  Rx!Minus(Wrapped(i), Wrapped(o)) = i - o
<1>1. IndexWord \in Nat \ {0}
  BY UartSizes
<1>2. ((i % IndexWord) - (o % IndexWord) + IndexWord) % IndexWord = i - o
  BY <1>1, ModDiff
<1> QED
  BY <1>2 DEF Rx!Minus, Wrapped

LEMMA MinusSmall ==
    ASSUME NEW a \in Int, NEW b \in Int, a - b \in 0..IndexWord - 1
    PROVE  Rx!Minus(a, b) = a - b
<1>1. IndexWord \in Nat \ {0}
  BY UartSizes
<1>2. a - b + IndexWord = IndexWord * 1 + (a - b) /\ a - b + IndexWord \in Int
  BY <1>1
<1>3. (a - b + IndexWord) % IndexWord = a - b
  BY <1>1, <1>2, ModIs
<1> QED
  BY <1>3 DEF Rx!Minus

LEMMA MinusInt ==
    ASSUME NEW a \in Int, NEW b \in Int
    PROVE  Rx!Minus(a, b) \in 0..IndexWord - 1 /\ Rx!Minus(a, b) \in Int
<1>1. a - b + IndexWord \in Int /\ IndexWord \in Nat \ {0}
  BY UartSizes
<1>2. (a - b + IndexWord) % IndexWord \in 0..IndexWord - 1
  BY <1>1
<1> QED
  BY <1>1, <1>2 DEF Rx!Minus

LEMMA LeastIs ==
    ASSUME NEW a \in Int, NEW b \in Int
    PROVE  Rx!Least(a, b) \in { a, b } /\ Rx!Least(a, b) <= a /\ Rx!Least(a, b) <= b /\ Rx!Least(a, b) \in Int
BY DEF Rx!Least

LEMMA TxTypesStep ==
    ASSUME TxTyped, UartChange
    PROVE  TxTyped'
<1> USE DEF Rx!settings, Rx!rx, Rx!tx, Rx!command, Rx!answer
<1>1. CASE Rx!ReceiveByte \/ Rx!LineError \/ Rx!UART_Configure \/ Rx!RxCount \/ Rx!Overflow \/ Rx!RxRequest \/ Rx!Copy
          \/ Rx!RxIndices
  BY <1>1 DEF TxTyped, Rx!ReceiveByte, Rx!LineError, Rx!UART_Configure, Rx!RxCount, Rx!Overflow, Rx!RxRequest, Rx!Copy,
              Rx!RxIndices
<1>2. ASSUME NEW o \in Int, Rx!UART_Transmit(o)
      PROVE  UartTransmitActive' \in BOOLEAN /\ UartTxNum' \in Int /\ GetTxCount' \in Int
  <2>1. PICK n \in Int : n = Rx!Minus(UartTxIndexI, o)
    BY MinusInt DEF TxTyped
  <2>2. PICK l \in Int : l = Rx!Least(n, DAP_UART_TX_BUFFER_SIZE - (o % DAP_UART_TX_BUFFER_SIZE))
    <3>1. DAP_UART_TX_BUFFER_SIZE - (o % DAP_UART_TX_BUFFER_SIZE) \in Int
      BY TxSizes
    <3> QED
      BY <3>1, LeastIs
  <2>3. \/ UartTransmitActive' = FALSE /\ UartTxNum' = UartTxNum /\ GetTxCount' = GetTxCount
        \/ UartTxNum' = l /\ UartTransmitActive' = TRUE /\ GetTxCount' = 0
    BY <1>2, <2>1, <2>2 DEF Rx!UART_Transmit
  <2>4. UartTxNum \in Int /\ GetTxCount \in Int
    BY DEF TxTyped
  <2>5. UartTransmitActive' \in BOOLEAN
    BY <2>3
  <2>6. UartTxNum' \in { UartTxNum, l } /\ GetTxCount' \in { GetTxCount, 0 }
    BY <2>3
  <2> QED
    BY <2>4, <2>5, <2>6
<1>3. CASE Rx!SendByte
  <2>1. (UartTxIndexO + UartTxNum) % IndexWord \in Int
    BY UartSizes DEF TxTyped
  <2>2. CASE GetTxCount + 1 = UartTxNum
    <3>1. UartTxIndexO' = (UartTxIndexO + UartTxNum) % IndexWord /\ Rx!UART_Transmit((UartTxIndexO + UartTxNum) % IndexWord)
      BY <1>3, <2>2 DEF Rx!SendByte
    <3>2. UNCHANGED << UartTransmitEnabled, UartTxIndexI, tx_num, num, accepted, request, UartTxBuf >>
      BY <1>3 DEF Rx!SendByte
    <3> QED
      BY <1>2, <2>1, <3>1, <3>2 DEF TxTyped
  <2>3. CASE GetTxCount + 1 # UartTxNum
    <3>1. /\ GetTxCount' = GetTxCount + 1
          /\ UNCHANGED << UartTransmitEnabled, UartTransmitActive, UartTxIndexI, UartTxIndexO, UartTxNum, tx_num, num, accepted,
                          request, UartTxBuf >>
      BY <1>3, <2>3 DEF Rx!SendByte
    <3> QED
      BY <3>1 DEF TxTyped
  <2> QED
    BY <2>2, <2>3
<1>4. CASE Rx!StartTransmit
  <2>1. UNCHANGED << UartTxNum, GetTxCount, UartTransmitActive >> \/ Rx!UART_Transmit(UartTxIndexO)
    BY <1>4 DEF Rx!StartTransmit
  <2>2. UartTransmitActive' \in BOOLEAN /\ UartTxNum' \in Int /\ GetTxCount' \in Int
    BY <1>2, <2>1 DEF TxTyped
  <2>3. UNCHANGED << UartTransmitEnabled, UartTxIndexI, UartTxIndexO, tx_num, num, accepted, request, UartTxBuf >>
    BY <1>4 DEF Rx!StartTransmit
  <2> QED
    BY <2>2, <2>3 DEF TxTyped
<1>5. CASE Rx!UART_Transport
  <2>1. UartTransmitEnabled' \in BOOLEAN /\ UartTransmitActive' \in BOOLEAN
    BY <1>5 DEF Rx!UART_Transport, Rx!TxCleared, Rx!Transmit_Disable
  <2>2. /\ UNCHANGED << tx_num, num, accepted, request, UartTxBuf, GetTxCount >>
        /\ UartTxIndexI' \in { 0, UartTxIndexI } /\ UartTxIndexO' \in { 0, UartTxIndexO } /\ UartTxNum' \in { 0, UartTxNum }
    BY <1>5 DEF Rx!UART_Transport, Rx!TxCleared
  <2> QED
    BY <2>1, <2>2 DEF TxTyped
<1>6. CASE Controlled
  <2>1. PICK control \in RxControls \cup TxControls : Rx!ControlTx(control)
    BY <1>6 DEF Controlled
  <2>2. UartTransmitEnabled' \in BOOLEAN
    BY <2>1 DEF Rx!ControlTx, TxTyped
  <2>3. UNCHANGED << tx_num, num, request >>
    BY <1>6 DEF Controlled
  <2>4. UartTransmitActive' \in BOOLEAN
    BY <2>1 DEF Rx!ControlTx, TxTyped, Rx!TxCleared, Rx!Transmit_Disable
  <2>5. /\ UNCHANGED << accepted, UartTxBuf, GetTxCount >>
        /\ UartTxIndexI' \in { 0, UartTxIndexI } /\ UartTxIndexO' \in { 0, UartTxIndexO } /\ UartTxNum' \in { 0, UartTxNum }
    BY <2>1 DEF Rx!ControlTx, Rx!TxCleared
  <2> QED
    BY <2>2, <2>3, <2>4, <2>5 DEF TxTyped
<1>7. CASE Rx!UART_Status
  BY <1>7 DEF TxTyped, Rx!UART_Status, Rx!Begin
<1>8. CASE Transferred
  <2>1. PICK read \in Nat, write \in Nat : Rx!Begin("rx indices", << read, write >>)
    BY <1>8 DEF Transferred
  <2>3. request' = << read, write >>
    BY <2>1 DEF Rx!Begin
  <2>2. UNCHANGED << UartTransmitEnabled, UartTransmitActive, UartTxIndexI, UartTxIndexO, UartTxNum, GetTxCount, tx_num, num,
                     accepted, UartTxBuf >>
    BY <1>8 DEF Transferred
  <2> QED
    BY <2>3, <2>2 DEF TxTyped
<1>9. CASE Rx!TxIndices
  <2>1. Rx!Minus(UartTxIndexI, UartTxIndexO) \in Int
    BY MinusInt DEF TxTyped
  <2> QED
    BY <1>9, <2>1 DEF TxTyped, Rx!TxIndices
<1>10. CASE Rx!TxCount
  BY <1>10 DEF TxTyped, Rx!TxCount
<1>11. CASE Rx!TxActive
  <2>1. tx_num' \in { Rx!Minus(tx_num, num), tx_num } /\ num' = 0
    BY <1>11 DEF Rx!TxActive
  <2>2. tx_num' \in Int
    BY <2>1, MinusInt DEF TxTyped
  <2>3. UNCHANGED << UartTransmitEnabled, UartTransmitActive, UartTxIndexI, UartTxIndexO, UartTxNum, GetTxCount, accepted,
                     request, UartTxBuf >>
    BY <1>11 DEF Rx!TxActive
  <2> QED
    BY <2>1, <2>2, <2>3 DEF TxTyped
<1>12. CASE Rx!PutData
  <2> DEFINE n == Rx!Least(request[2], Rx!Minus(DAP_UART_TX_BUFFER_SIZE, tx_num))
             At(i) == (i - UartTxIndexI + IndexWord) % DAP_UART_TX_BUFFER_SIZE
  <2>1. n \in Int
    <3>1. Rx!Minus(DAP_UART_TX_BUFFER_SIZE, tx_num) \in Int /\ request[2] \in Int
      BY MinusInt, UartSizes DEF TxTyped
    <3> QED
      BY <3>1, LeastIs
  <2>2. \A i \in 0..DAP_UART_TX_BUFFER_SIZE - 1 : At(i) \in Int
    BY UartSizes DEF TxTyped
  <2>3. (UartTxIndexI + n) % IndexWord \in Int
    BY <2>1, UartSizes DEF TxTyped
  <2>4. /\ UartTxBuf' = [ i \in DOMAIN UartTxBuf |-> IF At(i) < n THEN accepted + At(i) + 1 ELSE UartTxBuf[i] ]
        /\ UartTxIndexI' = (UartTxIndexI + n) % IndexWord /\ accepted' = accepted + n
        /\ UNCHANGED << UartTransmitEnabled, UartTransmitActive, UartTxIndexO, UartTxNum, GetTxCount, tx_num, num, request >>
    BY <1>12 DEF Rx!PutData
  <2> HIDE DEF n, At
  <2>5. accepted \in Int /\ UartTxBuf \in [ 0..DAP_UART_TX_BUFFER_SIZE - 1 -> Int ]
    BY DEF TxTyped
  <2>6. UartTxBuf' \in [ 0..DAP_UART_TX_BUFFER_SIZE - 1 -> Int ]
    BY <2>2, <2>4, <2>5
  <2> QED
    BY <2>1, <2>3, <2>4, <2>6 DEF TxTyped
<1>13. CASE Rx!Answer
  BY <1>13 DEF TxTyped, Rx!Answer
<1> QED
  BY <1>1, <1>3, <1>4, <1>5, <1>6, <1>7, <1>8, <1>9, <1>10, <1>11, <1>12, <1>13 DEF UartChange

(* The indices are less than a word apart. *)
LEMMA TxApart ==
    ASSUME TxTyped, NEW i \in Nat, NEW o \in Nat, TxHeld(i, o)
    PROVE  /\ SentOf \in Nat /\ SentOf <= i - o /\ i - o \in 0..IndexWord - 1
           /\ Rx!Minus(UartTxIndexI, UartTxIndexO) = i - o
<1>1. TxAt(o) \in 0..DAP_UART_TX_BUFFER_SIZE - 1
  BY TxAtIs
<1>4. o <= i /\ i - o - SentOf <= DAP_UART_TX_BUFFER_SIZE
  BY DEF TxHeld, TxSpan
<1>2. SentOf \in Nat /\ SentOf <= i - o /\ SentOf < DAP_UART_TX_BUFFER_SIZE
  <2>1. CASE UartTransmitActive
    <3>1. PICK r \in Nat : r = TxAt(o)
      BY <1>1
    <3>2. UartTxNum <= DAP_UART_TX_BUFFER_SIZE - r
      BY <2>1, <3>1 DEF TxHeld, TxBlock
    <3>3. 0 <= GetTxCount /\ GetTxCount < UartTxNum /\ UartTxNum <= i - o
      BY <2>1 DEF TxHeld, TxBlock
    <3>4. SentOf = GetTxCount /\ GetTxCount \in Int /\ UartTxNum \in Int
      BY <2>1 DEF SentOf, TxTyped
    <3> QED
      BY <3>2, <3>3, <3>4, TxSizes
  <2>2. CASE ~UartTransmitActive
    <3>1. SentOf = 0
      BY <2>2 DEF SentOf
    <3> QED
      BY <1>4, <3>1, TxSizes
  <2> QED
    BY <2>1, <2>2
<1>3. i - o \in 0..IndexWord - 1
  BY <1>2, <1>4, TxSizes
<1> QED
  BY <1>2, <1>3, MinusIs DEF TxHeld, TxIndex

(* UART_Transmit sends what is there up to the end of the buffer. *)
LEMMA TransmitBlock ==
    ASSUME NEW i \in Nat, NEW o \in Nat, i - o \in 0..IndexWord - 1,
           UartTxIndexI = Wrapped(i), Rx!UART_Transmit(Wrapped(o))
    PROVE  /\ o = i => UartTransmitActive' = FALSE
           /\ o < i => /\ UartTransmitActive' = TRUE /\ GetTxCount' = 0 /\ 0 < UartTxNum' /\ UartTxNum' <= i - o
                       /\ UartTxNum' <= DAP_UART_TX_BUFFER_SIZE - TxAt(o)
<1>1. Rx!Minus(UartTxIndexI, Wrapped(o)) = i - o
  BY MinusIs
<1>2. Wrapped(o) % DAP_UART_TX_BUFFER_SIZE = TxAt(o)
  BY TxAtWrapped
<1>3. DAP_UART_TX_BUFFER_SIZE - TxAt(o) \in Int /\ DAP_UART_TX_BUFFER_SIZE - TxAt(o) > 0
  BY TxAtIs, TxSizes
<1>4. IF i - o = 0 THEN UartTransmitActive' = FALSE
      ELSE UartTxNum' = Rx!Least(i - o, DAP_UART_TX_BUFFER_SIZE - TxAt(o)) /\ UartTransmitActive' = TRUE /\ GetTxCount' = 0
  BY <1>1, <1>2 DEF Rx!UART_Transmit
<1>5. CASE o = i
  BY <1>4, <1>5
<1>6. CASE o < i
  <2>1. UartTxNum' = Rx!Least(i - o, DAP_UART_TX_BUFFER_SIZE - TxAt(o)) /\ UartTransmitActive' = TRUE /\ GetTxCount' = 0
    BY <1>4, <1>6
  <2>2. UartTxNum' \in { i - o, DAP_UART_TX_BUFFER_SIZE - TxAt(o) } /\ UartTxNum' <= i - o
        /\ UartTxNum' <= DAP_UART_TX_BUFFER_SIZE - TxAt(o)
    BY <1>3, <2>1, LeastIs
  <2>3. 0 < UartTxNum'
    BY <1>3, <1>6, <2>2
  <2> QED
    BY <1>6, <2>1, <2>2, <2>3
<1> QED
  BY <1>5, <1>6

(* The next byte goes out, and with the last of a block the next block. *)
LEMMA TxByte ==
    ASSUME TxTyped, NEW i \in Nat, NEW o \in Nat, TxHeld(i, o), ~uartTorn', Rx!SendByte
    PROVE  onWire' = onWire + 1 /\ \E p \in Nat : TxHeld(i, p)'
<1> DEFINE s == DAP_UART_TX_BUFFER_SIZE
<1>0. UartTransmitActive
  BY DEF Rx!SendByte
<1>1. UNCHANGED << uartPc, tx_num, num, accepted, UartTxIndexI, UartTxBuf >>
  BY DEF Rx!SendByte, Rx!command
<1>10. GetTxCount + 1 = UartTxNum => uartPc \notin { "tx count", "tx active" }
  BY DEF Rx!SendByte
<1>11. UartTxNum <= s - TxAt(o)
  BY <1>0 DEF TxHeld, TxBlock
<1>2. SentOf = GetTxCount /\ GetTxCount \in Nat /\ UartTxNum \in Nat /\ GetTxCount < UartTxNum /\ UartTxNum <= i - o
  <2>1. SentOf = GetTxCount
    BY <1>0 DEF SentOf
  <2>2. 0 <= GetTxCount /\ GetTxCount < UartTxNum /\ UartTxNum <= i - o
    BY <1>0 DEF TxHeld, TxBlock
  <2> QED
    BY <2>1, <2>2 DEF TxTyped
<1>3. s \in Nat \ {0} /\ IndexWord \in Nat /\ i - o \in 0..IndexWord - 1
  BY TxApart, TxSizes
<1>4. (UartTxIndexO % s) + GetTxCount = TxAt(o + GetTxCount)
  <2>1. UartTxIndexO % s = TxAt(o)
    BY TxAtWrapped DEF TxHeld, TxIndex
  <2>3. PICK r \in Int : r = TxAt(o)
    BY TxAtIs
  <2>4. UartTxNum <= s - r
    BY <1>11, <2>3
  <2>5. r + GetTxCount < s
    BY <1>2, <1>3, <2>4
  <2>2. TxAt(o) + GetTxCount < s
    BY <2>3, <2>5
  <2> QED
    BY <1>2, <2>1, <2>2, TxAtNext
<1>9. onWire' = UartTxBuf[TxAt(o + GetTxCount)]
  BY <1>4 DEF Rx!SendByte
<1>12. \A k \in o + GetTxCount .. i - 1 : UartTxBuf[TxAt(k)] = accepted - i + k + 1
  BY <1>2 DEF TxHeld, TxBytes
<1>14. o <= i /\ i - o - SentOf <= s
  BY DEF TxHeld, TxSpan
<1>5. onWire = accepted - (i - o) + GetTxCount /\ accepted \in Int /\ onWire \in Int
  BY <1>2 DEF TxHeld, TxBytes, TxTyped
<1>6. onWire' = onWire + 1
  <2>1. o + GetTxCount \in o + GetTxCount .. i - 1
    BY <1>2
  <2>2. onWire' = accepted - i + (o + GetTxCount) + 1
    BY <1>2, <1>5, <1>9, <1>12, <2>1
  <2> QED
    BY <1>2, <1>5, <2>2
<1>7. CASE GetTxCount + 1 # UartTxNum
  <2>1. GetTxCount' = GetTxCount + 1 /\ UNCHANGED << UartTxNum, UartTxIndexO >>
    BY <1>7 DEF Rx!SendByte
  <2>7. UartTransmitActive'
    BY <1>0, <1>7 DEF Rx!SendByte
  <2>2. SentOf' = GetTxCount + 1
    BY <2>1, <2>7 DEF SentOf
  <2>8. TxSpan(i, o)'
    <3>1. i - o - (GetTxCount + 1) <= s
      BY <1>2, <1>3, <1>14
    <3> QED
      BY <1>14, <2>2, <3>1 DEF TxSpan
  <2>3. TxIndex(i, o)'
    BY <1>1, <2>1 DEF TxHeld, TxIndex
  <2>4. TxBlock(i, o)'
    <3>1. 0 <= GetTxCount + 1 /\ GetTxCount + 1 < UartTxNum
      BY <1>2, <1>7
    <3>2. UartTxNum <= i - o
      BY <1>2
    <3> QED
      BY <1>11, <2>1, <2>7, <3>1, <3>2 DEF TxBlock
  <2>5. TxBytes(i, o)'
    <3>1. onWire' = accepted' - (i - o) + SentOf'
      <4>1. onWire + 1 = accepted - (i - o) + (GetTxCount + 1)
        BY <1>2, <1>5
      <4> QED
        BY <1>1, <1>6, <2>2, <4>1
    <3>2. ASSUME NEW k \in o + SentOf' .. i - 1
          PROVE  UartTxBuf'[TxAt(k)] = accepted' - i + k + 1
      <4>1. k \in o + GetTxCount .. i - 1
        BY <1>2, <2>2
      <4> QED
        BY <1>1, <1>12, <4>1
    <3> QED
      BY <3>1, <3>2 DEF TxBytes
  <2>6. TxStage(i, o)'
    <3>1. uartPc = "put" => i - o - (GetTxCount + 1) <= tx_num /\ tx_num <= s
      <4>1. uartPc = "put" => i - o - GetTxCount <= tx_num /\ tx_num <= s
        BY <1>2 DEF TxHeld, TxStage
      <4>2. tx_num \in Int
        BY DEF TxTyped
      <4> QED
        BY <1>2, <4>1, <4>2
    <3>2. /\ uartPc = "tx count" => tx_num = i - o
          /\ uartPc = "tx active" => tx_num = i - o
      BY DEF TxHeld, TxStage
    <3>3. uartPc = "tx active" => 0 <= num /\ num <= GetTxCount + 1 /\ i - o - num <= s
      <4>1. uartPc = "tx active" => 0 <= num /\ num <= GetTxCount /\ i - o - num <= s
        BY <1>0 DEF TxHeld, TxStage
      <4>2. num \in Int
        BY DEF TxTyped
      <4>3. num <= GetTxCount => num <= GetTxCount + 1
        BY <1>2, <4>2
      <4> QED
        BY <4>1, <4>3
    <3> QED
      BY <1>1, <2>1, <2>2, <3>1, <3>2, <3>3 DEF TxStage
  <2> QED
    BY <1>6, <2>8, <2>3, <2>4, <2>5, <2>6 DEF TxHeld
<1>8. CASE GetTxCount + 1 = UartTxNum
  <2>1. UartTxIndexO' = (UartTxIndexO + UartTxNum) % IndexWord /\ Rx!UART_Transmit((UartTxIndexO + UartTxNum) % IndexWord)
    BY <1>8 DEF Rx!SendByte
  <2>2. PICK p \in Nat : p = o + UartTxNum
    BY <1>2
  <2>3. (UartTxIndexO + UartTxNum) % IndexWord = Wrapped(p)
    BY <1>2, <2>2, WrappedStep DEF TxHeld, TxIndex
  <2>4. UartTxIndexI = Wrapped(i)
    BY DEF TxHeld, TxIndex
  <2>5. i - p \in 0..IndexWord - 1
    BY <1>2, <1>3, <2>2
  <2>6. /\ p = i => UartTransmitActive' = FALSE
        /\ p < i => /\ UartTransmitActive' = TRUE /\ GetTxCount' = 0 /\ 0 < UartTxNum' /\ UartTxNum' <= i - p
                    /\ UartTxNum' <= s - TxAt(p)
    BY <2>1, <2>3, <2>4, <2>5, TransmitBlock
  <2>7. SentOf' = 0 /\ p <= i
    BY <2>5, <2>6 DEF SentOf
  <2>12. TxSpan(i, p)'
    <3>1. i - p - 0 <= s
      BY <1>2, <1>3, <1>8, <1>14, <2>2
    <3> QED
      BY <2>7, <3>1 DEF TxSpan
  <2>8. TxIndex(i, p)'
    BY <1>1, <2>1, <2>3, <2>4 DEF TxIndex
  <2>9. TxBlock(i, p)'
    BY <2>6, <2>7 DEF TxBlock
  <2>10. TxBytes(i, p)'
    <3>1. onWire' = accepted' - (i - p) + SentOf'
      <4>1. onWire + 1 = accepted - (i - p) + 0
        BY <1>2, <1>5, <1>8, <2>2
      <4> QED
        BY <1>1, <1>6, <2>7, <4>1
    <3>2. ASSUME NEW k \in p + SentOf' .. i - 1
          PROVE  UartTxBuf'[TxAt(k)] = accepted' - i + k + 1
      <4>1. k \in o + GetTxCount .. i - 1
        BY <1>2, <2>2, <2>7
      <4> QED
        BY <1>1, <1>12, <4>1
    <3> QED
      BY <3>1, <3>2 DEF TxBytes
  <2>11. TxStage(i, p)'
    <3>1. uartPc = "put" => i - p - 0 <= tx_num /\ tx_num <= s
      <4>1. uartPc = "put" => i - o - GetTxCount <= tx_num /\ tx_num <= s
        BY <1>2 DEF TxHeld, TxStage
      <4>2. tx_num \in Int
        BY DEF TxTyped
      <4> QED
        BY <1>2, <2>2, <4>1, <4>2
    <3> QED
      BY <1>1, <1>8, <1>10, <2>7, <3>1 DEF TxStage
  <2> QED
    BY <1>6, <2>12, <2>8, <2>9, <2>10, <2>11 DEF TxHeld
<1> QED
  BY <1>7, <1>8

(* What there is no room for is left out, and what waits stays. *)
LEMMA TxPut ==
    ASSUME TxTyped, NEW i \in Nat, NEW o \in Nat, TxHeld(i, o), Rx!PutData
    PROVE  \E p \in Nat : TxHeld(p, o)'
<1> DEFINE s == DAP_UART_TX_BUFFER_SIZE
           n == Rx!Least(request[2], Rx!Minus(s, tx_num))
           At(k) == (k - UartTxIndexI + IndexWord) % s
<1>1. /\ uartPc = "put" /\ uartPc' = "transmit"
      /\ accepted' = accepted + n
      /\ UNCHANGED << UartTransmitActive, UartTxIndexO, UartTxNum, GetTxCount, onWire >>
  BY DEF Rx!PutData
<1>13. /\ UartTxBuf' = [ k \in DOMAIN UartTxBuf |-> IF At(k) < n THEN accepted + At(k) + 1 ELSE UartTxBuf[k] ]
       /\ UartTxIndexI' = (UartTxIndexI + n) % IndexWord
  BY DEF Rx!PutData
<1>2. s \in Nat \ {0} /\ IndexWord \in Nat \ {0} /\ IndexWord >= 2 * s
  BY TxSizes
<1>3. i - o - SentOf <= tx_num /\ tx_num <= s /\ tx_num \in Int /\ SentOf \in Nat /\ SentOf <= i - o
  BY <1>1, TxApart DEF TxHeld, TxStage, TxTyped
<1>4. n \in 0..s - tx_num
  <2>1. s - tx_num \in 0..IndexWord - 1 /\ s \in Int
    BY <1>2, <1>3
  <2>2. Rx!Minus(s, tx_num) = s - tx_num
    BY <1>3, <2>1, MinusSmall
  <2>3. request[2] \in Nat
    BY DEF TxTyped
  <2>5. PICK m \in Int : m = s - tx_num
    BY <1>3, <2>1
  <2>6. n = Rx!Least(request[2], m)
    BY <2>2, <2>5
  <2>8. PICK a \in Nat : a = request[2]
    BY <2>3
  <2>9. Rx!Least(a, m) \in { a, m } /\ Rx!Least(a, m) <= m
    BY DEF Rx!Least
  <2>7. n \in { request[2], m } /\ n <= m
    BY <2>6, <2>8, <2>9
  <2>4. n \in { request[2], s - tx_num } /\ n <= s - tx_num
    BY <2>5, <2>7
  <2> QED
    BY <1>3, <1>2, <2>3, <2>4
<1>5. PICK p \in Nat : p = i + n
  BY <1>4, <1>2, <1>3
<1>6. accepted \in Int /\ UartTxBuf \in [ 0..s - 1 -> Int ] /\ UartTxIndexI = Wrapped(i)
  BY DEF TxTyped, TxHeld, TxIndex
<1>7. ASSUME NEW k \in Int, NEW d \in 0..s - 1, NEW e \in Int, k - i = d + s * e
      PROVE  TxAt(k) \in 0..s - 1 /\ At(TxAt(k)) = d
  <2>1. (TxAt(k) - Wrapped(i) + IndexWord) % DAP_UART_TX_BUFFER_SIZE = d
    BY <1>7, TxAtPut
  <2> QED
    BY <1>6, <2>1, TxAtIs
<1> HIDE DEF n, At
<1>8. UartTransmitActive \in BOOLEAN /\ SentOf' = SentOf
  BY <1>1 DEF TxTyped, SentOf
<1>14. o <= i
  BY DEF TxHeld, TxSpan
<1>15. TxSpan(p, o)'
  <2>1. o <= p /\ p - o - SentOf <= s
    BY <1>2, <1>3, <1>4, <1>5, <1>14
  <2> QED
    BY <1>8, <2>1 DEF TxSpan
<1>9. TxIndex(p, o)'
  <2>1. (UartTxIndexI + n) % IndexWord = Wrapped(p)
    BY <1>4, <1>5, <1>6, WrappedStep
  <2> QED
    BY <1>1, <1>13, <2>1 DEF TxHeld, TxIndex
<1>10. TxBlock(p, o)'
  <2>1. i - o <= p - o
    BY <1>4, <1>5
  <2>2. UartTransmitActive => UartTxNum <= p - o
    BY <1>4, <1>5 DEF TxHeld, TxBlock, TxTyped
  <2> QED
    BY <1>1, <2>2 DEF TxHeld, TxBlock
<1>11. TxBytes(p, o)'
  <2>1. onWire = accepted - (i - o) + SentOf
    BY DEF TxHeld, TxBytes
  <2>2. onWire' = accepted' - (p - o) + SentOf'
    BY <1>1, <1>3, <1>4, <1>5, <1>6, <1>8, <2>1
  <2>3. ASSUME NEW k \in o + SentOf' .. p - 1
        PROVE  UartTxBuf'[TxAt(k)] = accepted' - p + k + 1
    <3>1. k \in Int /\ o + SentOf <= k /\ k < p
      BY <1>3, <1>8
    <3>2. CASE k >= i
      <4>1. PICK d \in 0..s - 1 : d = k - i /\ d < n
        <5>1. tx_num >= 0 /\ n <= s
          BY <1>2, <1>3, <1>4
        <5>2. k - i \in 0..s - 1 /\ k - i < n
          BY <1>2, <1>4, <1>5, <3>1, <3>2, <5>1
        <5> QED
          BY <5>2
      <4>2. k - i = d + s * 0
        BY <1>2, <4>1
      <4>3. TxAt(k) \in 0..s - 1 /\ At(TxAt(k)) = d
        BY <1>7, <3>1, <4>2
      <4>4. UartTxBuf'[TxAt(k)] = accepted + d + 1
        BY <1>6, <1>13, <4>1, <4>3
      <4> QED
        BY <1>1, <1>4, <1>5, <1>6, <4>1, <4>4
    <3>3. CASE k < i
      <4>1. PICK d \in 0..s - 1 : d = k - i + s /\ ~(d < n)
        <5>1. i - k <= tx_num
          BY <1>3, <3>1
        <5> QED
          BY <1>2, <1>3, <1>4, <3>1, <3>3, <5>1
      <4>2. k - i = d + s * (-1)
        BY <1>2, <3>1, <4>1
      <4>3. TxAt(k) \in 0..s - 1 /\ At(TxAt(k)) = d
        BY <1>7, <3>1, <4>2
      <4>4. UartTxBuf'[TxAt(k)] = UartTxBuf[TxAt(k)]
        BY <1>6, <1>13, <4>1, <4>3
      <4>5. UartTxBuf[TxAt(k)] = accepted - i + k + 1
        <5>1. k \in o + SentOf .. i - 1
          BY <1>3, <3>1, <3>3
        <5> QED
          BY <5>1 DEF TxHeld, TxBytes
      <4> QED
        BY <1>1, <1>4, <1>5, <1>6, <3>1, <4>4, <4>5
    <3> QED
      BY <3>1, <3>2, <3>3
  <2> QED
    BY <2>2, <2>3 DEF TxBytes
<1>12. TxStage(p, o)'
  BY <1>1 DEF TxStage
<1> QED
  BY <1>15, <1>9, <1>10, <1>11, <1>12 DEF TxHeld

LEMMA TxStart ==
    ASSUME TxTyped, NEW i \in Nat, NEW o \in Nat, TxHeld(i, o), Rx!StartTransmit
    PROVE  TxHeld(i, o)'
<1>1. /\ uartPc = "transmit" /\ uartPc' = "answer"
      /\ UNCHANGED << UartTxIndexI, UartTxIndexO, UartTxBuf, accepted, onWire >>
  BY DEF Rx!StartTransmit
<1>2. CASE UartTransmitActive
  <2>1. UNCHANGED << UartTxNum, GetTxCount, UartTransmitActive >>
    BY <1>2 DEF Rx!StartTransmit
  <2> QED
    BY <1>1, <1>2, <2>1 DEF TxHeld, TxIndex, TxSpan, TxBlock, TxBytes, TxStage, SentOf
<1>3. CASE ~UartTransmitActive
  <2>1. Rx!UART_Transmit(UartTxIndexO)
    BY <1>3 DEF Rx!StartTransmit
  <2>2. /\ o = i => UartTransmitActive' = FALSE
        /\ o < i => /\ UartTransmitActive' = TRUE /\ GetTxCount' = 0 /\ 0 < UartTxNum' /\ UartTxNum' <= i - o
                    /\ UartTxNum' <= DAP_UART_TX_BUFFER_SIZE - TxAt(o)
    BY <2>1, TxApart, TransmitBlock DEF TxHeld, TxIndex
  <2>3. o <= i
    BY DEF TxHeld, TxSpan
  <2>4. SentOf = 0 /\ SentOf' = 0
    BY <1>3, <2>2, <2>3 DEF SentOf
  <2>5. TxIndex(i, o)' /\ TxSpan(i, o)' /\ TxBytes(i, o)'
    BY <1>1, <2>4 DEF TxHeld, TxIndex, TxSpan, TxBytes
  <2>6. TxBlock(i, o)' /\ TxStage(i, o)'
    BY <1>1, <2>2, <2>3 DEF TxBlock, TxStage
  <2> QED
    BY <2>5, <2>6 DEF TxHeld
<1> QED
  BY <1>2, <1>3 DEF TxTyped

LEMMA TxClear ==
    ASSUME TxTyped, Rx!TxCleared, uartPc' = "idle"
    PROVE  TxHeld(0, 0)'
<1>1. /\ UartTransmitActive' = FALSE /\ UartTxIndexI' = 0 /\ UartTxIndexO' = 0 /\ onWire' = accepted /\ accepted' = accepted
      /\ accepted \in Int
  BY DEF Rx!TxCleared, TxTyped
<1>2. Wrapped(0) = 0
  BY TxSizes, WrappedSmall
<1>3. SentOf' = 0
  BY <1>1 DEF SentOf
<1>4. TxIndex(0, 0)' /\ TxSpan(0, 0)' /\ TxBlock(0, 0)' /\ TxStage(0, 0)'
  BY <1>1, <1>2, <1>3, TxSizes DEF TxIndex, TxSpan, TxBlock, TxStage
<1>5. TxBytes(0, 0)'
  <2>1. accepted' - (0 - 0) + SentOf' = onWire'
    BY <1>1, <1>3
  <2>2. \A k \in 0 + SentOf' .. 0 - 1 : FALSE
    BY <1>3
  <2> QED
    BY <2>1, <2>2 DEF TxBytes
<1> QED
  BY <1>4, <1>5 DEF TxHeld

(* The stages of the command that is there to read the indices. *)
LEMMA TxReads ==
    ASSUME TxTyped, NEW i \in Nat, NEW o \in Nat, TxHeld(i, o),
           Rx!TxIndices \/ Rx!TxCount \/ Rx!TxActive
    PROVE  TxHeld(i, o)'
<1>1. /\ UNCHANGED << UartTxIndexI, UartTxIndexO, UartTxBuf, UartTxNum, GetTxCount, UartTransmitActive, accepted, onWire >>
      /\ uartPc # "transmit" /\ uartPc' # "transmit"
  BY DEF Rx!TxIndices, Rx!TxCount, Rx!TxActive, Rx!tx
<1>2. TxIndex(i, o)' /\ TxSpan(i, o)' /\ TxBlock(i, o)' /\ TxBytes(i, o)' /\ SentOf' = SentOf
  BY <1>1 DEF TxHeld, TxIndex, TxSpan, TxBlock, TxBytes, SentOf
<1>3. /\ SentOf \in Nat /\ SentOf <= i - o /\ i - o \in 0..IndexWord - 1
      /\ Rx!Minus(UartTxIndexI, UartTxIndexO) = i - o /\ i - o - SentOf <= DAP_UART_TX_BUFFER_SIZE
  BY TxApart DEF TxHeld, TxSpan
<1>4. CASE Rx!TxIndices
  <2>1. uartPc' = "tx count" /\ tx_num' = i - o
    BY <1>3, <1>4 DEF Rx!TxIndices
  <2> QED
    BY <1>2, <2>1 DEF TxHeld, TxStage
<1>5. CASE Rx!TxCount
  <2>1. uartPc = "tx count" /\ uartPc' = "tx active" /\ num' = GetTxCount /\ tx_num' = tx_num
    BY <1>5 DEF Rx!TxCount
  <2>2. tx_num' = i - o
    BY <2>1 DEF TxHeld, TxStage
  <2>3. UartTransmitActive => 0 <= GetTxCount /\ i - o - GetTxCount <= DAP_UART_TX_BUFFER_SIZE
    BY <1>3 DEF TxHeld, TxBlock, SentOf
  <2>4. GetTxCount <= GetTxCount
    BY DEF TxTyped
  <2> QED
    BY <1>1, <1>2, <2>1, <2>2, <2>3, <2>4 DEF TxHeld, TxStage
<1>6. CASE Rx!TxActive
  <2>1. /\ uartPc = "tx active" /\ uartPc' = "put"
        /\ UartTransmitActive => tx_num' = Rx!Minus(tx_num, num)
        /\ ~UartTransmitActive => tx_num' = tx_num
    BY <1>6 DEF Rx!TxActive
  <2>2. tx_num = i - o
    BY <2>1 DEF TxHeld, TxStage
  <2>3. i - o - SentOf <= tx_num' /\ tx_num' <= DAP_UART_TX_BUFFER_SIZE
    <3>1. CASE UartTransmitActive
      <4>1. SentOf = GetTxCount
        BY <3>1 DEF SentOf
      <4>2. 0 <= num /\ num <= SentOf /\ i - o - num <= DAP_UART_TX_BUFFER_SIZE
        BY <2>1, <3>1, <4>1 DEF TxHeld, TxStage
      <4>3. num \in Int
        BY DEF TxTyped
      <4>4. Rx!Minus(i - o, num) = i - o - num
        <5>1. i - o - num \in 0..IndexWord - 1
          BY <1>3, <4>2, <4>3, TxSizes
        <5> QED
          BY <1>3, <4>3, <5>1, MinusSmall
      <4>5. tx_num' = i - o - num
        BY <2>1, <2>2, <3>1, <4>4
      <4> QED
        BY <1>3, <4>2, <4>3, <4>5
    <3>2. CASE ~UartTransmitActive
      <4>1. tx_num' = i - o /\ SentOf = 0
        BY <2>1, <2>2, <3>2 DEF SentOf
      <4> QED
        BY <1>3, <4>1
    <3> QED
      BY <3>1, <3>2
  <2>4. TxStage(i, o)'
    BY <1>2, <2>1, <2>3 DEF TxStage
  <2> QED
    BY <1>2, <2>4 DEF TxHeld
<1> QED
  BY <1>4, <1>5, <1>6

LEMMA TxStays ==
    ASSUME NEW i \in Nat, NEW o \in Nat, TxHeld(i, o),
           UNCHANGED << UartTxIndexI, UartTxIndexO, UartTxBuf, UartTxNum, GetTxCount, UartTransmitActive, accepted, onWire >>,
           \/ UNCHANGED << uartPc, tx_num, num >>
           \/ uartPc # "transmit" /\ uartPc' \notin { "tx count", "tx active", "put" }
    PROVE  TxHeld(i, o)'
<1>1. TxIndex(i, o)' /\ TxSpan(i, o)' /\ TxBytes(i, o)' /\ SentOf' = SentOf
  BY DEF TxHeld, TxIndex, TxSpan, TxBytes, SentOf
<1>2. TxBlock(i, o)'
  BY DEF TxHeld, TxBlock
<1>3. TxStage(i, o)'
  BY <1>1 DEF TxHeld, TxStage
<1> QED
  BY <1>1, <1>2, <1>3 DEF TxHeld

LEMMA TxControl ==
    ASSUME TxInv, NEW control, Rx!ControlTx(control), uartPc' = uartPc, uartPc = "idle", UartTransmitEnabled',
           ~uartTorn
    PROVE  \E i \in Nat, o \in Nat : TxHeld(i, o)'
<1> DEFINE on == "TX_ENABLE" \in control /\ "TX_DISABLE" \notin control /\ UartConfigured
<1>1. UartTransmitEnabled' = (on \/ (UartTransmitEnabled /\ "TX_DISABLE" \notin control))
  BY DEF Rx!ControlTx
<1>2. CASE (on /\ ~UartTransmitEnabled) \/ "TX_BUF_FLUSH" \in control
  <2>1. Rx!TxCleared
    BY <1>2 DEF Rx!ControlTx
  <2> QED
    BY <2>1, TxClear DEF TxInv
<1>3. CASE ~((on /\ ~UartTransmitEnabled) \/ "TX_BUF_FLUSH" \in control)
  <2>1. UartTransmitEnabled /\ "TX_DISABLE" \notin control
    BY <1>1, <1>3
  <2>2. UNCHANGED << UartTxIndexI, UartTxIndexO, UartTxBuf, UartTxNum, GetTxCount, UartTransmitActive, accepted, onWire >>
    BY <1>3, <2>1 DEF Rx!ControlTx
  <2>3. PICK i \in Nat, o \in Nat : TxHeld(i, o)
    BY <2>1 DEF TxInv
  <2>4. TxHeld(i, o)'
    BY <2>2, <2>3, TxStays
  <2> QED
    BY <2>4
<1> QED
  BY <1>2, <1>3

LEMMA TxInvStep ==
    ASSUME TxInv, UartChange
    PROVE  TxInv'
<1> USE DEF Rx!settings, Rx!rx, Rx!tx, Rx!command, Rx!answer
<1>1. TxTyped'
  BY TxTypesStep DEF TxInv
<1>2. SUFFICES ASSUME UartTransmitEnabled', ~uartTorn'
               PROVE  \E i \in Nat, o \in Nat : TxHeld(i, o)'
  BY <1>1 DEF TxInv
<1>7. ~uartTorn
  BY <1>2, UartTornStays
<1>3. CASE Controlled
  <2>1. PICK control \in RxControls \cup TxControls : Rx!ControlTx(control)
    BY <1>3 DEF Controlled
  <2>2. uartPc = "idle" /\ uartPc' = uartPc
    BY <1>3 DEF Controlled
  <2> QED
    BY <1>2, <1>7, <2>1, <2>2, TxControl
<1>4. CASE Rx!UART_Transport
  BY <1>2, <1>4 DEF Rx!UART_Transport
<1>5. CASE UartTransmitEnabled /\ ~Controlled /\ ~Rx!UART_Transport
  <2>1. PICK i \in Nat, o \in Nat : TxHeld(i, o)
    BY <1>5, <1>7 DEF TxInv
  <2>2. TxTyped
    BY DEF TxInv
  <2>3. CASE Rx!SendByte
    BY <1>2, <2>1, <2>2, <2>3, TxByte
  <2>4. CASE Rx!PutData
    BY <2>1, <2>2, <2>4, TxPut
  <2>5. CASE Rx!StartTransmit
    BY <2>1, <2>2, <2>5, TxStart
  <2>6. CASE Rx!TxIndices \/ Rx!TxCount \/ Rx!TxActive
    BY <2>1, <2>2, <2>6, TxReads
  <2>7. CASE Rx!ReceiveByte \/ Rx!LineError \/ Rx!UART_Configure
    <3>1. /\ UNCHANGED << UartTxIndexI, UartTxIndexO, UartTxBuf, UartTxNum, GetTxCount, UartTransmitActive, accepted, onWire >>
          /\ UNCHANGED << uartPc, tx_num, num >>
      BY <2>7 DEF Rx!ReceiveByte, Rx!LineError, Rx!UART_Configure
    <3> QED
      BY <2>1, <3>1, TxStays
  <2>8. CASE Rx!UART_Status \/ Transferred \/ Rx!RxIndices \/ Rx!RxCount \/ Rx!Overflow \/ Rx!RxRequest \/ Rx!Copy \/ Rx!Answer
    <3>1. UNCHANGED << UartTxIndexI, UartTxIndexO, UartTxBuf, UartTxNum, GetTxCount, UartTransmitActive, accepted, onWire >>
      BY <2>8 DEF Rx!UART_Status, Transferred, Rx!RxIndices, Rx!RxCount, Rx!Overflow, Rx!RxRequest, Rx!Copy, Rx!Answer
    <3>2. \/ UNCHANGED << uartPc, tx_num, num >>
          \/ uartPc # "transmit" /\ uartPc' \notin { "tx count", "tx active", "put" }
      BY <2>8 DEF Rx!UART_Status, Transferred, Rx!Begin, Rx!RxIndices, Rx!RxCount, Rx!Overflow, Rx!RxRequest, Rx!Copy, Rx!Answer
    <3> QED
      BY <2>1, <3>1, <3>2, TxStays
  <2> QED
    BY <1>5, <2>3, <2>4, <2>5, <2>6, <2>7, <2>8 DEF UartChange
<1>6. CASE ~UartTransmitEnabled /\ ~Controlled /\ ~Rx!UART_Transport
  <2>1. UNCHANGED UartTransmitEnabled
    BY <1>6 DEF UartChange, Rx!ReceiveByte, Rx!SendByte, Rx!LineError, Rx!UART_Configure, Rx!UART_Status, Transferred,
       Rx!RxIndices, Rx!RxCount, Rx!Overflow, Rx!RxRequest, Rx!Copy, Rx!TxIndices, Rx!TxCount, Rx!TxActive, Rx!PutData,
       Rx!StartTransmit, Rx!Answer
  <2> QED
    BY <1>2, <1>6, <2>1
<1> QED
  BY <1>3, <1>4, <1>5, <1>6

LEMMA TxSafe == Spec => [](TxInv /\ RxQuiet)
<1>1. Init => TxInv /\ RxQuiet
  <2> SUFFICES ASSUME Init
               PROVE  TxInv /\ RxQuiet
    OBVIOUS
  <2>1. Rx!Init
    BY DEF Init
  <2>2. request \in Nat \X Nat
    BY <2>1 DEF Rx!Init
  <2>3. UartTxBuf \in [ 0..DAP_UART_TX_BUFFER_SIZE - 1 -> Int ]
    BY <2>1 DEF Rx!Init
  <2> QED
    <3>1. UartTransmitEnabled = FALSE /\ UartTransmitActive = FALSE /\ UartReceiveEnabled = FALSE
      BY <2>1 DEF Rx!Init
    <3>2. /\ UartTxIndexI = 0 /\ UartTxIndexO = 0 /\ UartTxNum = 0 /\ GetTxCount = 0
          /\ tx_num = 0 /\ num = 0 /\ accepted = 0
      BY <2>1 DEF Rx!Init
    <3>3. TxTyped
      <4>1. UartTransmitEnabled \in BOOLEAN /\ UartTransmitActive \in BOOLEAN
        BY <3>1
      <4>2. /\ UartTxIndexI \in Int /\ UartTxIndexO \in Int /\ UartTxNum \in Int /\ GetTxCount \in Int
            /\ tx_num \in Int /\ num \in Int /\ accepted \in Int
        BY <3>2
      <4> QED
        BY <2>2, <2>3, <4>1, <4>2 DEF TxTyped
    <3> QED
      BY <3>1, <3>3 DEF TxInv, RxQuiet
<1>2. TxInv /\ RxQuiet /\ [Next]_vars => (TxInv /\ RxQuiet)'
  <2> SUFFICES ASSUME TxInv, RxQuiet, [Next]_vars
               PROVE  TxInv' /\ RxQuiet'
    OBVIOUS
  <2>0. ASSUME UNCHANGED dapUart
        PROVE  TxInv'
    <3>1. TxTyped' /\ UartTransmitEnabled' = UartTransmitEnabled /\ uartTorn' = uartTorn
      BY <2>0 DEF dapUart, TxInv, TxTyped
    <3>2. CASE UartTransmitEnabled /\ ~uartTorn
      <4>1. PICK i \in Nat, o \in Nat : TxHeld(i, o)
        BY <3>2 DEF TxInv
      <4>2. TxHeld(i, o)'
        BY <2>0, <4>1, TxStays DEF dapUart
      <4> QED
        BY <3>1, <4>2 DEF TxInv
    <3> QED
      BY <3>1, <3>2 DEF TxInv
  <2>1. CASE Next
    <3>1. (UartChange \/ UNCHANGED dapUart) /\ RxQuiet'
      BY <2>1, UartSteps
    <3>2. CASE UartChange
      BY <3>1, <3>2, TxInvStep
    <3>3. CASE UNCHANGED dapUart
      BY <2>0, <3>1, <3>3
    <3> QED
      BY <3>1, <3>2, <3>3
  <2>2. CASE UNCHANGED vars
    BY <2>0, <2>2 DEF vars, dapUart, RxQuiet
  <2> QED
    BY <2>1, <2>2
<1> QED
  BY <1>1, <1>2, PTL DEF Spec

(* The bytes that UART_Transfer accepts go out in their order, each once,  *)
(* for any size of the buffer, also where the free-running indices wrap,   *)
(* when the interrupt comes between any two steps of a command; until the  *)
(* last byte of a block goes out between its reads of UartTxIndexO, of the *)
(* count and of the activity, for which nothing is said from then on.      *)
THEOREM BytesSent == Spec => SentInOrder
<1> USE DEF Rx!settings, Rx!rx, Rx!tx, Rx!command, Rx!answer
<1>1. ASSUME TxInv, UartChange, ~uartTorn'
      PROVE  onWire' \in { onWire, onWire + 1 } \/ (UartTxIndexI' = 0 /\ UartTxIndexO' = 0 /\ onWire' = accepted)
  <2>1. CASE Rx!SendByte
    <3>1. UartTransmitEnabled
      BY <2>1 DEF Rx!SendByte
    <3>2. PICK i \in Nat, o \in Nat : TxHeld(i, o)
      BY <1>1, <3>1, UartTornStays DEF TxInv
    <3> QED
      BY <1>1, <2>1, <3>2, TxByte DEF TxInv
  <2>2. CASE Rx!UART_Transport
    BY <2>2 DEF Rx!UART_Transport, Rx!TxCleared
  <2>3. CASE Controlled
    <3>1. PICK control \in RxControls \cup TxControls : Rx!ControlTx(control)
      BY <2>3 DEF Controlled
    <3> QED
      BY <3>1 DEF Rx!ControlTx, Rx!TxCleared
  <2>4. CASE ~Rx!SendByte /\ ~Rx!UART_Transport /\ ~Controlled
    <3>1. UNCHANGED onWire
      BY <1>1, <2>4 DEF UartChange, Rx!ReceiveByte, Rx!LineError, Rx!UART_Configure, Rx!UART_Status, Transferred,
         Rx!RxIndices, Rx!RxCount, Rx!Overflow, Rx!RxRequest, Rx!Copy, Rx!TxIndices, Rx!TxCount, Rx!TxActive, Rx!PutData,
         Rx!StartTransmit, Rx!Answer
    <3> QED
      BY <3>1
  <2> QED
    BY <2>1, <2>2, <2>3, <2>4
<1>2. TxInv /\ RxQuiet /\ [Next]_vars =>
        [ \/ onWire' \in { onWire, onWire + 1 }
          \/ UartTxIndexI' = 0 /\ UartTxIndexO' = 0 /\ onWire' = accepted
          \/ uartTorn']_Rx!vars
  <2> SUFFICES ASSUME TxInv, RxQuiet, [Next]_vars, ~UNCHANGED Rx!vars, ~uartTorn'
               PROVE  onWire' \in { onWire, onWire + 1 } \/ (UartTxIndexI' = 0 /\ UartTxIndexO' = 0 /\ onWire' = accepted)
    OBVIOUS
  <2>1. UartChange \/ UNCHANGED dapUart
    BY UartSteps DEF vars, dapUart
  <2>2. ~UNCHANGED dapUart
    BY DEF dapUart, Rx!vars
  <2> QED
    BY <1>1, <2>1, <2>2
<1> QED
  BY <1>2, TxSafe, PTL DEF Spec, SentInOrder, Rx!SentInOrder

(* The bytes received: UartRxIndexI + GetRxCount of them since the last    *)
(* flush, after Dropped others; a command hands over what begins at        *)
(* ReadFrom.                                                               *)
AfterCopy == { "tx indices", "tx count", "tx active", "put", "transmit", "answer" }
ReadFrom == IF uartPc \in AfterCopy THEN UartRxIndexO - Len(rx_data) ELSE UartRxIndexO
There == UartRxIndexI + GetRxCount
Dropped == received - There
LossKnown == lossTold \/ "lost" \in UartErrors

RxTyped ==
    /\ UartRxIndexI \in Nat /\ UartRxIndexO \in Nat /\ GetRxCount \in Nat
    /\ received \in 0..MaxReceived /\ expected \in Nat \ {0} /\ came \in Nat
    /\ rx_num \in Int /\ rx_cnt \in Int /\ rx_data \in Seq(Int) /\ request \in Nat \X Nat
    /\ UartRxBuf \in [ 0..DAP_UART_RX_BUFFER_SIZE - 1 -> Int ]

RxRing ==
    /\ GetRxCount < UART_RX_BLOCK_SIZE /\ UartRxIndexI % UART_RX_BLOCK_SIZE = 0
    /\ There <= received /\ UartRxIndexO <= There
    /\ \A k \in 0..There - 1 : There - k <= DAP_UART_RX_BUFFER_SIZE =>
        UartRxBuf[RxAt(k)] = Dropped + k + 1

(* The index of the host is behind what it expects by less than a block;   *)
(* ahead of it only when that much more has come than the buffer takes.    *)
RxPlace ==
    /\ 0 <= ReadFrom
    /\ expected = Dropped + ReadFrom + 1 \/ LossKnown
    /\ expected < Dropped + ReadFrom + 1 + UART_RX_BLOCK_SIZE
    /\ Dropped + ReadFrom + 1 < expected =>
        UartRxIndexI - ReadFrom >= Rx!RxLimit /\ received + 1 - expected > Rx!RxLimit
RxRead == \A j \in 1..Len(rx_data) : rx_data[j] = Dropped + ReadFrom + j

RxStage ==
    /\ uartPc \in { "idle", "rx indices", "rx count", "overflow", "rx request" } => rx_data = << >>
    /\ uartPc # "idle" => came <= BytesPerCommand
    /\ uartPc = "rx count" => rx_num = Rx!Minus(UartRxIndexI, UartRxIndexO)
    /\ uartPc = "overflow" => rx_num = Rx!RxLimit /\ There - UartRxIndexO > Rx!RxLimit /\ "lost" \in UartErrors
    /\ uartPc = "rx request" =>
        0 <= rx_num /\ rx_num <= There - UartRxIndexO /\ rx_num <= received + 1 - expected
    /\ uartPc \in { "rx request", "copy" } => There - UartRxIndexO < Rx!RxLimit + UART_RX_BLOCK_SIZE + came
    /\ uartPc = "copy" => Len(rx_data) <= rx_cnt /\ rx_cnt <= There - UartRxIndexO
    /\ uartPc \in { "copy", "tx indices", "tx count", "tx active", "put", "transmit" } => request # << 0, 0 >>
    /\ uartPc = "answer" /\ request = << 0, 0 >> => rx_data = << >> /\ rx_cnt <= received + 1 - expected

RxHeld == RxRing /\ RxPlace /\ RxRead /\ RxStage

RxSound ==
    /\ RxTyped /\ Rx!CountIsThere
    /\ UartTransport = "DAP_COMMAND" => RxHeld
    /\ UartTransport # "DAP_COMMAND" => uartPc = "idle" /\ ~UartReceiveEnabled /\ rx_data = << >>

RxInv == uartTorn \/ RxSound

RxSmall == MaxReceived < IndexWord /\ BytesPerCommand <= UART_RX_BLOCK_SIZE

(* Blocks lie whole in the buffer. *)
LEMMA Aligned ==
    ASSUME NEW i \in Nat, i % UART_RX_BLOCK_SIZE = 0, NEW g \in 0..UART_RX_BLOCK_SIZE - 1
    PROVE  /\ RxAt(i) + g < DAP_UART_RX_BUFFER_SIZE
           /\ i + g > Rx!RxLimit => i >= Rx!RxLimit
<1> DEFINE b == UART_RX_BLOCK_SIZE
           r == DAP_UART_RX_BUFFER_SIZE
<1>1. b \in Nat \ {0} /\ r \in Nat \ {0} /\ r % b = 0
  BY UartSizes
<1>2. PICK m \in Int : i = b * m
  <2>1. PICK m \in Int : m = i \div b
    BY <1>1
  <2>2. i = b * m + (i % b)
    BY <1>1, <2>1
  <2>4. i % b = 0
    OBVIOUS
  <2>3. i = b * m
    BY <1>1, <2>2, <2>4
  <2> QED
    BY <2>3
<1>3. PICK n \in Int : r = b * n
  <2>1. PICK n \in Int : n = r \div b
    BY <1>1
  <2>2. r = b * n + (r % b)
    BY <1>1, <2>1
  <2>3. r = b * n
    BY <1>1, <2>2
  <2> QED
    BY <2>3
<1>4. PICK q \in Int, t \in 0..r - 1 : i = r * q + t /\ t = i % r
  <2>1. i \div r \in Int /\ i % r \in 0..r - 1 /\ i = r * (i \div r) + (i % r)
    BY <1>1
  <2> QED
    BY <2>1
<1> HIDE DEF b, r
<1>5. t + g < r
  <2>1. i = r * q + t
    BY <1>4
  <2>2. PICK p \in Int : p = n * q
    OBVIOUS
  <2>3. r * q = b * p
    BY <1>1, <1>3, <2>2
  <2>4. PICK d \in Int : d = n - m + p
    BY <1>2, <1>3, <2>2
  <2>5. b * d = b * n - b * m + b * p
    BY <1>1, <2>4
  <2>6. r - t = b * d
    BY <1>2, <1>3, <2>1, <2>3, <2>5
  <2>7. d >= 1
    <3>1. CASE d <= 0
      <4>1. b * d <= 0
        BY <1>1, <3>1
      <4> QED
        BY <1>1, <2>6, <4>1
    <3> QED
      BY <3>1
  <2>8. b * d >= b
    BY <1>1, <2>7
  <2> QED
    BY <1>1, <2>6, <2>8 DEF b
<1>6. i + g > Rx!RxLimit => i >= Rx!RxLimit
  <2>1. Rx!RxLimit = r - b * 2
    BY DEF Rx!RxLimit, b, r
  <2>2. PICK d \in Int : d = n - 2 - m
    BY <1>2, <1>3
  <2>3. b * d = b * n - b * 2 - b * m
    BY <1>1, <2>2
  <2>4. Rx!RxLimit - i = b * d
    BY <1>1, <1>2, <1>3, <2>1, <2>3
  <2>5. CASE d <= 0
    <3>1. b * d <= 0
      BY <1>1, <2>5
    <3> QED
      BY <1>1, <2>1, <2>4, <3>1
  <2>6. CASE d >= 1
    <3>1. b * d >= b
      BY <1>1, <2>6
    <3> QED
      BY <1>1, <2>1, <2>4, <3>1 DEF b
  <2> QED
    BY <2>5, <2>6
<1> QED
  BY <1>4, <1>5, <1>6 DEF r, RxAt

LEMMA Fits ==
    ASSUME RxSmall, RxTyped, RxRing
    PROVE  /\ There \in 0..IndexWord - 1 /\ UartRxIndexI \in 0..IndexWord - 1 /\ UartRxIndexO \in 0..IndexWord - 1
           /\ Dropped \in Nat /\ Rx!RxLimit \in Nat /\ Rx!RxLimit < IndexWord
           /\ Rx!RxLimit + 2 * UART_RX_BLOCK_SIZE = DAP_UART_RX_BUFFER_SIZE
BY UartSizes DEF RxSmall, RxTyped, RxRing, There, Dropped, Rx!RxLimit

LEMMA RxByte ==
    ASSUME RxSmall, RxTyped, RxHeld, ~uartTorn', Rx!ReceiveByte
    PROVE  RxTyped' /\ RxHeld'
<1> DEFINE r == DAP_UART_RX_BUFFER_SIZE
           b == UART_RX_BLOCK_SIZE
<1>16. received < MaxReceived /\ received' = received + 1
  BY DEF Rx!ReceiveByte
<1>17. (uartPc # "idle" => came < BytesPerCommand) /\ came' = (IF uartPc = "idle" THEN 0 ELSE came + 1)
  BY DEF Rx!ReceiveByte
<1>1. UNCHANGED << UartErrors, lossTold, UartRxIndexO, expected, uartPc, request, rx_num, rx_cnt, rx_data >>
  BY DEF Rx!ReceiveByte, Rx!answer
<1>18. uartPc = "rx count" => UartRxIndexI' = UartRxIndexI
  BY DEF Rx!ReceiveByte
<1>2. /\ r \in Nat \ {0} /\ b \in Nat \ {0} /\ IndexWord \in Nat \ {0} /\ MaxReceived \in Nat /\ BytesPerCommand \in Nat
      /\ MaxReceived < IndexWord
  BY RxSizes DEF RxSmall
<1>14. UartRxBuf \in [ 0..r - 1 -> Int ] /\ UartRxIndexI % b = 0
  BY DEF RxTyped, RxHeld, RxRing
<1>3. /\ UartRxIndexI \in Nat /\ UartRxIndexO \in Nat /\ GetRxCount \in 0..b - 1 /\ There \in Nat /\ There <= received
      /\ received \in Nat /\ There = UartRxIndexI + GetRxCount /\ UartRxIndexO <= There
  <2>1. GetRxCount < b /\ There <= received /\ UartRxIndexO <= There
    BY DEF RxHeld, RxRing
  <2> QED
    BY <1>2, <2>1 DEF RxTyped, There
<1>4. There' = There + 1 /\ UartRxIndexI <= UartRxIndexI' /\ UartRxIndexI' \in Nat /\ GetRxCount' \in 0..b - 1
  <2>1. CASE GetRxCount + 1 = b
    <3>1. GetRxCount' = 0 /\ UartRxIndexI' = (UartRxIndexI + b) % IndexWord
      BY <2>1 DEF Rx!ReceiveByte
    <3>2. UartRxIndexI + b \in 0..IndexWord - 1
      BY <1>2, <1>3, <1>16, <2>1
    <3>3. UartRxIndexI' = UartRxIndexI + b
      BY <3>1, <3>2, WrappedSmall
    <3>4. GetRxCount' = 0
      BY <3>1
    <3> QED
      BY <1>2, <1>3, <2>1, <3>3, <3>4 DEF There
  <2>2. CASE GetRxCount + 1 # b
    <3>1. GetRxCount' = GetRxCount + 1 /\ UartRxIndexI' = UartRxIndexI
      BY <2>2 DEF Rx!ReceiveByte
    <3> QED
      BY <1>2, <1>3, <2>2, <3>1 DEF There
  <2> QED
    BY <2>1, <2>2
<1>15. UartRxIndexI' % b = 0
  <2>1. UartRxIndexI' = UartRxIndexI \/ UartRxIndexI' = UartRxIndexI + b * 1
    <3>1. CASE GetRxCount + 1 = b
      <4>1. GetRxCount' = 0
        BY <3>1 DEF Rx!ReceiveByte
      <4> QED
        <5>1. There' = UartRxIndexI' + GetRxCount'
          BY DEF There
        <5> QED
          <6>1. UartRxIndexI' \in Nat /\ UartRxIndexI \in Nat /\ GetRxCount \in Int /\ b \in Int
            BY <1>2, <1>3, <1>4
          <6>2. UartRxIndexI' + GetRxCount' = UartRxIndexI + GetRxCount + 1
            BY <1>3, <1>4, <5>1
          <6>3. UartRxIndexI' + 0 = UartRxIndexI + GetRxCount + 1
            BY <4>1, <6>2
          <6>4. PICK n \in Nat : n = UartRxIndexI'
            BY <6>1
          <6>6. n + 0 = UartRxIndexI + GetRxCount + 1
            BY <6>3, <6>4
          <6>7. UartRxIndexI \in Nat /\ GetRxCount \in Int /\ b \in Int
            BY <6>1
          <6>5. n = UartRxIndexI + b * 1
            BY <3>1, <6>6, <6>7
          <6> QED
            BY <6>4, <6>5
    <3>2. CASE GetRxCount + 1 # b
      BY <3>2 DEF Rx!ReceiveByte
    <3> QED
      BY <3>1, <3>2
  <2>2. ASSUME UartRxIndexI' = UartRxIndexI + b * 1
        PROVE  UartRxIndexI' % b = UartRxIndexI % b
    <3>1. b \in Nat \ {0} /\ UartRxIndexI' \in Int /\ UartRxIndexI \in Int /\ 1 \in Int
      BY <1>3, <1>4, RxSizes
    <3> HIDE DEF b
    <3> QED
      BY <3>1, <2>2, ModShift
  <2> QED
    BY <1>14, <2>1, <2>2
<1>5. Dropped' = Dropped /\ Dropped \in Nat
  BY <1>3, <1>4, <1>16 DEF Dropped
<1>6. RxAt(There) \in 0..r - 1 /\ UartRxBuf' = [ UartRxBuf EXCEPT ![RxAt(There)] = received + 1 ]
  <2>1. RxAt(UartRxIndexI) + GetRxCount < r
    BY <1>3, <1>14, Aligned
  <2>2. RxAt(There) = RxAt(UartRxIndexI) + GetRxCount
    BY <1>2, <1>3, <2>1, RxAtNext
  <2>3. UartRxBuf' = [ UartRxBuf EXCEPT ![RxAt(UartRxIndexI) + GetRxCount] = received + 1 ]
    BY DEF Rx!ReceiveByte, RxAt
  <2> QED
    <3>1. RxAt(There) \in 0..r - 1
      BY <1>3, RxAtIs
    <3> QED
      BY <2>2, <2>3, <3>1
<1>7. RxTyped'
  <2>1. UartRxBuf' \in [ 0..r - 1 -> Int ]
    BY <1>3, <1>6, <1>14
  <2>2. received' \in 0..MaxReceived /\ came' \in Nat
    <3>1. came \in Nat
      BY DEF RxTyped
    <3> QED
      BY <1>2, <1>3, <1>16, <1>17, <3>1
  <2>3. GetRxCount' \in Nat
    BY <1>2, <1>4
  <2> QED
    BY <1>1, <1>3, <1>4, <2>1, <2>2, <2>3 DEF RxTyped
<1>8. RxRing'
  <2>1. ASSUME NEW k \in 0..There' - 1, There' - k <= r
        PROVE  UartRxBuf'[RxAt(k)] = Dropped' + k + 1
    <3>1. CASE k = There
      <4>1. UartRxBuf'[RxAt(There)] = received + 1
        BY <1>6, <1>14
      <4>2. received + 1 = Dropped' + There + 1
        BY <1>3, <1>5 DEF Dropped
      <4> QED
        BY <3>1, <4>1, <4>2
    <3>2. CASE k # There
      <4>1. k \in 0..There - 1 /\ There - k <= r /\ There - k \in 1..r - 1
        BY <1>2, <1>3, <1>4, <2>1, <3>2
      <4>2. RxAt(k) # RxAt(There)
        BY <1>3, <4>1, RxAtApart
      <4>3. UartRxBuf[RxAt(k)] = Dropped + k + 1
        BY <4>1 DEF RxHeld, RxRing
      <4>4. RxAt(k) \in 0..r - 1
        BY <4>1, RxAtIs
      <4>5. UartRxBuf'[RxAt(k)] = UartRxBuf[RxAt(k)]
        BY <1>6, <1>14, <4>2, <4>4
      <4> QED
        BY <1>5, <4>3, <4>5
    <3> QED
      BY <3>1, <3>2
  <2>2. There' <= received' /\ UartRxIndexO' <= There' /\ GetRxCount' < b
    <3>1. UartRxIndexO' = UartRxIndexO
      BY <1>1
    <3> QED
      BY <1>2, <1>3, <1>4, <1>16, <3>1
  <2> QED
    BY <1>15, <2>1, <2>2 DEF RxRing
<1>9. ReadFrom' = ReadFrom /\ (LossKnown' <=> LossKnown)
  BY <1>1 DEF ReadFrom, LossKnown
<1>10. ReadFrom \in Int /\ Rx!RxLimit \in Int /\ expected \in Nat
  <2>1. Len(rx_data) \in Nat
    BY DEF RxTyped
  <2> QED
    BY <1>3, <2>1, RxSizes DEF ReadFrom, RxTyped, Rx!RxLimit
<1>11. RxPlace'
  <2>1. /\ 0 <= ReadFrom
        /\ expected = Dropped + ReadFrom + 1 \/ LossKnown
        /\ expected < Dropped + ReadFrom + 1 + b
    BY DEF RxHeld, RxPlace
  <2>2. ASSUME Dropped + ReadFrom + 1 < expected
        PROVE  UartRxIndexI' - ReadFrom >= Rx!RxLimit /\ received' + 1 - expected > Rx!RxLimit
    <3>1. UartRxIndexI - ReadFrom >= Rx!RxLimit /\ received + 1 - expected > Rx!RxLimit
      BY <2>2 DEF RxHeld, RxPlace
    <3> QED
      <4>1. UartRxIndexI' - ReadFrom >= Rx!RxLimit
        <5>1. UartRxIndexI' \in Nat /\ UartRxIndexI \in Nat /\ UartRxIndexI <= UartRxIndexI'
          BY <1>3, <1>4
        <5>2. ReadFrom \in Int /\ Rx!RxLimit \in Int
          BY <1>10
        <5>3. UartRxIndexI - ReadFrom >= Rx!RxLimit
          BY <3>1
        <5>4. PICK n \in Nat : n = UartRxIndexI'
          BY <5>1
        <5>6. UartRxIndexI \in Nat /\ UartRxIndexI <= n
          BY <5>1, <5>4
        <5>5. n - ReadFrom >= Rx!RxLimit
          BY <5>2, <5>3, <5>6
        <5> QED
          BY <5>4, <5>5
      <4>2. received' + 1 - expected > Rx!RxLimit
        BY <1>3, <1>10, <1>16, <3>1
      <4> QED
        BY <4>1, <4>2
  <2> QED
    BY <1>1, <1>5, <1>9, <2>1, <2>2 DEF RxPlace
<1>12. RxRead'
  BY <1>1, <1>5, <1>9 DEF RxHeld, RxRead
<1>13. RxStage'
  <2>1. /\ came \in Nat /\ rx_num \in Int /\ rx_cnt \in Int
    BY DEF RxTyped
  <2>2. uartPc # "idle" => came' <= BytesPerCommand
    BY <1>2, <1>17, <2>1
  <2>3. uartPc = "overflow" => There' - UartRxIndexO > Rx!RxLimit
    <3>1. uartPc = "overflow" => There - UartRxIndexO > Rx!RxLimit
      BY DEF RxHeld, RxStage
    <3> QED
      BY <1>3, <1>4, <1>10, <3>1
  <2>4. uartPc = "rx request" => rx_num <= There' - UartRxIndexO /\ rx_num <= received' + 1 - expected
    <3>1. uartPc = "rx request" => rx_num <= There - UartRxIndexO /\ rx_num <= received + 1 - expected
      BY DEF RxHeld, RxStage
    <3> QED
      <4>1. rx_num <= There - UartRxIndexO => rx_num <= There' - UartRxIndexO
        BY <1>3, <1>4, <2>1
      <4>2. rx_num <= received + 1 - expected => rx_num <= received' + 1 - expected
        BY <1>3, <1>10, <1>16, <2>1
      <4> QED
        BY <3>1, <4>1, <4>2
  <2>5. uartPc \in { "rx request", "copy" } => There' - UartRxIndexO < Rx!RxLimit + b + came'
    <3>1. uartPc \in { "rx request", "copy" } => There - UartRxIndexO < Rx!RxLimit + b + came
      BY DEF RxHeld, RxStage
    <3>2. uartPc \in { "rx request", "copy" } => came' = came + 1
      BY <1>17
    <3>3. ASSUME uartPc \in { "rx request", "copy" }
          PROVE  There' - UartRxIndexO < Rx!RxLimit + b + came'
      <4>1. There - UartRxIndexO < Rx!RxLimit + b + came /\ came' = came + 1
        BY <3>1, <3>2, <3>3
      <4> QED
        BY <1>2, <1>3, <1>4, <1>10, <2>1, <4>1
    <3> QED
      BY <3>3
  <2>6. uartPc = "copy" => rx_cnt <= There' - UartRxIndexO
    <3>1. uartPc = "copy" => rx_cnt <= There - UartRxIndexO
      BY DEF RxHeld, RxStage
    <3> QED
      BY <1>3, <1>4, <2>1, <3>1
  <2>7. uartPc = "answer" /\ request = << 0, 0 >> => rx_cnt <= received' + 1 - expected
    <3>1. uartPc = "answer" /\ request = << 0, 0 >> => rx_cnt <= received + 1 - expected
      BY DEF RxHeld, RxStage
    <3> QED
      BY <1>3, <1>10, <1>16, <2>1, <3>1
  <2>8. uartPc = "rx count" => rx_num = Rx!Minus(UartRxIndexI', UartRxIndexO)
    BY <1>18 DEF RxHeld, RxStage
  <2>9. Rx!Minus(UartRxIndexI', UartRxIndexO) = Rx!Minus(UartRxIndexI, UartRxIndexO)'
    BY <1>1 DEF Rx!Minus
  <2> QED
    BY <1>1, <2>2, <2>3, <2>4, <2>5, <2>6, <2>7, <2>8, <2>9 DEF RxHeld, RxStage
<1> QED
  BY <1>7, <1>8, <1>11, <1>12, <1>13 DEF RxHeld

LEMMA RxStays ==
    ASSUME RxTyped, RxHeld,
           UNCHANGED << UartRxIndexI, UartRxIndexO, GetRxCount, UartRxBuf, received, expected, lossTold >>,
           UNCHANGED << request, rx_num, rx_cnt, rx_data, came >>,
           "lost" \in UartErrors => "lost" \in UartErrors',
           \/ uartPc' = uartPc
           \/ uartPc \in AfterCopy /\ uartPc # "answer" /\ uartPc' \in AfterCopy
    PROVE  RxTyped' /\ RxHeld'
<1>1. There' = There /\ Dropped' = Dropped /\ ReadFrom' = ReadFrom /\ (LossKnown => LossKnown')
  BY DEF There, Dropped, ReadFrom, LossKnown
<1>2. RxTyped'
  BY DEF RxTyped
<1>3. RxRing' /\ RxRead'
  BY <1>1 DEF RxHeld, RxRing, RxRead
<1>4. RxPlace'
  BY <1>1 DEF RxHeld, RxPlace
<1>5. RxStage'
  BY <1>1 DEF RxHeld, RxStage, AfterCopy
<1> QED
  BY <1>2, <1>3, <1>4, <1>5 DEF RxHeld

LEMMA RxInts ==
    ASSUME RxTyped
    PROVE  /\ UartRxIndexI \in Int /\ UartRxIndexO \in Int /\ GetRxCount \in Int /\ There \in Int /\ Dropped \in Int
           /\ ReadFrom \in Int /\ expected \in Int /\ received \in Int /\ Rx!RxLimit \in Int
           /\ UART_RX_BLOCK_SIZE \in Int /\ Len(rx_data) \in Nat
<1>1. Len(rx_data) \in Nat
  BY DEF RxTyped
<1>2. UartRxIndexI \in Int /\ UartRxIndexO \in Int /\ GetRxCount \in Int /\ expected \in Int /\ received \in Int
  BY RxSizes DEF RxTyped
<1> QED
  BY <1>1, <1>2, RxSizes DEF There, Dropped, ReadFrom, Rx!RxLimit

(* The index and the count together. *)
LEMMA ThereIs ==
    ASSUME RxSmall, RxTyped, RxRing
    PROVE  (Rx!Minus(UartRxIndexI, UartRxIndexO) + GetRxCount) % IndexWord = There - UartRxIndexO
<1> DEFINE w == IndexWord
<1>1. PICK a \in Int : a = UartRxIndexI - UartRxIndexO + w
  BY RxSizes DEF RxTyped
<1>2. w \in Nat \ {0} /\ GetRxCount \in Int /\ There - UartRxIndexO \in 0..w - 1 /\ There - UartRxIndexO \in Int
  BY Fits, RxInts, RxSizes, SMTT(30) DEF RxRing
<1>3. a + GetRxCount = (There - UartRxIndexO) + w * 1
  BY <1>1, RxSizes DEF RxTyped, There
<1> HIDE DEF w
<1>4. ((a % w) + GetRxCount) % w = (a + GetRxCount) % w
  BY <1>2, ModStep
<1>5. PICK c \in Int, t \in Int : c = a + GetRxCount /\ t = There - UartRxIndexO /\ c = t + w * 1
  BY <1>2, <1>3
<1>6. (a + GetRxCount) % w = (There - UartRxIndexO) % w
  <2>1. c = t + w * 1
    BY <1>5
  <2>2. w \in Nat \ {0} /\ 1 \in Int
    BY <1>2
  <2>3. c % w = t % w
    BY <2>1, <2>2, ModShift
  <2> QED
    BY <1>5, <2>3
<1>7. (There - UartRxIndexO) % w = There - UartRxIndexO
  BY <1>2, WrappedSmall DEF w
<1> QED
  BY <1>1, <1>4, <1>6, <1>7 DEF Rx!Minus, w

LEMMA RxBegin ==
    ASSUME RxTyped, RxHeld, Rx!UART_Status \/ Transferred
    PROVE  RxTyped' /\ RxHeld'
<1>1. /\ uartPc = "idle" /\ uartPc' = "rx indices" /\ rx_data' = << >> /\ came' = 0
      /\ UNCHANGED << UartRxIndexI, UartRxIndexO, UartRxBuf, GetRxCount, received, expected, lossTold, UartErrors,
                      rx_num, rx_cnt >>
  BY DEF Rx!UART_Status, Transferred, Rx!Begin, Rx!rx, Rx!answer
<1>2. rx_data = << >>
  BY <1>1 DEF RxHeld, RxStage
<1>3. request' \in Nat \X Nat
  <2>1. CASE Rx!UART_Status
    BY <2>1 DEF Rx!UART_Status, Rx!Begin
  <2>2. CASE Transferred
    <3>1. PICK read \in Nat, write \in Nat : Rx!Begin("rx indices", << read, write >>)
      BY <2>2 DEF Transferred
    <3> QED
      BY <3>1 DEF Rx!Begin
  <2> QED
    BY <2>1, <2>2
<1>4. There' = There /\ Dropped' = Dropped /\ ReadFrom' = ReadFrom /\ (LossKnown' <=> LossKnown)
  BY <1>1 DEF There, Dropped, ReadFrom, LossKnown, AfterCopy
<1>5. RxTyped'
  BY <1>1, <1>2, <1>3 DEF RxTyped
<1>6. RxRing' /\ RxPlace' /\ RxRead'
  BY <1>1, <1>2, <1>4 DEF RxHeld, RxRing, RxPlace, RxRead
<1>7. RxStage'
  <2>1. 0 <= BytesPerCommand
    BY RxSizes
  <2> QED
    BY <1>1, <2>1 DEF RxStage
<1> QED
  BY <1>5, <1>6, <1>7 DEF RxHeld

LEMMA RxIndicesKeeps ==
    ASSUME RxTyped, RxHeld, Rx!RxIndices
    PROVE  RxTyped' /\ RxHeld'
<1>1. /\ uartPc = "rx indices" /\ uartPc' = "rx count" /\ rx_num' = Rx!Minus(UartRxIndexI, UartRxIndexO)
      /\ UNCHANGED << UartRxIndexI, UartRxIndexO, UartRxBuf, GetRxCount, received, expected, lossTold, UartErrors,
                      request, rx_cnt, rx_data, came >>
  BY DEF Rx!RxIndices, Rx!rx, Rx!answer
<1>2. rx_num' \in Int
  BY <1>1, RxInts, MinusInt
<1>3. rx_num' = Rx!Minus(UartRxIndexI, UartRxIndexO)'
  BY <1>1 DEF Rx!Minus
<1>4. There' = There /\ Dropped' = Dropped /\ ReadFrom' = ReadFrom /\ (LossKnown' <=> LossKnown)
  BY <1>1 DEF There, Dropped, ReadFrom, LossKnown, AfterCopy
<1>5. RxTyped'
  BY <1>1, <1>2 DEF RxTyped
<1>6. RxRing' /\ RxPlace' /\ RxRead'
  BY <1>1, <1>4 DEF RxHeld, RxRing, RxPlace, RxRead
<1>7. RxStage'
  BY <1>1, <1>3 DEF RxHeld, RxStage
<1> QED
  BY <1>5, <1>6, <1>7 DEF RxHeld

LEMMA RxCountKeeps ==
    ASSUME RxSmall, RxTyped, RxHeld, Rx!RxCount
    PROVE  RxTyped' /\ RxHeld'
<1>1. /\ uartPc = "rx count"
      /\ UNCHANGED << UartRxIndexI, UartRxIndexO, UartRxBuf, GetRxCount, received, expected, lossTold,
                      request, rx_cnt, rx_data, came >>
  BY DEF Rx!RxCount, Rx!rx, Rx!answer
<1>2. (rx_num + GetRxCount) % IndexWord = There - UartRxIndexO
  BY <1>1, ThereIs DEF RxHeld, RxStage
<1>3. \/ /\ There - UartRxIndexO > Rx!RxLimit /\ uartPc' = "overflow" /\ rx_num' = Rx!RxLimit
         /\ UartErrors' = UartErrors \cup { "lost" }
      \/ /\ ~(There - UartRxIndexO > Rx!RxLimit) /\ uartPc' = "rx request" /\ rx_num' = There - UartRxIndexO
         /\ UartErrors' = UartErrors
  BY <1>2 DEF Rx!RxCount
<1>4. There' = There /\ Dropped' = Dropped /\ ReadFrom' = ReadFrom /\ (LossKnown => LossKnown') /\ ReadFrom = UartRxIndexO
  BY <1>1, <1>3 DEF There, Dropped, ReadFrom, LossKnown, AfterCopy
<1>5. RxTyped'
  <2>1. PICK t \in Int, l \in Int : t = There - UartRxIndexO /\ l = Rx!RxLimit
    BY RxInts
  <2>2. rx_num' \in { t, l }
    BY <1>3, <2>1
  <2>3. rx_num' \in Int
    BY <2>2
  <2> QED
    BY <1>1, <2>3 DEF RxTyped
<1>6. RxRing' /\ RxPlace' /\ RxRead'
  BY <1>1, <1>4 DEF RxHeld, RxRing, RxPlace, RxRead
<1>7. RxStage'
  <2>1. rx_data = << >> /\ came <= BytesPerCommand
    BY <1>1 DEF RxHeld, RxStage
  <2>2. CASE There - UartRxIndexO > Rx!RxLimit
    <3>1. uartPc' = "overflow" /\ rx_num' = Rx!RxLimit /\ "lost" \in UartErrors'
      BY <1>3, <2>2
    <3> QED
      BY <1>1, <1>4, <2>1, <2>2, <3>1 DEF RxStage
  <2>3. CASE ~(There - UartRxIndexO > Rx!RxLimit)
    <3>1. uartPc' = "rx request" /\ rx_num' = There - UartRxIndexO
      BY <1>3, <2>3
    <3>2. 0 <= There - UartRxIndexO
      BY RxInts DEF RxHeld, RxRing
    <3>3. There - UartRxIndexO <= received + 1 - expected
      <4>1. CASE Dropped + UartRxIndexO + 1 < expected
        <5>1. received + 1 - expected > Rx!RxLimit
          BY <1>4, <4>1 DEF RxHeld, RxPlace
        <5> QED
          BY <2>3, <5>1, RxInts
      <4>2. CASE ~(Dropped + UartRxIndexO + 1 < expected)
        <5>1. received = Dropped + There
          BY RxInts DEF Dropped
        <5> QED
          BY <4>2, <5>1, RxInts, SMTT(30)
      <4> QED
        BY <4>1, <4>2
    <3>4. There - UartRxIndexO < Rx!RxLimit + UART_RX_BLOCK_SIZE + came
      <4>1. came \in Nat /\ UART_RX_BLOCK_SIZE \in Nat \ {0}
        BY RxSizes DEF RxTyped
      <4> QED
        BY <2>3, <4>1, RxInts
    <3>5. PICK n \in Int : n = There - UartRxIndexO
      BY RxInts
    <3>6. 0 <= n /\ n <= There - UartRxIndexO /\ n <= received + 1 - expected /\ rx_num' = n
      <4>1. 0 <= n /\ n <= There - UartRxIndexO /\ n <= received + 1 - expected
        BY <3>2, <3>3, <3>5, RxInts
      <4> QED
        BY <3>1, <3>5, <4>1
    <3> QED
      BY <1>1, <1>4, <2>1, <3>1, <3>4, <3>6 DEF RxStage
  <2> QED
    BY <2>2, <2>3
<1> QED
  BY <1>5, <1>6, <1>7 DEF RxHeld

(* The index of the host jumps to what still lies in the buffer: ahead, or *)
(* back by less than the block that is being received.                     *)
LEMMA OverflowKeeps ==
    ASSUME RxSmall, RxTyped, RxHeld, Rx!Overflow
    PROVE  RxTyped' /\ RxHeld'
<1> DEFINE b == UART_RX_BLOCK_SIZE
<1>1. /\ uartPc = "overflow" /\ uartPc' = "rx request" /\ UartRxIndexO' = Rx!Minus(UartRxIndexI, rx_num)
      /\ UNCHANGED << UartRxIndexI, UartRxBuf, GetRxCount, received, expected, lossTold, UartErrors,
                      request, rx_num, rx_cnt, rx_data, came >>
  BY DEF Rx!Overflow, Rx!answer
<1>2. rx_num = Rx!RxLimit /\ There - UartRxIndexO > Rx!RxLimit /\ "lost" \in UartErrors
      /\ rx_data = << >> /\ came <= BytesPerCommand
  BY <1>1 DEF RxHeld, RxStage
<1>3. GetRxCount \in 0..b - 1 /\ UartRxIndexI % b = 0 /\ b \in Nat \ {0} /\ There = UartRxIndexI + GetRxCount
  BY RxSizes DEF RxTyped, RxHeld, RxRing, There
<1>4. PICK o \in Int : o = UartRxIndexI - Rx!RxLimit
  BY RxInts
<1>5. UartRxIndexI >= Rx!RxLimit
  <2>1. UartRxIndexI + GetRxCount > Rx!RxLimit
    <3>1. UartRxIndexO \in Nat
      BY DEF RxTyped
    <3>2. There > Rx!RxLimit
      BY <1>2, <3>1, RxInts
    <3> QED
      BY <1>3, <3>2
  <2>2. UartRxIndexI \in Nat
    BY DEF RxTyped
  <2> QED
    BY <1>3, <2>1, <2>2, Aligned
<1>6. UartRxIndexO' = o /\ o \in Nat
  <2>1. UartRxIndexI - Rx!RxLimit \in 0..IndexWord - 1
    <3>1. UartRxIndexI \in 0..IndexWord - 1 /\ Rx!RxLimit \in Nat
      BY Fits DEF RxHeld
    <3> QED
      BY <1>5, <3>1, RxSizes
  <2>2. Rx!Minus(UartRxIndexI, Rx!RxLimit) = o
    BY <1>4, <2>1, RxInts, MinusSmall
  <2> QED
    <3>1. UartRxIndexO' = o
      BY <1>1, <1>2, <2>2
    <3>2. o \in Nat
      BY <1>4, <1>5, RxInts
    <3> QED
      BY <3>1, <3>2
<1>7. There' = There /\ Dropped' = Dropped /\ ReadFrom = UartRxIndexO /\ ReadFrom' = o /\ LossKnown'
  BY <1>1, <1>2, <1>6 DEF There, Dropped, ReadFrom, LossKnown, AfterCopy
<1>8. /\ expected < Dropped + UartRxIndexO + 1 + b
      /\ Dropped + UartRxIndexO + 1 < expected =>
            UartRxIndexI - UartRxIndexO >= Rx!RxLimit /\ received + 1 - expected > Rx!RxLimit
  BY <1>7 DEF RxHeld, RxPlace
<1>9. received = Dropped + There
  BY RxInts DEF Dropped
<1>10. expected < Dropped + o + 1 + b
  <2>1. CASE Dropped + UartRxIndexO + 1 < expected
    <3>1. UartRxIndexI - UartRxIndexO >= Rx!RxLimit
      BY <1>8, <2>1
    <3>2. UartRxIndexO <= o
      BY <1>4, <3>1, RxInts
    <3>3. expected < Dropped + UartRxIndexO + 1 + b
      BY <1>8
    <3> QED
      BY <3>2, <3>3, RxInts, SMTT(30)
  <2>2. CASE ~(Dropped + UartRxIndexO + 1 < expected)
    <3>1. UartRxIndexO < o + GetRxCount
      <4>1. There - UartRxIndexO > Rx!RxLimit
        BY <1>2
      <4>2. There = UartRxIndexI + GetRxCount
        BY <1>3
      <4>3. PICK t \in Int, l \in Int, i \in Int, g \in Int, u \in Int :
               t = There /\ l = Rx!RxLimit /\ i = UartRxIndexI /\ g = GetRxCount /\ u = UartRxIndexO
        BY RxInts
      <4>4. t - u > l /\ t = i + g /\ o = i - l
        BY <1>4, <4>1, <4>2, <4>3
      <4>5. u < o + g
        BY <4>4
      <4> QED
        BY <4>3, <4>5
    <3>2. PICK d \in Int, u \in Int, g \in Int, k \in Int, e \in Int :
             d = Dropped /\ u = UartRxIndexO /\ g = GetRxCount /\ k = b /\ e = expected
      BY RxInts
    <3>3. u < o + g /\ g < k /\ e <= d + u + 1
      <4>1. GetRxCount < b
        BY <1>3
      <4>2. expected <= Dropped + UartRxIndexO + 1
        BY <2>2, RxInts
      <4> QED
        BY <3>1, <3>2, <4>1, <4>2
    <3>4. e < d + o + 1 + k
      BY <3>3
    <3> QED
      BY <3>2, <3>4
  <2> QED
    BY <2>1, <2>2
<1>11. received + 1 - expected > Rx!RxLimit
  <2>1. CASE Dropped + UartRxIndexO + 1 < expected
    BY <1>8, <2>1
  <2>2. CASE ~(Dropped + UartRxIndexO + 1 < expected)
    <3>1. There - UartRxIndexO > Rx!RxLimit
      BY <1>2
    <3> QED
      BY <1>9, <2>2, <3>1, RxInts, SMTT(30)
  <2> QED
    BY <2>1, <2>2
<1>12. o <= There /\ Rx!RxLimit <= There - o /\ UartRxIndexI - o >= Rx!RxLimit
       /\ There - o < Rx!RxLimit + b + came /\ Rx!RxLimit <= received + 1 - expected /\ 0 <= Rx!RxLimit
  <2>1. came \in Nat
    BY DEF RxTyped
  <2>2. Rx!RxLimit \in Nat
    BY Fits DEF RxHeld
  <2>3. There - o = Rx!RxLimit + GetRxCount
    BY <1>3, <1>4, RxInts, SMTT(30)
  <2>4. GetRxCount \in 0..b - 1 /\ b \in Nat
    BY <1>3
  <2>5. o <= There /\ Rx!RxLimit <= There - o /\ There - o < Rx!RxLimit + b + came
    BY <2>1, <2>2, <2>3, <2>4, RxInts
  <2>6. UartRxIndexI - o >= Rx!RxLimit
    BY <1>4, RxInts
  <2>7. Rx!RxLimit <= received + 1 - expected
    BY <1>11, RxInts
  <2> QED
    BY <2>2, <2>5, <2>6, <2>7
<1>13. RxTyped'
  BY <1>1, <1>6 DEF RxTyped
<1>14. RxRing'
  BY <1>1, <1>6, <1>7, <1>12 DEF RxHeld, RxRing
<1>15. RxPlace'
  <2>1. 0 <= o
    BY <1>6
  <2> QED
    BY <1>1, <1>7, <1>10, <1>11, <1>12, <2>1 DEF RxPlace
<1>16. RxRead'
  <2>1. Len(rx_data') = 0
    BY <1>1, <1>2
  <2>2. \A j \in 1..0 : FALSE
    OBVIOUS
  <2> QED
    BY <2>1, <2>2 DEF RxRead
<1>17. RxStage'
  BY <1>1, <1>2, <1>6, <1>7, <1>12 DEF RxStage
<1> QED
  BY <1>13, <1>14, <1>15, <1>16, <1>17 DEF RxHeld

LEMMA RxRequestKeeps ==
    ASSUME RxTyped, RxHeld, Rx!RxRequest
    PROVE  RxTyped' /\ RxHeld'
<1>1. /\ uartPc = "rx request"
      /\ UNCHANGED << UartRxIndexI, UartRxIndexO, UartRxBuf, GetRxCount, received, expected, lossTold, UartErrors,
                      request, rx_num, rx_data, came >>
      /\ \/ uartPc' = "answer" /\ request = << 0, 0 >> /\ rx_cnt' = rx_num
         \/ uartPc' = "copy" /\ request # << 0, 0 >> /\ rx_cnt' = Rx!Least(request[1], rx_num)
  BY DEF Rx!RxRequest, Rx!rx, Rx!answer
<1>2. /\ rx_data = << >> /\ came <= BytesPerCommand
      /\ 0 <= rx_num /\ rx_num <= There - UartRxIndexO /\ rx_num <= received + 1 - expected
      /\ There - UartRxIndexO < Rx!RxLimit + UART_RX_BLOCK_SIZE + came
  BY <1>1 DEF RxHeld, RxStage
<1>3. There' = There /\ Dropped' = Dropped /\ ReadFrom' = ReadFrom /\ (LossKnown' <=> LossKnown)
  <2>1. Len(rx_data) = 0
    BY <1>2
  <2>2. UartRxIndexO - 0 = UartRxIndexO
    BY RxInts
  <2>3. ReadFrom' = ReadFrom
    BY <1>1, <2>1, <2>2 DEF ReadFrom, AfterCopy
  <2> QED
    BY <1>1, <2>3 DEF There, Dropped, LossKnown
<1>4. PICK a \in Nat, n \in Int : a = request[1] /\ n = rx_num
  BY DEF RxTyped
<1>5. Rx!Least(a, n) \in Int /\ Rx!Least(a, n) <= n /\ (0 <= n => 0 <= Rx!Least(a, n))
  BY DEF Rx!Least
<1>6. RxTyped'
  <2>1. rx_cnt' \in Int
    BY <1>1, <1>4, <1>5
  <2> QED
    BY <1>1, <2>1 DEF RxTyped
<1>7. RxRing' /\ RxPlace' /\ RxRead'
  BY <1>1, <1>3 DEF RxHeld, RxRing, RxPlace, RxRead
<1>8. RxStage'
  <2>1. CASE uartPc' = "answer"
    <3>1. request = << 0, 0 >> /\ rx_cnt' = rx_num
      BY <1>1, <2>1
    <3> QED
      BY <1>1, <1>2, <2>1, <3>1 DEF RxStage
  <2>2. CASE uartPc' = "copy"
    <3>1. request # << 0, 0 >> /\ rx_cnt' = Rx!Least(a, n)
      BY <1>1, <1>4, <2>2
    <3>2. Len(rx_data) = 0
      BY <1>2
    <3>3. PICK c \in Int : c = Rx!Least(a, n)
      BY <1>5
    <3>4. 0 <= c /\ c <= rx_num
      BY <1>2, <1>4, <1>5, <3>3
    <3>5. c <= There - UartRxIndexO
      BY <1>2, <1>4, <3>4, RxInts
    <3>6. 0 <= rx_cnt' /\ rx_cnt' <= There - UartRxIndexO
      BY <3>1, <3>3, <3>4, <3>5
    <3> QED
      BY <1>1, <1>2, <1>3, <2>2, <3>1, <3>2, <3>6 DEF RxStage
  <2> QED
    BY <1>1, <2>1, <2>2
<1> QED
  BY <1>6, <1>7, <1>8 DEF RxHeld

(* What is copied is still there: the buffer takes one round of bytes, and *)
(* two blocks of it are kept free.                                         *)
LEMMA CopyKeeps ==
    ASSUME RxSmall, RxTyped, RxHeld, Rx!Copy
    PROVE  RxTyped' /\ RxHeld'
<1>1. /\ uartPc = "copy"
      /\ UNCHANGED << UartRxIndexI, UartRxBuf, GetRxCount, received, expected, lossTold, UartErrors,
                      request, rx_num, rx_cnt, came >>
  BY DEF Rx!Copy, Rx!answer
<1>2. /\ came <= BytesPerCommand /\ There - UartRxIndexO < Rx!RxLimit + UART_RX_BLOCK_SIZE + came
      /\ Len(rx_data) <= rx_cnt /\ rx_cnt <= There - UartRxIndexO /\ request # << 0, 0 >>
  BY <1>1 DEF RxHeld, RxStage
<1>3. There' = There /\ Dropped' = Dropped /\ (LossKnown' <=> LossKnown) /\ ReadFrom = UartRxIndexO
  BY <1>1 DEF There, Dropped, LossKnown, ReadFrom, AfterCopy
<1>4. PICK c \in Int, o \in Nat, n \in Nat, t \in Int, d \in Int :
        c = rx_cnt /\ o = UartRxIndexO /\ n = Len(rx_data) /\ t = There /\ d = Dropped
  BY RxInts DEF RxTyped
<1>5. rx_data \in Seq(Int) /\ n <= c /\ c <= t - o /\ o <= t
  BY <1>2, <1>4 DEF RxTyped, RxHeld, RxRing
<1>6. CASE Len(rx_data) < rx_cnt
  <2>1. /\ rx_data' = Append(rx_data, UartRxBuf[RxAt(UartRxIndexO + Len(rx_data))])
        /\ uartPc' = "copy" /\ UartRxIndexO' = UartRxIndexO
    BY <1>1, <1>6 DEF Rx!Copy, RxAt
  <2>2. UartRxBuf[RxAt(o + n)] = d + (o + n) + 1
    <3>1. \A k \in 0..There - 1 : There - k <= DAP_UART_RX_BUFFER_SIZE => UartRxBuf[RxAt(k)] = Dropped + k + 1
      BY DEF RxHeld, RxRing
    <3>2. \A k \in 0..t - 1 : t - k <= DAP_UART_RX_BUFFER_SIZE => UartRxBuf[RxAt(k)] = d + k + 1
      BY <1>4, <3>1
    <3>3. o + n \in 0..t - 1
      BY <1>4, <1>5, <1>6
    <3>4. t - (o + n) <= DAP_UART_RX_BUFFER_SIZE
      <4>1. PICK l \in Int, b \in Int, m \in Int, p \in Int, r \in Int :
              l = Rx!RxLimit /\ b = UART_RX_BLOCK_SIZE /\ m = came /\ p = BytesPerCommand /\ r = DAP_UART_RX_BUFFER_SIZE
        BY RxSizes, RxInts DEF RxTyped
      <4>2. t - o < l + b + m /\ m <= p
        BY <1>2, <1>4, <4>1
      <4>3. p <= b
        BY <4>1 DEF RxSmall
      <4>4. l + 2 * b = r
        BY <4>1, Fits DEF RxHeld
      <4>5. t - (o + n) <= r
        BY <4>2, <4>3, <4>4
      <4> QED
        BY <4>1, <4>5
    <3> QED
      BY <3>2, <3>3, <3>4
  <2>3. rx_data' = Append(rx_data, d + o + (n + 1)) /\ d + o + (n + 1) \in Int
    BY <1>4, <2>1, <2>2
  <2>4. /\ rx_data' \in Seq(Int) /\ Len(rx_data') = n + 1 /\ rx_data'[n + 1] = d + o + (n + 1)
        /\ \A j \in 1..n : rx_data'[j] = rx_data[j]
    BY <1>4, <1>5, <2>3
  <2>5. ReadFrom' = ReadFrom
    BY <2>1, <1>3 DEF ReadFrom, AfterCopy
  <2>6. RxTyped'
    BY <1>1, <2>1, <2>4 DEF RxTyped
  <2>7. RxRing' /\ RxPlace'
    BY <1>1, <1>3, <2>1, <2>5 DEF RxHeld, RxRing, RxPlace
  <2>8. RxRead'
    <3>1. \A j \in 1..n : rx_data[j] = d + o + j
      BY <1>3, <1>4 DEF RxHeld, RxRead
    <3>2. ASSUME NEW j \in 1..n + 1
          PROVE  rx_data'[j] = d + o + j
      <4>1. CASE j = n + 1
        BY <2>4, <4>1
      <4>2. CASE j # n + 1
        <5>1. j \in 1..n
          BY <1>4, <4>2
        <5> QED
          BY <2>4, <3>1, <5>1
      <4> QED
        BY <4>1, <4>2
    <3>3. d = Dropped' /\ o = ReadFrom'
      BY <1>3, <1>4, <2>5
    <3> QED
      BY <2>4, <3>2, <3>3 DEF RxRead
  <2>9. RxStage'
    <3>1. Len(rx_data') <= rx_cnt
      BY <1>4, <1>6, <2>4
    <3>2. rx_cnt <= There - UartRxIndexO /\ uartPc' = "copy"
      BY <1>2, <2>1
    <3> QED
      BY <1>1, <1>2, <1>3, <2>1, <3>1, <3>2 DEF RxStage
  <2> QED
    BY <2>6, <2>7, <2>8, <2>9 DEF RxHeld
<1>7. CASE ~(Len(rx_data) < rx_cnt)
  <2>1. rx_data' = rx_data /\ uartPc' = "tx indices" /\ UartRxIndexO' = (UartRxIndexO + rx_cnt) % IndexWord
    BY <1>1, <1>7 DEF Rx!Copy
  <2>2. c = n
    BY <1>4, <1>5, <1>7
  <2>3. o + c \in 0..IndexWord - 1 /\ o + c \in Nat
    <3>1. t \in 0..IndexWord - 1 /\ IndexWord \in Nat \ {0}
      BY <1>4, Fits, RxSizes DEF RxHeld
    <3> QED
      BY <1>4, <1>5, <2>2, <3>1
  <2>4. UartRxIndexO' = o + c
    <3>1. (o + c) % IndexWord = o + c
      BY <2>3, WrappedSmall
    <3> QED
      BY <1>4, <2>1, <3>1
  <2>5. PICK p \in Int : p = UartRxIndexO' /\ p = o + c
    BY <2>3, <2>4
  <2>6. ReadFrom' = ReadFrom
    <3>1. ReadFrom' = p - n
      BY <1>4, <2>1, <2>5 DEF ReadFrom, AfterCopy
    <3>2. p - n = o
      BY <2>2, <2>5
    <3> QED
      BY <1>3, <1>4, <3>1, <3>2
  <2>7. RxTyped'
    BY <1>1, <2>1, <2>3, <2>4 DEF RxTyped
  <2>8. RxRing'
    <3>1. o + c <= t
      BY <1>5
    <3>2. UartRxIndexO' <= There'
      BY <1>3, <1>4, <2>4, <3>1
    <3> QED
      BY <1>1, <1>3, <3>2 DEF RxHeld, RxRing
  <2>9. RxPlace' /\ RxRead'
    BY <1>1, <1>3, <2>1, <2>6 DEF RxHeld, RxPlace, RxRead
  <2>10. RxStage'
    BY <1>1, <1>2, <2>1 DEF RxStage
  <2> QED
    BY <2>7, <2>8, <2>9, <2>10 DEF RxHeld
<1> QED
  BY <1>6, <1>7

LEMMA AnswerKeeps ==
    ASSUME RxTyped, RxHeld, Rx!Answer
    PROVE  RxTyped' /\ RxHeld'
<1>1. /\ uartPc = "answer" /\ uartPc' = "idle" /\ came' = 0 /\ rx_data' = << >>
      /\ request' = << 0, 0 >> /\ rx_num' = 0 /\ rx_cnt' = 0
      /\ lossTold' = (rx_data = << >> /\ (lossTold \/ "lost" \in UartErrors)) /\ UartErrors' = {}
      /\ expected' = IF rx_data = << >> THEN expected ELSE rx_data[Len(rx_data)] + 1
      /\ UNCHANGED << UartRxIndexI, UartRxIndexO, UartRxBuf, GetRxCount, received >>
  BY DEF Rx!Answer
<1>2. There' = There /\ Dropped' = Dropped /\ ReadFrom = UartRxIndexO - Len(rx_data) /\ ReadFrom' = UartRxIndexO
  BY <1>1 DEF There, Dropped, ReadFrom, AfterCopy
<1>3. PICK d \in Int, o \in Nat, b \in Nat \ {0} :
        d = Dropped /\ o = UartRxIndexO /\ b = UART_RX_BLOCK_SIZE
  BY RxInts, RxSizes DEF RxTyped
<1>8. 0 <= d
  BY <1>3, RxInts DEF Dropped, RxHeld, RxRing
<1>4. /\ expected' \in Nat \ {0} /\ expected' < Dropped' + ReadFrom' + 1 + UART_RX_BLOCK_SIZE
      /\ expected' = Dropped' + ReadFrom' + 1 \/ LossKnown'
      /\ Dropped' + ReadFrom' + 1 < expected' =>
            UartRxIndexI - ReadFrom' >= Rx!RxLimit /\ received + 1 - expected' > Rx!RxLimit
  <2>1. CASE rx_data = << >>
    <3>1. Len(rx_data) = 0
      BY <2>1
    <3>2. ReadFrom = o /\ ReadFrom' = o
      BY <1>2, <1>3, <3>1
    <3>3. expected' = expected /\ (LossKnown' <=> LossKnown)
      BY <1>1, <2>1 DEF LossKnown
    <3> QED
      BY <1>2, <3>2, <3>3 DEF RxHeld, RxPlace, RxTyped
  <2>2. CASE rx_data # << >>
    <3>1. PICK n \in Nat \ {0} : n = Len(rx_data)
      BY <2>2 DEF RxTyped
    <3>2. rx_data[n] = d + (o - n) + n
      <4>1. ReadFrom = o - n
        BY <1>2, <1>3, <3>1
      <4>2. \A j \in 1..n : rx_data[j] = d + (o - n) + j
        BY <1>3, <3>1, <4>1 DEF RxHeld, RxRead
      <4>3. n \in 1..n
        BY <3>1
      <4> QED
        BY <4>2, <4>3
    <3>3. d + (o - n) + n = d + o
      BY <3>1
    <3>4. expected' = d + o + 1
      BY <1>1, <2>2, <3>1, <3>2, <3>3
    <3>5. d + o + 1 \in Nat \ {0} /\ d + o + 1 < d + o + 1 + b /\ ~(d + o + 1 < d + o + 1)
      BY <1>8
    <3>6. Dropped' = d /\ ReadFrom' = o
      BY <1>2, <1>3
    <3> QED
      BY <1>3, <3>4, <3>5, <3>6
  <2> QED
    BY <2>1, <2>2
<1>5. RxTyped'
  BY <1>1, <1>4 DEF RxTyped
<1>6. RxRing' /\ RxRead'
  <2>1. \A j \in 1..0 : FALSE
    OBVIOUS
  <2>2. Len(rx_data') = 0
    BY <1>1
  <2> QED
    BY <1>1, <1>2, <2>1, <2>2 DEF RxHeld, RxRing, RxRead
<1>7. RxPlace' /\ RxStage'
  <2>1. 0 <= ReadFrom'
    BY <1>2, <1>3
  <2> QED
    BY <1>1, <1>4, <2>1 DEF RxPlace, RxStage
<1> QED
  BY <1>5, <1>6, <1>7 DEF RxHeld

(* RxCleared, between commands. *)
LEMMA ClearedKeeps ==
    ASSUME RxTyped, Rx!RxCleared, uartPc' = "idle", rx_data' = << >>, UNCHANGED << request, rx_num, rx_cnt, came >>
    PROVE  RxTyped' /\ RxHeld'
<1>1. /\ UartRxIndexI' = 0 /\ UartRxIndexO' = 0 /\ GetRxCount' = 0 /\ expected' = received + 1
      /\ UNCHANGED << UartRxBuf, received >>
  BY DEF Rx!RxCleared
<1>2. There' = 0
  BY <1>1 DEF There
<1>3. received \in Nat /\ received \in 0..MaxReceived /\ UART_RX_BLOCK_SIZE \in Nat \ {0} /\ received' = received
  BY <1>1, RxSizes DEF RxTyped
<1>4. Dropped' = received /\ ReadFrom' = 0
  BY <1>1, <1>2, <1>3 DEF Dropped, ReadFrom, AfterCopy
<1>5. RxTyped'
  BY <1>1, <1>3 DEF RxTyped
<1>6. RxRing'
  <2>1. UartRxIndexI' % UART_RX_BLOCK_SIZE = 0
    <3>1. 0 % UART_RX_BLOCK_SIZE = 0
      BY <1>3
    <3> QED
      BY <1>1, <3>1
  <2>2. \A k \in 0..0 - 1 : FALSE
    OBVIOUS
  <2> QED
    BY <1>1, <1>2, <1>3, <2>1, <2>2 DEF RxRing
<1>7. RxPlace'
  <2>1. expected' = Dropped' + ReadFrom' + 1 /\ 0 <= ReadFrom'
    BY <1>1, <1>3, <1>4
  <2>2. PICK e \in Int : e = expected' /\ e = Dropped' + ReadFrom' + 1
    BY <1>1, <1>3, <2>1
  <2>3. e < e + UART_RX_BLOCK_SIZE /\ ~(e < e)
    BY <1>3
  <2> QED
    BY <2>1, <2>2, <2>3 DEF RxPlace
<1>8. RxRead'
  <2>1. Len(rx_data') = 0
    OBVIOUS
  <2>2. \A j \in 1..0 : FALSE
    OBVIOUS
  <2> QED
    BY <2>1, <2>2 DEF RxRead
<1>9. RxStage'
  BY DEF RxStage
<1> QED
  BY <1>5, <1>6, <1>7, <1>8, <1>9 DEF RxHeld

LEMMA RxRest ==
    ASSUME RxSound,
           UNCHANGED << UartTransport, UartReceiveEnabled, counts, lossTold >>,
           UNCHANGED << UartRxIndexI, UartRxIndexO, GetRxCount, UartRxBuf, received, expected >>,
           UNCHANGED << request, rx_num, rx_cnt, rx_data, came >>,
           "lost" \in UartErrors => "lost" \in UartErrors',
           \/ uartPc' = uartPc
           \/ uartPc \in AfterCopy /\ uartPc # "answer" /\ uartPc' \in AfterCopy
    PROVE  RxSound'
<1>1. RxTyped /\ Rx!CountIsThere /\ (UartTransport = "DAP_COMMAND" => RxHeld)
      /\ (UartTransport # "DAP_COMMAND" => uartPc = "idle" /\ ~UartReceiveEnabled /\ rx_data = << >>)
  BY DEF RxSound
<1>2. Rx!CountIsThere'
  BY <1>1 DEF Rx!CountIsThere
<1>3. CASE UartTransport = "DAP_COMMAND"
  <2>1. RxTyped' /\ RxHeld'
    BY <1>1, <1>3, RxStays
  <2> QED
    BY <1>2, <1>3, <2>1 DEF RxSound
<1>4. CASE UartTransport # "DAP_COMMAND"
  <2>1. RxTyped'
    BY <1>1 DEF RxTyped
  <2>2. uartPc' = "idle" /\ ~UartReceiveEnabled' /\ rx_data' = << >> /\ UartTransport' # "DAP_COMMAND"
    BY <1>1, <1>4 DEF AfterCopy
  <2> QED
    BY <1>2, <2>1, <2>2 DEF RxSound
<1> QED
  BY <1>3, <1>4

LEMMA RxCommandStep ==
    ASSUME RxSmall, RxSound, ~uartTorn', UartTransport = "DAP_COMMAND",
           \/ Rx!ReceiveByte \/ Rx!UART_Status \/ Transferred \/ Rx!RxIndices \/ Rx!RxCount \/ Rx!Overflow \/ Rx!RxRequest
           \/ Rx!Copy \/ Rx!Answer
    PROVE  RxSound'
<1>1. RxTyped /\ RxHeld /\ Rx!CountIsThere
  BY DEF RxSound
<1>2. UartTransport' = "DAP_COMMAND"
  BY DEF Rx!ReceiveByte, Rx!UART_Status, Transferred, Rx!RxIndices, Rx!RxCount, Rx!Overflow, Rx!RxRequest, Rx!Copy, Rx!Answer,
         Rx!settings
<1>3. RxTyped' /\ RxHeld'
  BY <1>1, RxByte, RxBegin, RxIndicesKeeps, RxCountKeeps, OverflowKeeps, RxRequestKeeps, CopyKeeps, AnswerKeeps
<1>4. Rx!CountIsThere'
  <2>1. CASE Rx!Answer
    <3>1. /\ uartPc = "answer"
          /\ counts' = IF request = << 0, 0 >> THEN << rx_cnt, received + 1 - expected >> ELSE << 0, 0 >>
      BY <2>1 DEF Rx!Answer
    <3>2. CASE request = << 0, 0 >>
      <4>1. rx_cnt <= received + 1 - expected
        BY <1>1, <3>1, <3>2 DEF RxHeld, RxStage
      <4>2. counts' = << rx_cnt, received + 1 - expected >>
        BY <3>1, <3>2
      <4> QED
        BY <4>1, <4>2 DEF Rx!CountIsThere
    <3>3. CASE request # << 0, 0 >>
      <4>1. counts' = << 0, 0 >>
        BY <3>1, <3>3
      <4> QED
        BY <4>1 DEF Rx!CountIsThere
    <3> QED
      BY <3>2, <3>3
  <2>2. CASE ~Rx!Answer
    <3>1. counts' = counts
      BY <2>2 DEF Rx!ReceiveByte, Rx!UART_Status, Transferred, Rx!RxIndices, Rx!RxCount, Rx!Overflow, Rx!RxRequest, Rx!Copy,
         Rx!answer
    <3> QED
      BY <1>1, <3>1 DEF Rx!CountIsThere
  <2> QED
    BY <2>1, <2>2
<1> QED
  BY <1>2, <1>3, <1>4 DEF RxSound

(* A request to stop receiving flushes the buffer as well. *)
LEMMA RxControlled ==
    ASSUME RxSound, Controlled
    PROVE  RxSound'
<1>1. PICK control \in RxControls \cup TxControls : Rx!ControlRx(control)
  BY DEF Controlled
<1>2. /\ uartPc = "idle" /\ UartTransport = "DAP_COMMAND"
      /\ UNCHANGED << UartTransport, UartErrors, uartPc, lossTold, counts, request, rx_num, rx_cnt, rx_data, came >>
  BY DEF Controlled, Rx!command, Rx!answer
<1>3. RxTyped /\ RxHeld /\ Rx!CountIsThere
  BY <1>2 DEF RxSound
<1>4. rx_data = << >>
  BY <1>2, <1>3 DEF RxHeld, RxStage
<1>5. "RX_DISABLE" \in control => "RX_BUF_FLUSH" \in control
  BY DEF RxControls, TxControls
<1>6. \/ Rx!RxCleared
      \/ UNCHANGED << UartRxIndexI, UartRxIndexO, GetRxCount, UartRxBuf, received, expected >>
  BY <1>1, <1>5 DEF Rx!ControlRx
<1>7. RxTyped' /\ RxHeld'
  <2>1. CASE Rx!RxCleared
    BY <1>2, <1>3, <1>4, <2>1, ClearedKeeps
  <2>2. CASE UNCHANGED << UartRxIndexI, UartRxIndexO, GetRxCount, UartRxBuf, received, expected >>
    BY <1>2, <1>3, <2>2, RxStays
  <2> QED
    BY <1>6, <2>1, <2>2
<1>8. Rx!CountIsThere'
  BY <1>2, <1>3 DEF Rx!CountIsThere
<1> QED
  BY <1>2, <1>7, <1>8 DEF RxSound

LEMMA RxTransport ==
    ASSUME RxSound, Rx!UART_Transport
    PROVE  RxSound'
<1>1. uartPc = "idle" /\ UNCHANGED << uartPc, lossTold, counts, request, rx_num, rx_cnt, rx_data, came >>
      /\ UartReceiveEnabled' = FALSE
  BY DEF Rx!UART_Transport, Rx!command, Rx!answer
<1>2. RxTyped /\ Rx!CountIsThere' /\ rx_data = << >>
  BY <1>1 DEF RxSound, Rx!CountIsThere, RxHeld, RxStage
<1>3. CASE Rx!RxCleared
  BY <1>1, <1>2, <1>3, ClearedKeeps DEF RxSound
<1>4. CASE UartTransport' = "NONE" /\ UNCHANGED << UartRxIndexI, UartRxIndexO, UartRxBuf, received, expected >>
            /\ GetRxCount' \in { 0, GetRxCount }
  <2>1. RxTyped'
    BY <1>1, <1>2, <1>4 DEF RxTyped
  <2> QED
    BY <1>1, <1>2, <1>4, <2>1 DEF RxSound
<1> QED
  BY <1>3, <1>4 DEF Rx!UART_Transport, Rx!Receive_Disable

LEMMA RxSoundStep ==
    ASSUME RxSmall, RxSound, ~uartTorn', UartChange
    PROVE  RxSound'
<1> USE DEF Rx!settings, Rx!rx, Rx!tx, Rx!command, Rx!answer
<1>1. CASE Rx!ReceiveByte
  <2>1. UartTransport = "DAP_COMMAND"
    BY <1>1 DEF Rx!ReceiveByte, RxSound
  <2> QED
    BY <1>1, <2>1, RxCommandStep
<1>2. CASE Rx!UART_Status \/ Transferred
  <2>1. UartTransport = "DAP_COMMAND"
    BY <1>2 DEF Rx!UART_Status, Transferred
  <2> QED
    BY <1>2, <2>1, RxCommandStep
<1>3. CASE Rx!RxIndices \/ Rx!RxCount \/ Rx!Overflow \/ Rx!RxRequest \/ Rx!Copy \/ Rx!Answer
  <2>1. uartPc # "idle"
    BY <1>3 DEF Rx!RxIndices, Rx!RxCount, Rx!Overflow, Rx!RxRequest, Rx!Copy, Rx!Answer
  <2>2. UartTransport = "DAP_COMMAND"
    BY <2>1 DEF RxSound
  <2> QED
    BY <1>3, <2>2, RxCommandStep
<1>4. CASE Rx!UART_Transport
  BY <1>4, RxTransport
<1>5. CASE Controlled
  BY <1>5, RxControlled
<1>6. CASE Rx!SendByte \/ Rx!LineError \/ Rx!UART_Configure
  BY <1>6, RxRest DEF Rx!SendByte, Rx!LineError, Rx!UART_Configure
<1>7. CASE Rx!TxIndices \/ Rx!TxCount \/ Rx!TxActive \/ Rx!PutData \/ Rx!StartTransmit
  BY <1>7, RxRest DEF AfterCopy, Rx!TxIndices, Rx!TxCount, Rx!TxActive, Rx!PutData, Rx!StartTransmit
<1> QED
  BY <1>1, <1>2, <1>3, <1>4, <1>5, <1>6, <1>7 DEF UartChange

LEMMA RxInvStep ==
    ASSUME RxSmall, RxInv, UartChange \/ UNCHANGED dapUart
    PROVE  RxInv'
<1>1. SUFFICES ASSUME ~uartTorn'
               PROVE  RxSound'
  BY DEF RxInv
<1>2. RxSound
  BY <1>1, UartTornStays DEF RxInv
<1>3. CASE UartChange
  BY <1>1, <1>2, <1>3, RxSoundStep
<1>4. CASE UNCHANGED dapUart
  BY <1>2, <1>4, RxRest DEF dapUart
<1> QED
  BY <1>3, <1>4

LEMMA RxSafe ==
    ASSUME RxSmall
    PROVE  Spec => [](RxInv /\ RxQuiet)
<1>1. Init => RxInv /\ RxQuiet
  <2> SUFFICES ASSUME Init
               PROVE  RxInv /\ RxQuiet
    OBVIOUS
  <2>1. Rx!Init
    BY DEF Init
  <2>2. UartTransport = "NONE" /\ uartPc = "idle" /\ UartReceiveEnabled = FALSE /\ rx_data = << >> /\ counts = << 0, 0 >>
    BY <2>1 DEF Rx!Init
  <2>3. RxTyped
    BY <2>1, RxSizes DEF Rx!Init, RxTyped
  <2>4. Rx!CountIsThere
    BY <2>2 DEF Rx!CountIsThere
  <2> QED
    BY <2>2, <2>3, <2>4 DEF RxInv, RxSound, RxQuiet
<1>2. RxInv /\ RxQuiet /\ [Next]_vars => (RxInv /\ RxQuiet)'
  <2> SUFFICES ASSUME RxInv, RxQuiet, [Next]_vars
               PROVE  RxInv' /\ RxQuiet'
    OBVIOUS
  <2>1. CASE Next
    <3>1. (UartChange \/ UNCHANGED dapUart) /\ RxQuiet'
      BY <2>1, UartSteps
    <3> QED
      BY <3>1, RxInvStep
  <2>2. CASE UNCHANGED vars
    <3>1. RxInv'
      BY <2>2, RxInvStep DEF vars
    <3> QED
      BY <2>2, <3>1 DEF vars, dapUart, RxQuiet
  <2> QED
    BY <2>1, <2>2
<1> QED
  BY <1>1, <1>2, PTL DEF Spec

(* What UART_Transfer hands over came in this order and was not overwritten *)
(* while it was copied, and where it does not go on where the last one      *)
(* ended a loss is reported; UART_Status promises no byte that is not       *)
(* there; between commands the transmitter does not rest while there is     *)
(* something to send.  For any size of the buffers, as long as no block has *)
(* ended between the reads of an index and of its count, for at most a      *)
(* block of bytes that come while a command runs, and for fewer bytes in    *)
(* all than an index counts.                                                *)
THEOREM BuffersTrue ==
    ASSUME MaxReceived < IndexWord, BytesPerCommand <= UART_RX_BLOCK_SIZE
    PROVE  Spec => []BuffersSound
<1>1. RxSmall
  BY DEF RxSmall
<1>2. ASSUME RxSound
      PROVE  Rx!ReadInOrder
  <2> SUFFICES ASSUME uartPc = "answer", rx_data # << >>
               PROVE  /\ \A i \in 2..Len(rx_data): rx_data[i] = rx_data[i - 1] + 1
                      /\ \/ rx_data[1] = expected
                         \/ (rx_data[1] > expected - UART_RX_BLOCK_SIZE /\ LossKnown)
                      /\ rx_data[Len(rx_data)] <= received
    BY DEF Rx!ReadInOrder, LossKnown
  <2>1. UartTransport = "DAP_COMMAND" /\ RxTyped /\ RxHeld
    BY <1>2 DEF RxSound
  <2>2. PICK d \in Int, o \in Int, n \in Nat \ {0}, b \in Int, e \in Int :
          d = Dropped /\ o = UartRxIndexO /\ n = Len(rx_data) /\ b = UART_RX_BLOCK_SIZE /\ e = expected
    <3>1. Len(rx_data) \in Nat \ {0}
      BY <2>1 DEF RxTyped
    <3> QED
      BY <2>1, <3>1, RxInts
  <2>3. PICK f \in Int : f = ReadFrom /\ f = o - n
    BY <2>2, SMTT(30) DEF ReadFrom, AfterCopy
  <2>4. \A j \in 1..n : rx_data[j] = d + f + j
    BY <2>1, <2>2, <2>3 DEF RxHeld, RxRead
  <2>5. ASSUME NEW i \in 2..n
        PROVE  rx_data[i] = rx_data[i - 1] + 1
    <3>1. rx_data[i] = d + f + i /\ rx_data[i - 1] = d + f + (i - 1)
      BY <2>2, <2>4
    <3> QED
      BY <3>1
  <2>6. rx_data[1] = expected \/ (rx_data[1] > expected - UART_RX_BLOCK_SIZE /\ LossKnown)
    <3>1. rx_data[1] = d + f + 1
      BY <2>2, <2>4
    <3>2. e < d + f + 1 + b /\ (e = d + f + 1 \/ LossKnown)
      BY <2>1, <2>2, <2>3 DEF RxHeld, RxPlace
    <3>3. d + f + 1 > e - b
      BY <3>2
    <3>4. rx_data[1] > expected - UART_RX_BLOCK_SIZE
      BY <2>2, <3>1, <3>3
    <3>5. CASE e = d + f + 1
      BY <2>2, <3>1, <3>5
    <3>6. CASE LossKnown
      BY <3>4, <3>6
    <3> QED
      BY <3>2, <3>5, <3>6
  <2>7. rx_data[n] <= received
    <3>1. rx_data[n] = d + f + n
      BY <2>2, <2>4
    <3>2. PICK t \in Int, r \in Int : t = There /\ r = received /\ d = r - t /\ o <= t
      BY <2>1, <2>2, RxInts DEF Dropped, RxHeld, RxRing
    <3>3. d + f + n <= r
      BY <2>3, <3>2
    <3> QED
      BY <3>1, <3>2, <3>3
  <2> QED
    BY <2>2, <2>5, <2>6, <2>7
<1>3. ASSUME TxInv, ~uartTorn
      PROVE  Rx!SendsOn
  <2> SUFFICES ASSUME uartPc = "idle", UartTransmitEnabled, UartTxIndexI # UartTxIndexO
               PROVE  UartTransmitActive
    BY DEF Rx!SendsOn
  <2>1. PICK i \in Nat, o \in Nat : TxHeld(i, o)
    BY <1>3 DEF TxInv
  <2>2. i # o /\ o <= i
    BY <2>1 DEF TxHeld, TxIndex, TxSpan
  <2>3. o < i
    BY <2>2
  <2> QED
    BY <2>1, <2>3 DEF TxHeld, TxBlock
<1>4. RxInv /\ TxInv => BuffersSound
  BY <1>2, <1>3 DEF BuffersSound, Rx!BuffersSound, RxInv, RxSound
<1> QED
  BY <1>1, <1>4, RxSafe, TxSafe, PTL

----------------------------------------------------------------------------
(* WebSocket.  Where a frame begins is the sum of the sizes before it.     *)

Kinds == { "BINARY", "TEXT", "PING", "PONG", "CLOSE", "CONTINUATION", "unknown" }
FrameSize(f) == 2 + f[2] + (IF f[3] THEN 4 ELSE 0) + f[4]
FrameHeader(f) == 2 + f[2] + (IF f[3] THEN 4 ELSE 0)

FrameAt(p, k) ==
    LET size(f) == 2 + f[2] + (IF f[3] THEN 4 ELSE 0) + f[4]
        at[n \in 1..k] == IF n = 1 THEN 0 ELSE at[n - 1] + size(p[n - 1])
    IN at[k]

LEMMA FrameNumbers ==
    ASSUME NEW f \in Kinds \X Nat \X BOOLEAN \X Nat
    PROVE  /\ f[2] \in Nat /\ f[3] \in BOOLEAN /\ f[4] \in Nat
           /\ FrameHeader(f) \in Nat /\ FrameHeader(f) >= 2 + f[2]
           /\ (f[3] => FrameHeader(f) = 2 + f[2] + 4) /\ (~f[3] => FrameHeader(f) = 2 + f[2])
           /\ FrameSize(f) \in Nat /\ FrameSize(f) > 0 /\ FrameSize(f) = FrameHeader(f) + f[4]
<1>1. f[2] \in Nat /\ f[3] \in BOOLEAN /\ f[4] \in Nat
  OBVIOUS
<1>2. PICK e \in Nat, l \in Nat : e = f[2] /\ l = f[4]
  BY <1>1
<1>3. CASE f[3]
  BY <1>1, <1>2, <1>3 DEF FrameHeader, FrameSize
<1>4. CASE ~f[3]
  BY <1>1, <1>2, <1>4 DEF FrameHeader, FrameSize
<1> QED BY <1>1, <1>3, <1>4

LEMMA FrameSums ==
    ASSUME NEW p \in Seq(Kinds \X Nat \X BOOLEAN \X Nat)
    PROVE  \E s : /\ SumsOf(s, [i \in 1..Len(p) |-> FrameSize(p[i])], Len(p))
                  /\ \A k \in 1..Len(p) + 1 : FrameAt(p, k) = s[k - 1]
<1> DEFINE N == Len(p)
           d == [i \in 1..N |-> FrameSize(p[i])]
<1>1. N \in Nat /\ \A i \in 1..N : d[i] \in Nat
  <2>1. ASSUME NEW i \in 1..N PROVE FrameSize(p[i]) \in Nat
    <3>1. p[i] \in Kinds \X Nat \X BOOLEAN \X Nat
      OBVIOUS
    <3> QED BY <3>1, FrameNumbers
  <2> QED BY <2>1
<1>2. PICK s : SumsOf(s, d, N)
  <2> HIDE DEF d, N
  <2> QED BY <1>1, SumsExist
<1>3. ASSUME NEW k \in 1..N + 1 PROVE FrameAt(p, k) = s[k - 1]
  <2> DEFINE F(at) == [n \in 1..k |-> IF n = 1 THEN 0 ELSE at[n - 1]
                         + (2 + p[n - 1][2] + (IF p[n - 1][3] THEN 4 ELSE 0) + p[n - 1][4])]
             G(at) == [n \in 1..k |-> IF n = 1 THEN 0 ELSE at[n - 1] + d[n - 1]]
             g == [n \in 1..k |-> s[n - 1]]
  <2>1. ASSUME NEW n \in 1..k, n # 1
        PROVE  n - 1 \in 1..k /\ n - 1 \in 1..N
               /\ d[n - 1] = 2 + p[n - 1][2] + (IF p[n - 1][3] THEN 4 ELSE 0) + p[n - 1][4]
    <3>1. n - 1 \in 1..k /\ n - 1 \in 1..N
      BY <1>1, <2>1
    <3> QED BY <3>1 DEF FrameSize
  <2>2. \A at : F(at) = G(at)
    <3> HIDE DEF d, N
    <3> QED BY <2>1
  <2>3. g = G(g)
    <3>1. ASSUME NEW n \in 1..k PROVE g[n] = G(g)[n]
      <4>1. CASE n = 1
        BY <4>1, <1>2 DEF SumsOf
      <4>2. CASE n # 1
        <5>1. s[n - 1] = s[(n - 1) - 1] + d[n - 1] /\ n - 1 \in 1..k
          BY <4>2, <2>1, <1>2 DEF SumsOf
        <5> HIDE DEF d
        <5> QED BY <4>2, <5>1
      <4> QED BY <4>1, <4>2
    <3> QED BY <3>1
  <2> DEFINE c == CHOOSE at : at = F(at)
  <2>4. c = F(c)
    <3> HIDE DEF g, F, G
    <3> QED BY <2>2, <2>3
  <2>5. c[k] = s[k - 1]
    <3>1. c = G(c)
      <4> HIDE DEF c, F, G
      <4> QED BY <2>2, <2>4
    <3>2. N \in Nat /\ SumsOf(s, d, N) /\ k \in 1..N + 1
      BY <1>1, <1>2
    <3> HIDE DEF c, d, N
    <3> QED BY ONLY <3>1, <3>2, SumsAre
  <2> QED BY <2>5 DEF FrameAt
<1> QED BY <1>2, <1>3

(* A frame ends where the next begins.                                     *)
LEMMA FramesAreNext ==
    ASSUME NEW p \in Seq(Kinds \X Nat \X BOOLEAN \X Nat)
    PROVE  /\ Len(p) \in Nat /\ FrameAt(p, 1) = 0
           /\ \A k \in 1..Len(p) + 1 : FrameAt(p, k) \in Nat
           /\ \A k \in 1..Len(p) : FrameAt(p, k + 1) = FrameAt(p, k) + FrameSize(p[k])
           /\ \A j, k \in 1..Len(p) + 1 : j < k => FrameAt(p, j) < FrameAt(p, k)
<1> DEFINE N == Len(p)
           d == [i \in 1..N |-> FrameSize(p[i])]
<1>1. N \in Nat /\ \A i \in 1..N : d[i] \in Nat /\ d[i] > 0 /\ d[i] = FrameSize(p[i])
  <2>1. ASSUME NEW i \in 1..N PROVE FrameSize(p[i]) \in Nat /\ FrameSize(p[i]) > 0
    <3>1. p[i] \in Kinds \X Nat \X BOOLEAN \X Nat
      OBVIOUS
    <3> QED BY <3>1, FrameNumbers
  <2> QED BY <2>1
<1>2. PICK s : SumsOf(s, d, N) /\ \A k \in 1..N + 1 : FrameAt(p, k) = s[k - 1]
  BY FrameSums
<1> HIDE DEF d, N
<1>3. FrameAt(p, 1) = 0
  <2>1. 1 \in 1..N + 1 /\ 1 - 1 = 0
    BY <1>1
  <2> QED BY <1>2, <2>1 DEF SumsOf
<1>4. ASSUME NEW k \in 1..N + 1 PROVE FrameAt(p, k) \in Nat
  <2>1. k - 1 \in 0..N
    BY <1>1
  <2> QED BY <1>2, <2>1 DEF SumsOf
<1>5. ASSUME NEW k \in 1..N PROVE FrameAt(p, k + 1) = FrameAt(p, k) + FrameSize(p[k])
  <2>1. k \in 1..N + 1 /\ k + 1 \in 1..N + 1 /\ (k + 1) - 1 = k
    BY <1>1
  <2>2. FrameAt(p, k + 1) = s[k] /\ FrameAt(p, k) = s[k - 1] /\ s[k] = s[k - 1] + d[k]
    BY <1>2, <2>1 DEF SumsOf
  <2> QED BY <2>2, <1>1
<1>6. ASSUME NEW j \in 1..N + 1, NEW k \in 1..N + 1, j < k PROVE FrameAt(p, j) < FrameAt(p, k)
  <2>1. j - 1 \in 0..N /\ k - 1 \in 0..N /\ j - 1 < k - 1
    BY <1>1, <1>6
  <2>2. s[j - 1] < s[k - 1]
    BY <1>1, <1>2, <2>1, SumsRise
  <2> QED BY <1>2, <2>2
<1> QED BY <1>1, <1>3, <1>4, <1>5, <1>6 DEF N

LEMMA FrameStreamsFit ==
    ASSUME Ws!WsAssumption, NEW p \in FrameStreams
    PROVE  p \in Seq(Kinds \X Nat \X BOOLEAN \X Nat)
<1> DEFINE S == Ws!FrameKinds \X { 0, 2, 8 } \X BOOLEAN \X Nat
           P == Kinds \X Nat \X BOOLEAN \X Nat
<1>1. S \subseteq P
  BY DEF Ws!FrameKinds, Kinds
<1>2. p \in Seq(S)
  BY DEF Ws!WsAssumption
<1> HIDE DEF S, P
<1>3. p \in Seq(P)
  BY <1>1, <1>2, SeqMonotonic
<1> QED BY <1>3 DEF P

----------------------------------------------------------------------------
(* Where the probe is in the stream                                        *)

Place(k) == FrameAt(frames, k)
FrameCount == Len(frames)
WsLive == { "recv", "header", "payload" }

WsTypes ==
    /\ frames \in Seq(Kinds \X Nat \X BOOLEAN \X Nat) /\ aligned \in Nat
    /\ wsPc \in WsLive \cup { "handshake", "closed", "crashed" }
    /\ wsStatus \in { "HEADER", "EXTEND_LENGTH", "MASK", "PAYLOAD" }
    /\ wsBase \in Nat /\ remaining_len \in Nat /\ read_len \in Nat /\ payload_len \in Nat
    /\ read_len <= remaining_len /\ mask \in 0..3
    /\ wsPc \in WsLive => wsBase + remaining_len <= Place(FrameCount + 1)
    /\ recv_data_offset \in 0..CONFIG_CO_WS_TEXT_BUFFER_SIZE
    /\ MASK \in BOOLEAN /\ skip_frame \in BOOLEAN

(* In the header of frame k                                                *)
HeaderAt(k) ==
    /\ wsBase = Place(k)
    /\ wsStatus = "HEADER" => read_len = 0
    /\ wsStatus = "EXTEND_LENGTH" => k <= FrameCount /\ read_len = 2 /\ frames[k][2] > 0 /\ MASK = frames[k][3]
    /\ wsStatus = "MASK" => /\ k <= FrameCount /\ read_len = 2 + frames[k][2]
                            /\ MASK /\ frames[k][3] /\ payload_len = frames[k][4]
    /\ wsPc = "recv" /\ remaining_len > 0 => remaining_len < FrameHeader(frames[k])

(* In its payload                                                          *)
PayloadAt(k) ==
    /\ (wsBase + read_len) + payload_len = Place(k + 1)
    /\ Place(k) + FrameHeader(frames[k]) <= wsBase + read_len
    /\ MASK /\ OPCODE # "PING" => mask = ((wsBase + read_len) - (Place(k) + FrameHeader(frames[k]))) % 4

WsPlace ==
    /\ wsPc = "handshake" => wsBase = 0 /\ read_len = 0 /\ wsStatus = "HEADER" /\ ~skip_frame
    /\ wsPc = "header" => remaining_len > 0 /\ wsStatus # "PAYLOAD"
    /\ wsPc = "payload" => wsStatus = "PAYLOAD"
    /\ wsPc \in WsLive /\ wsStatus # "PAYLOAD" => \E k \in 1..FrameCount + 1 : HeaderAt(k)
    /\ wsPc \in WsLive /\ wsStatus = "PAYLOAD" => \E k \in 1..FrameCount : PayloadAt(k)
    /\ wsPc = "recv" /\ wsStatus = "PAYLOAD" => remaining_len = 0 /\ read_len = 0
    /\ wsPc \in WsLive /\ skip_frame => OPCODE = "TEXT" /\ wsStatus = "PAYLOAD"

WsInv == WsTypes /\ WsPlace

LEMMA WsInit ==
    ASSUME Ws!WsAssumption
    PROVE  Ws!Init => WsInv
<1> SUFFICES ASSUME Ws!Init PROVE WsInv
  OBVIOUS
<1>1. frames \in Seq(Kinds \X Nat \X BOOLEAN \X Nat)
  BY FrameStreamsFit DEF Ws!Init
<1>2. WsTypes
  <2>1. wsPc = "handshake" /\ wsPc \notin WsLive
    BY DEF Ws!Init, WsLive
  <2>2. aligned \in Nat /\ recv_data_offset \in 0..CONFIG_CO_WS_TEXT_BUFFER_SIZE /\ mask \in 0..3 /\ read_len <= remaining_len
    BY DEF Ws!Init, Ws!WsAssumption
  <2> QED BY <1>1, <2>1, <2>2 DEF Ws!Init, WsTypes
<1>3. WsPlace
  BY DEF Ws!Init, WsPlace, WsLive
<1> QED BY <1>2, <1>3 DEF WsInv

(* The places in the stream as numbers                                     *)
LEMMA WsPlaces ==
    ASSUME WsTypes
    PROVE  /\ FrameCount \in Nat /\ Place(1) = 0
           /\ \A k \in 1..FrameCount + 1 : Place(k) \in Nat
           /\ \A k \in 1..FrameCount : /\ frames[k] \in Kinds \X Nat \X BOOLEAN \X Nat
                                       /\ FrameHeader(frames[k]) \in Nat /\ frames[k][4] \in Nat
                                       /\ Place(k + 1) = (Place(k) + FrameHeader(frames[k])) + frames[k][4]
           /\ \A j, k \in 1..FrameCount + 1 : j < k => Place(j) < Place(k)
<1>1. frames \in Seq(Kinds \X Nat \X BOOLEAN \X Nat)
  BY DEF WsTypes
<1>2. /\ FrameCount \in Nat /\ Place(1) = 0
      /\ \A k \in 1..FrameCount + 1 : Place(k) \in Nat
      /\ \A j, k \in 1..FrameCount + 1 : j < k => Place(j) < Place(k)
  BY <1>1, FramesAreNext DEF Place, FrameCount
<1>3. ASSUME NEW k \in 1..FrameCount
      PROVE  /\ frames[k] \in Kinds \X Nat \X BOOLEAN \X Nat
             /\ FrameHeader(frames[k]) \in Nat /\ frames[k][4] \in Nat
             /\ Place(k + 1) = (Place(k) + FrameHeader(frames[k])) + frames[k][4]
  <2>1. frames[k] \in Kinds \X Nat \X BOOLEAN \X Nat
    BY <1>1 DEF FrameCount
  <2>2. Place(k + 1) = Place(k) + FrameSize(frames[k])
    BY <1>1, FramesAreNext DEF Place, FrameCount
  <2>3. FrameHeader(frames[k]) \in Nat /\ frames[k][4] \in Nat /\ FrameSize(frames[k]) = FrameHeader(frames[k]) + frames[k][4]
    BY <2>1, FrameNumbers
  <2>4. Place(k) \in Nat
    BY <1>2
  <2> QED BY <2>1, <2>2, <2>3, <2>4
<1> QED BY <1>2, <1>3

(* There is one frame that a place is in.                                  *)
LEMMA FrameThere ==
    ASSUME WsTypes, NEW j \in 1..FrameCount, NEW k \in 1..FrameCount, NEW x \in Nat,
           Place(j) <= x, x < Place(j + 1), Place(k) <= x, x < Place(k + 1)
    PROVE  j = k
<1>1. FrameCount \in Nat /\ j + 1 \in 1..FrameCount + 1 /\ k + 1 \in 1..FrameCount + 1
  BY WsPlaces
<1>2. Place(j) \in Nat /\ Place(k) \in Nat /\ Place(j + 1) \in Nat /\ Place(k + 1) \in Nat
  BY <1>1, WsPlaces
<1>3. CASE j < k
  <2>1. j + 1 = k \/ j + 1 < k
    BY <1>3
  <2>2. j + 1 < k => Place(j + 1) < Place(k)
    BY <1>1, WsPlaces
  <2>3. Place(j + 1) <= Place(k)
    BY <1>2, <2>1, <2>2
  <2> QED BY ONLY <1>2, <2>3, x \in Nat, x < Place(j + 1), Place(k) <= x
<1>4. CASE k < j
  <2>1. k + 1 = j \/ k + 1 < j
    BY <1>4
  <2>2. k + 1 < j => Place(k + 1) < Place(j)
    BY <1>1, WsPlaces
  <2>3. Place(k + 1) <= Place(j)
    BY <1>2, <2>1, <2>2
  <2> QED BY ONLY <1>2, <2>3, x \in Nat, x < Place(k + 1), Place(j) <= x
<1> QED BY <1>3, <1>4

LEMMA PlaceIs ==
    ASSUME NEW k
    PROVE  Ws!Start(k) = Place(k) /\ (frames' = frames => Place(k)' = Place(k))
BY DEF Place, FrameAt, Ws!Start

LEMMA TotalIs == Ws!Total = Place(FrameCount + 1)
BY PlaceIs DEF Ws!Total, FrameCount

(* The frame of a header is the one whose bytes come.                      *)
LEMMA CurrentIs ==
    ASSUME WsTypes, wsPc \in WsLive, remaining_len > 0, NEW k \in 1..FrameCount + 1, wsBase = Place(k)
    PROVE  /\ k \in 1..FrameCount /\ Ws!Current = k
           /\ frames[k] \in Kinds \X Nat \X BOOLEAN \X Nat /\ Ws!Header(k) = FrameHeader(frames[k])
<1>1. FrameCount \in Nat /\ FrameCount + 1 \in 1..FrameCount + 1
  BY WsPlaces
<1>2. Place(k) \in Nat /\ Place(FrameCount + 1) \in Nat /\ wsBase \in Nat /\ remaining_len \in Nat
  BY <1>1, WsPlaces DEF WsTypes
<1>3. wsBase < Place(FrameCount + 1)
  <2>1. wsBase + remaining_len <= Place(FrameCount + 1)
    BY DEF WsTypes
  <2>2. remaining_len > 0
    OBVIOUS
  <2> QED BY ONLY <1>2, <2>1, <2>2
<1>4. k \in 1..FrameCount
  <2>1. k # FrameCount + 1
    <3>1. Place(k) < Place(FrameCount + 1)
      BY <1>3
    <3> QED BY ONLY <1>2, <3>1
  <2> QED BY <1>1, <2>1
<1>5. k + 1 \in 1..FrameCount + 1 /\ k < k + 1
  BY <1>1, <1>4
<1>6. Place(k) <= wsBase /\ wsBase < Place(k + 1)
  <2>1. k \in 1..FrameCount + 1 /\ Place(k) < Place(k + 1)
    BY <1>5, WsPlaces
  <2>2. wsBase = Place(k)
    OBVIOUS
  <2> QED BY ONLY <2>1, <2>2, <1>2
<1>7. Ws!Current = k
  <2> DEFINE Here(j) == j \in 1..FrameCount /\ Place(j) <= wsBase /\ wsBase < Place(j + 1)
             c == CHOOSE j \in 1..FrameCount : Place(j) <= wsBase /\ wsBase < Place(j + 1)
  <2>1. Ws!Current = c
    BY PlaceIs DEF Ws!Current, FrameCount
  <2>2. c \in 1..FrameCount /\ Place(c) <= wsBase /\ wsBase < Place(c + 1)
    BY <1>4, <1>6
  <2> HIDE DEF c
  <2>3. c = k
    BY <1>2, <1>4, <1>6, <2>2, FrameThere
  <2> QED BY <2>1, <2>3
<1>8. frames[k] \in Kinds \X Nat \X BOOLEAN \X Nat
  BY <1>4, WsPlaces
<1> QED BY <1>4, <1>7, <1>8 DEF Ws!Header, FrameHeader

----------------------------------------------------------------------------
(* Handshake, receiving, the end                                           *)

LEMMA WsHandshake ==
    ASSUME Ws!WsAssumption, WsInv, Ws!Handshake
    PROVE  WsInv'
<1>1. WsTypes /\ WsPlace /\ wsPc = "handshake"
  BY DEF WsInv, Ws!Handshake
<1>2. wsBase = 0 /\ read_len = 0 /\ wsStatus = "HEADER" /\ skip_frame = FALSE
  BY <1>1 DEF WsPlace, WsTypes
<1>3. PICK n \in Pieces :
        \/ remaining_len' = remaining_len + n /\ wsPc' = wsPc
        \/ wsPc' \in { "recv", "closed" } /\ remaining_len' = 0
  BY DEF Ws!Handshake
<1>4. UNCHANGED << frames, aligned, wsBase, read_len, wsStatus, OPCODE, MASK, payload_len, mask, skip_frame, recv_data_offset >>
  BY DEF Ws!Handshake, Ws!wcb, Ws!text
<1>5. remaining_len' \in Nat /\ wsPc' \in { "handshake", "recv", "closed" } /\ (wsPc' = "recv" => remaining_len' = 0)
  <2>1. n \in Nat /\ remaining_len \in Nat
    BY <1>1 DEF Ws!WsAssumption, WsTypes
  <2> QED BY <1>1, <1>3, <2>1
<1>6. FrameCount \in Nat /\ Place(1) = 0 /\ 1 \in 1..FrameCount + 1 /\ FrameCount + 1 \in 1..FrameCount + 1
      /\ Place(FrameCount + 1) \in Nat
  BY <1>1, WsPlaces
<1>7. FrameCount' = FrameCount /\ Place(1)' = 0 /\ Place(FrameCount + 1)' \in Nat
  BY <1>4, <1>6 DEF FrameCount, Place
<1>8. WsTypes'
  <2>1. read_len' <= remaining_len' /\ wsBase' = 0
    BY <1>2, <1>4, <1>5
  <2>2. wsPc' \in WsLive => wsBase' + remaining_len' <= Place(FrameCount + 1)'
    <3>1. wsPc' \in WsLive => wsPc' = "recv"
      BY <1>5 DEF WsLive
    <3> QED BY <2>1, <3>1, <1>5, <1>7
  <2>3. wsPc' \in WsLive \cup { "handshake", "closed", "crashed" }
    BY <1>5 DEF WsLive
  <2> QED BY <1>1, <1>4, <1>5, <2>1, <2>2, <2>3 DEF WsTypes
<1>9. WsPlace'
  <2>1. wsPc' = "recv" => HeaderAt(1)'
    BY <1>2, <1>4, <1>5, <1>7 DEF HeaderAt
  <2>2. wsPc' = "recv" => \E k \in 1..FrameCount' + 1 : HeaderAt(k)'
    BY <2>1, <1>6, <1>7
  <2> QED BY <2>2, <1>2, <1>4, <1>5 DEF WsPlace, WsLive
<1> QED BY <1>8, <1>9 DEF WsInv

LEMMA WsReceive ==
    ASSUME Ws!WsAssumption, WsInv, Ws!Receive
    PROVE  WsInv'
<1>1. WsTypes /\ WsPlace /\ wsPc = "recv" /\ wsPc \in WsLive
  BY DEF WsInv, Ws!Receive, WsLive
<1>2. PICK n \in Pieces : wsBase + remaining_len + n <= Ws!Total /\ remaining_len' = remaining_len + n
  BY DEF Ws!Receive
<1>3. wsPc' = IF wsStatus = "PAYLOAD" THEN "payload" ELSE "header"
  BY DEF Ws!Receive
<1>4. UNCHANGED << frames, aligned, wsBase, read_len, wsStatus, OPCODE, MASK, payload_len, mask, skip_frame, recv_data_offset >>
  BY DEF Ws!Receive, Ws!wcb, Ws!text
<1>5. FrameCount' = FrameCount /\ \A k : Place(k)' = Place(k)
  BY <1>4 DEF FrameCount, Place
<1>6. n \in Nat \ {0} /\ remaining_len \in Nat /\ wsBase \in Nat /\ read_len \in Nat /\ read_len <= remaining_len
  BY <1>1 DEF Ws!WsAssumption, WsTypes
<1>7. remaining_len' \in Nat /\ remaining_len' > 0 /\ read_len <= remaining_len'
      /\ wsBase + remaining_len' = wsBase + remaining_len + n
  BY ONLY <1>2, <1>6
<1>8. WsTypes'
  <2>1. wsBase' + remaining_len' <= Place(FrameCount + 1)'
    BY <1>2, <1>4, <1>5, <1>7, TotalIs
  <2>2. wsPc' \in WsLive
    BY <1>3 DEF WsLive
  <2>3. read_len' <= remaining_len'
    BY <1>4, <1>7
  <2> QED BY <1>1, <1>4, <1>7, <2>1, <2>2, <2>3 DEF WsTypes
<1>9. WsPlace'
  <2>1. ASSUME wsStatus # "PAYLOAD" PROVE \E k \in 1..FrameCount' + 1 : HeaderAt(k)'
    <3>1. PICK k \in 1..FrameCount + 1 : HeaderAt(k)
      BY <2>1, <1>1 DEF WsPlace
    <3>2. HeaderAt(k)'
      BY <2>1, <3>1, <1>3, <1>4, <1>5 DEF HeaderAt
    <3> QED BY <3>2, <1>5
  <2>2. ASSUME wsStatus = "PAYLOAD" PROVE \E k \in 1..FrameCount' : PayloadAt(k)'
    <3>1. PICK k \in 1..FrameCount : PayloadAt(k)
      BY <2>2, <1>1 DEF WsPlace
    <3>2. PayloadAt(k)'
      BY <3>1, <1>4, <1>5 DEF PayloadAt
    <3> QED BY <3>2, <1>5
  <2>3. wsPc' \in { "header", "payload" } /\ (wsPc' = "payload" <=> wsStatus = "PAYLOAD")
    BY <1>3
  <2>4. skip_frame => OPCODE = "TEXT" /\ wsStatus = "PAYLOAD"
    BY <1>1 DEF WsPlace
  <2> QED BY <2>1, <2>2, <2>3, <2>4, <1>4, <1>7 DEF WsPlace
<1> QED BY <1>8, <1>9 DEF WsInv

(* The connection has ended.                                               *)
LEMMA WsEnds ==
    ASSUME WsTypes, wsPc' \in { "closed", "crashed" },
           UNCHANGED << frames, aligned, wsBase, remaining_len, read_len, wsStatus, MASK >>,
           payload_len' \in Nat, mask' \in 0..3, skip_frame' \in BOOLEAN,
           recv_data_offset' \in 0..CONFIG_CO_WS_TEXT_BUFFER_SIZE
    PROVE  WsInv'
<1>1. wsPc' \notin WsLive
  BY DEF WsLive
<1>2. WsTypes'
  BY <1>1 DEF WsTypes
<1>3. WsPlace'
  BY <1>1 DEF WsPlace
<1> QED BY <1>2, <1>3 DEF WsInv

LEMMA WsDisconnect ==
    ASSUME WsInv, Ws!Disconnect
    PROVE  WsInv'
<1>1. WsTypes
  BY DEF WsInv
<1>2. /\ wsPc' = "closed"
      /\ UNCHANGED << frames, aligned, wsBase, remaining_len, read_len, wsStatus, OPCODE, MASK, payload_len, mask, skip_frame, recv_data_offset >>
  BY DEF Ws!Disconnect, Ws!wcb, Ws!text
<1>3. payload_len' \in Nat /\ mask' \in 0..3 /\ skip_frame' \in BOOLEAN /\ recv_data_offset' \in 0..CONFIG_CO_WS_TEXT_BUFFER_SIZE
  BY <1>1, <1>2 DEF WsTypes
<1> QED BY <1>1, <1>2, <1>3, WsEnds

----------------------------------------------------------------------------
(* Headers                                                                 *)

(* A stage of the header of frame k.                                       *)
WsStage(k) ==
    CASE wsStatus = "HEADER" -> Ws!FirstBytes(frames[k])
      [] wsStatus = "EXTEND_LENGTH" -> Ws!ExtendedLength(frames[k])
      [] wsStatus = "MASK" -> Ws!MaskingKey

LEMMA WsHeader ==
    ASSUME WsInv, Ws!co_websocket_process_header
    PROVE  WsInv'
<1>1. WsTypes /\ WsPlace /\ wsPc = "header" /\ wsPc \in WsLive
  BY DEF WsInv, Ws!co_websocket_process_header, WsLive
<1>2. remaining_len > 0 /\ wsStatus # "PAYLOAD" /\ skip_frame = FALSE
  BY <1>1 DEF WsPlace, WsTypes
<1>3. PICK k \in 1..FrameCount + 1 : HeaderAt(k)
  BY <1>1, <1>2 DEF WsPlace
<1>4. /\ k \in 1..FrameCount /\ Ws!Current = k
      /\ frames[k] \in Kinds \X Nat \X BOOLEAN \X Nat
  BY <1>1, <1>2, <1>3, CurrentIs DEF HeaderAt
<1>5. UNCHANGED << frames, aligned, wsBase, remaining_len, skip_frame, recv_data_offset >>
  BY DEF Ws!co_websocket_process_header, Ws!text
<1>6. FrameCount' = FrameCount /\ \A j : Place(j)' = Place(j)
  BY <1>5 DEF FrameCount, Place
<1> DEFINE f == frames[k]
           needed == CASE wsStatus = "HEADER" -> 2
                       [] wsStatus = "EXTEND_LENGTH" -> read_len + f[2]
                       [] wsStatus = "MASK" -> read_len + 4
<1>7. \/ remaining_len < needed /\ wsPc' = "recv" /\ UNCHANGED << read_len, wsStatus, OPCODE, MASK, payload_len, mask >>
      \/ wsPc' = "closed" /\ UNCHANGED << read_len, wsStatus, OPCODE, MASK, payload_len, mask >>
      \/ ~(remaining_len < needed) /\ WsStage(k) /\ wsPc' = IF wsStatus' = "PAYLOAD" THEN "payload" ELSE "header"
  <2>1. wsStatus \in { "HEADER", "EXTEND_LENGTH", "MASK" }
    BY <1>1, <1>2 DEF WsTypes
  <2>2. LET frame == f
            need == CASE wsStatus = "HEADER" -> 2
                       [] wsStatus = "EXTEND_LENGTH" -> read_len + frame[2]
                       [] wsStatus = "MASK" -> read_len + 4
        IN IF remaining_len < need
           THEN wsPc' = "recv" /\ UNCHANGED << read_len, wsStatus, Ws!wcb >>
           ELSE IF wsStatus = "HEADER" /\ frame[1] = "unknown"
           THEN wsPc' = "closed" /\ UNCHANGED << read_len, wsStatus, Ws!wcb >>
           ELSE /\ WsStage(k)
                /\ wsPc' = IF wsStatus' = "PAYLOAD" THEN "payload" ELSE "header"
    BY <1>4 DEF Ws!co_websocket_process_header, WsStage
  <2> QED BY <2>2, Zenon DEF Ws!wcb
<1>8. f[2] \in Nat /\ f[3] \in BOOLEAN /\ f[4] \in Nat /\ FrameHeader(f) \in Nat
      /\ FrameHeader(f) = 2 + f[2] + (IF f[3] THEN 4 ELSE 0)
  BY <1>4, FrameNumbers DEF FrameHeader
<1>9. /\ remaining_len \in Nat /\ read_len \in Nat /\ wsBase \in Nat /\ payload_len \in Nat /\ mask \in 0..3
      /\ wsBase + remaining_len <= Place(FrameCount + 1)
      /\ recv_data_offset \in 0..CONFIG_CO_WS_TEXT_BUFFER_SIZE /\ read_len <= remaining_len /\ MASK \in BOOLEAN
      /\ wsStatus \in { "HEADER", "EXTEND_LENGTH", "MASK" }
  BY <1>1, <1>2 DEF WsTypes
<1> HIDE DEF f
<1>10. CASE remaining_len < needed /\ wsPc' = "recv" /\ UNCHANGED << read_len, wsStatus, OPCODE, MASK, payload_len, mask >>
  <2>1. WsTypes'
    <3>1. wsPc' \in WsLive
      BY <1>10 DEF WsLive
    <3>2. wsBase' + remaining_len' <= Place(FrameCount + 1)'
      BY <1>5, <1>6, <1>9
    <3>3. read_len' <= remaining_len'
      BY <1>5, <1>9, <1>10
    <3> QED BY <1>1, <1>5, <1>10, <3>1, <3>2, <3>3 DEF WsTypes
  <2>2. remaining_len < FrameHeader(f)
    <3>1. CASE wsStatus = "HEADER"
      BY <3>1, <1>8, <1>9, <1>10
    <3>2. CASE wsStatus = "EXTEND_LENGTH"
      <4>1. read_len = 2 /\ remaining_len < read_len + f[2]
        BY <3>2, <1>3, <1>10 DEF HeaderAt
      <4> QED BY ONLY <4>1, <1>8, <1>9
    <3>3. CASE wsStatus = "MASK"
      <4>1. read_len = 2 + f[2] /\ f[3] /\ remaining_len < read_len + 4
        BY <3>3, <1>3, <1>10 DEF HeaderAt, f
      <4> QED BY ONLY <4>1, <1>8, <1>9
    <3> QED BY <3>1, <3>2, <3>3, <1>9
  <2>3. HeaderAt(k)'
    BY <1>3, <1>5, <1>6, <1>10, <2>2 DEF HeaderAt, f
  <2>4. k \in 1..FrameCount' + 1
    BY <1>6
  <2>5. WsPlace'
    BY <2>3, <2>4, <1>2, <1>5, <1>10 DEF WsPlace
  <2> QED BY <2>1, <2>5 DEF WsInv
<1>11. CASE wsPc' = "closed" /\ UNCHANGED << read_len, wsStatus, OPCODE, MASK, payload_len, mask >>
  <2>1. payload_len' \in Nat /\ mask' \in 0..3 /\ skip_frame' \in BOOLEAN /\ recv_data_offset' \in 0..CONFIG_CO_WS_TEXT_BUFFER_SIZE
    BY <1>2, <1>5, <1>9, <1>11
  <2> QED BY <2>1, <1>1, <1>5, <1>11, WsEnds
<1>12. CASE ~(remaining_len < needed) /\ WsStage(k) /\ wsPc' = IF wsStatus' = "PAYLOAD" THEN "payload" ELSE "header"
  \* what the stage leaves
  <2>1. /\ payload_len' \in Nat /\ mask' \in 0..3 /\ MASK' \in BOOLEAN /\ read_len' \in Nat /\ read_len' <= remaining_len
        /\ wsStatus' \in { "EXTEND_LENGTH", "MASK", "PAYLOAD" }
        /\ wsStatus' = "EXTEND_LENGTH" => read_len' = 2 /\ f[2] > 0 /\ MASK' = f[3]
        /\ wsStatus' = "MASK" => read_len' = 2 + f[2] /\ MASK' /\ f[3] /\ payload_len' = f[4]
        /\ wsStatus' = "PAYLOAD" => read_len' = FrameHeader(f) /\ payload_len' = f[4] /\ (MASK' => mask' = 0)
    <3>1. CASE wsStatus = "HEADER"
      <4>1. Ws!FirstBytes(f) /\ ~(remaining_len < 2)
        BY <3>1, <1>12 DEF WsStage, f
      <4>2. /\ MASK' = f[3] /\ payload_len' = (IF f[2] > 0 THEN 126 ELSE f[4]) /\ read_len' = 2 /\ mask' = mask
            /\ wsStatus' = IF f[2] > 0 THEN "EXTEND_LENGTH" ELSE IF f[3] THEN "MASK" ELSE "PAYLOAD"
        BY <4>1 DEF Ws!FirstBytes
      <4>3. read_len' \in Nat /\ read_len' <= remaining_len
        BY <4>1, <4>2, <1>9
      <4>4. CASE f[2] > 0
        BY <4>2, <4>3, <4>4, <1>8, <1>9
      <4>5. CASE ~(f[2] > 0)
        <5>1. f[2] = 0
          BY <4>5, <1>8
        <5>2. CASE f[3]
          BY <4>2, <4>3, <5>1, <5>2, <1>8, <1>9
        <5>3. CASE ~f[3]
          <6>1. FrameHeader(f) = 2
            BY <5>1, <5>3, <1>8
          <6> QED BY <4>2, <4>3, <5>1, <5>3, <6>1, <1>8, <1>9
        <5> QED BY <5>2, <5>3
      <4> QED BY <4>4, <4>5
    <3>2. CASE wsStatus = "EXTEND_LENGTH"
      <4>1. read_len = 2 /\ f[2] > 0 /\ MASK = f[3]
        BY <3>2, <1>3 DEF HeaderAt, f
      <4>2. Ws!ExtendedLength(f) /\ ~(remaining_len < read_len + f[2])
        BY <3>2, <1>12 DEF WsStage, f
      <4>3. /\ payload_len' = f[4] /\ read_len' = read_len + f[2] /\ MASK' = MASK /\ mask' = mask
            /\ wsStatus' = IF MASK THEN "MASK" ELSE "PAYLOAD"
        BY <4>2 DEF Ws!ExtendedLength
      <4>4. read_len' \in Nat /\ read_len' <= remaining_len /\ read_len' = 2 + f[2]
        BY <4>1, <4>2, <4>3, <1>8, <1>9
      <4>5. CASE MASK
        BY <4>1, <4>3, <4>4, <4>5, <1>8, <1>9
      <4>6. CASE ~MASK
        <5>1. FrameHeader(f) = 2 + f[2]
          BY <4>1, <4>6, <1>8
        <5> QED BY <4>1, <4>3, <4>4, <4>6, <5>1, <1>8, <1>9
      <4> QED BY <4>5, <4>6
    <3>3. CASE wsStatus = "MASK"
      <4>1. read_len = 2 + f[2] /\ MASK /\ f[3] /\ payload_len = f[4]
        BY <3>3, <1>3 DEF HeaderAt, f
      <4>2. Ws!MaskingKey /\ ~(remaining_len < read_len + 4)
        BY <3>3, <1>12 DEF WsStage
      <4>3. mask' = 0 /\ read_len' = read_len + 4 /\ wsStatus' = "PAYLOAD" /\ payload_len' = payload_len /\ MASK' = MASK
        BY <4>2 DEF Ws!MaskingKey
      <4>4. read_len' \in Nat /\ read_len' <= remaining_len /\ read_len' = FrameHeader(f)
        BY <4>1, <4>2, <4>3, <1>8, <1>9
      <4> QED BY <4>1, <4>3, <4>4, <1>8, <1>9
    <3> QED BY <3>1, <3>2, <3>3, <1>9
  <2>2. WsTypes'
    <3>1. wsPc' \in WsLive
      BY <1>12 DEF WsLive
    <3>2. wsBase' + remaining_len' <= Place(FrameCount + 1)'
      BY <1>5, <1>6, <1>9
    <3>3. read_len' <= remaining_len'
      BY <1>5, <2>1
    <3> QED BY <1>1, <1>5, <2>1, <3>1, <3>2, <3>3 DEF WsTypes
  <2>3. WsPlace'
    <3>1. ASSUME wsStatus' # "PAYLOAD" PROVE HeaderAt(k)'
      <4>1. k <= FrameCount
        BY <1>4
      <4>2. wsPc' = "header"
        BY <3>1, <1>12
      <4> QED BY <1>3, <1>5, <1>6, <2>1, <3>1, <4>1, <4>2 DEF HeaderAt, f
    <3>2. ASSUME wsStatus' = "PAYLOAD" PROVE PayloadAt(k)'
      <4> DEFINE h == FrameHeader(f)
                 at == Place(k)
      <4>1. read_len' = h /\ payload_len' = f[4] /\ (MASK' => mask' = 0) /\ wsBase' = at
        BY <3>2, <2>1, <1>3, <1>5 DEF HeaderAt
      <4>2. at \in Nat /\ h \in Nat /\ f[4] \in Nat /\ Place(k + 1) = (at + h) + f[4]
        BY <1>1, <1>4, WsPlaces DEF f
      <4>3. (wsBase' + read_len') + payload_len' = Place(k + 1)' /\ at + h <= wsBase' + read_len'
            /\ (wsBase' + read_len') - (at + h) = 0
        BY <4>1, <4>2, <1>6
      <4>4. MASK' => mask' = ((wsBase' + read_len') - (at + h)) % 4
        BY <4>1, <4>3
      <4>5. Place(k)' = at /\ FrameHeader(frames[k])' = h
        BY <1>5, <1>6 DEF f
      <4> QED BY <4>3, <4>4, <4>5 DEF PayloadAt
    <3>3. k \in 1..FrameCount' /\ k \in 1..FrameCount' + 1
      BY <1>4, <1>6
    <3>4. wsPc' \in { "header", "payload" } /\ (wsPc' = "payload" <=> wsStatus' = "PAYLOAD")
      BY <1>12
    <3>5. skip_frame' = FALSE /\ remaining_len' > 0
      BY <1>2, <1>5
    <3> QED BY <3>1, <3>2, <3>3, <3>4, <3>5 DEF WsPlace
  <2> QED BY <2>2, <2>3 DEF WsInv
<1> QED BY <1>7, <1>10, <1>11, <1>12

----------------------------------------------------------------------------
(* Payload                                                                 *)

(* What there is of a payload in the buffer.                               *)
LEMMA DataLenIs ==
    ASSUME WsTypes
    PROVE  /\ Ws!DataLen \in Nat /\ Ws!DataLen <= payload_len /\ read_len + Ws!DataLen <= remaining_len
           /\ remaining_len - read_len \in Nat
           /\ (remaining_len - read_len > Ws!DataLen => Ws!DataLen = payload_len)
           /\ (payload_len > Ws!DataLen => remaining_len = read_len + Ws!DataLen)
<1>1. remaining_len \in Nat /\ read_len \in Nat /\ payload_len \in Nat /\ read_len <= remaining_len
  BY DEF WsTypes
<1>2. Ws!DataLen = IF remaining_len - read_len < payload_len THEN remaining_len - read_len ELSE payload_len
  BY DEF Ws!DataLen, Ws!Least
<1> QED BY ONLY <1>1, <1>2

(* A text that is too long is skipped to its end.                          *)
LEMMA TextKept ==
    ASSUME Ws!WsAssumption, WsTypes, wsPc = "payload", skip_frame => OPCODE = "TEXT", Ws!Process
    PROVE  /\ skip_frame' \in BOOLEAN /\ recv_data_offset' \in 0..CONFIG_CO_WS_TEXT_BUFFER_SIZE
           /\ skip_frame' => OPCODE = "TEXT" /\ payload_len > Ws!DataLen
<1>1. skip_frame \in BOOLEAN /\ recv_data_offset \in 0..CONFIG_CO_WS_TEXT_BUFFER_SIZE /\ payload_len \in Nat
  BY DEF WsTypes
<1>2. Ws!DataLen \in Nat /\ Ws!DataLen <= payload_len
  BY DataLenIs
<1>3. CONFIG_CO_WS_TEXT_BUFFER_SIZE \in Nat
  BY DEF Ws!WsAssumption
<1> DEFINE d == Ws!DataLen
           c == CONFIG_CO_WS_TEXT_BUFFER_SIZE
<1>4. CASE OPCODE = "TEXT"
  <2>1. Ws!ProcessText
    BY <1>4 DEF Ws!Process
  <2>2. \/ skip_frame /\ skip_frame' = ~(d = payload_len) /\ recv_data_offset' = recv_data_offset
        \/ ~skip_frame /\ UNCHANGED << skip_frame, recv_data_offset >>
        \/ ~skip_frame /\ skip_frame' = (d < payload_len) /\ recv_data_offset' = 0
        \/ /\ ~skip_frame /\ UNCHANGED skip_frame /\ ~(d > c - recv_data_offset)
           /\ recv_data_offset' = IF d = payload_len THEN 0 ELSE recv_data_offset + d
    <3> HIDE DEF d
    <3> QED BY <2>1 DEF Ws!ProcessText, d, c
  <2>3. recv_data_offset' \in 0..c
    <3>1. CASE ~(d > c - recv_data_offset) /\ recv_data_offset' = IF d = payload_len THEN 0 ELSE recv_data_offset + d
      <4> HIDE DEF d, c
      <4>1. c \in Nat /\ d \in Nat
        BY <1>2, <1>3 DEF c, d
      <4>2. recv_data_offset \in 0..c
        BY <1>1 DEF c
      <4> QED BY ONLY <3>1, <4>1, <4>2
    <3>2. 0 \in 0..c
      BY <1>3
    <3> HIDE DEF d
    <3> QED BY <2>2, <3>1, <3>2, <1>1
  <2>4. skip_frame' \in BOOLEAN
    <3> HIDE DEF d, c
    <3>1. CASE skip_frame' = ~(d = payload_len)
      <4>1. skip_frame' = TRUE \/ skip_frame' = FALSE
        BY <3>1
      <4> QED BY <4>1
    <3>2. CASE skip_frame' = (d < payload_len)
      <4>1. skip_frame' = TRUE \/ skip_frame' = FALSE
        BY <3>2
      <4> QED BY <4>1
    <3> QED BY <2>2, <1>1, <3>1, <3>2
  <2>5. skip_frame' => payload_len > d
    <3>1. CASE skip_frame' = ~(d = payload_len)
      <4>1. d # payload_len => payload_len > d
        BY <1>1, <1>2
      <4> HIDE DEF d
      <4> QED BY <3>1, <4>1
    <3>2. CASE skip_frame' = (d < payload_len)
      <4>1. d < payload_len => payload_len > d
        BY <1>1, <1>2
      <4> HIDE DEF d
      <4> QED BY <3>2, <4>1
    <3> HIDE DEF d, c
    <3> QED BY <2>2, <3>1, <3>2
  <2> QED BY <1>4, <2>3, <2>4, <2>5
<1>5. CASE OPCODE # "TEXT"
  <2>1. UNCHANGED << skip_frame, recv_data_offset >>
    BY <1>5 DEF Ws!Process, Ws!text
  <2> QED BY <1>1, <1>5, <2>1
<1> QED BY <1>4, <1>5

LEMMA WsPayload ==
    ASSUME Ws!WsAssumption, WsInv, Ws!co_websocket_process_payload
    PROVE  WsInv'
<1>1. WsTypes /\ WsPlace /\ wsPc = "payload" /\ wsPc \in WsLive
  BY DEF WsInv, Ws!co_websocket_process_payload, WsLive
<1>2. wsStatus = "PAYLOAD" /\ (skip_frame => OPCODE = "TEXT")
  BY <1>1 DEF WsPlace
<1>3. PICK k \in 1..FrameCount : PayloadAt(k)
  BY <1>1, <1>2 DEF WsPlace
<1> DEFINE d == Ws!DataLen
<1>4. /\ mask' = (IF MASK /\ OPCODE # "PING" THEN (mask + d) % 4 ELSE mask)
      /\ Ws!Process /\ UNCHANGED << frames, aligned, OPCODE, MASK >>
  BY DEF Ws!co_websocket_process_payload, Ws!Masked, Ws!co_websocket_get_new_mask
<1>5. \/ wsPc' \in { "crashed", "closed" } /\ UNCHANGED << wsBase, remaining_len, read_len, wsStatus, payload_len >>
      \/ Ws!AfterPayload /\ wsBase' = (wsBase + read_len) + d /\ read_len' = 0
  BY DEF Ws!co_websocket_process_payload, Ws!Data
<1>6. /\ d \in Nat /\ d <= payload_len /\ read_len + d <= remaining_len /\ remaining_len - read_len \in Nat
      /\ (remaining_len - read_len > d => d = payload_len)
      /\ (payload_len > d => remaining_len = read_len + d)
  BY <1>1, DataLenIs
<1>7. /\ skip_frame' \in BOOLEAN /\ recv_data_offset' \in 0..CONFIG_CO_WS_TEXT_BUFFER_SIZE
      /\ skip_frame' => OPCODE = "TEXT" /\ payload_len > d
  BY <1>1, <1>2, <1>4, TextKept
<1>8. Ws!AfterPayload =>
        \/ /\ remaining_len - read_len > d /\ remaining_len' = (remaining_len - read_len) - d
           /\ wsStatus' = "HEADER" /\ payload_len' = 0 /\ wsPc' = "header"
        \/ /\ ~(remaining_len - read_len > d) /\ remaining_len' = 0 /\ wsPc' = "recv"
           /\ payload_len > d /\ payload_len' = payload_len - d /\ UNCHANGED wsStatus
        \/ /\ ~(remaining_len - read_len > d) /\ remaining_len' = 0 /\ wsPc' = "recv"
           /\ ~(payload_len > d) /\ wsStatus' = "HEADER" /\ payload_len' = 0
  <2> HIDE DEF d
  <2> QED BY DEF Ws!AfterPayload, d
<1>9. /\ remaining_len \in Nat /\ read_len \in Nat /\ wsBase \in Nat /\ payload_len \in Nat /\ mask \in 0..3
      /\ wsBase + remaining_len <= Place(FrameCount + 1) /\ MASK \in BOOLEAN
  BY <1>1 DEF WsTypes
<1>10. mask' \in 0..3
  <2>1. (mask + d) % 4 \in 0..3
    BY ONLY <1>6, <1>9
  <2> HIDE DEF d
  <2> QED BY <2>1, <1>4, <1>9
<1>11. FrameCount' = FrameCount /\ \A j : Place(j)' = Place(j)
  BY <1>4 DEF FrameCount, Place
<1> HIDE DEF d
<1>12. CASE wsPc' \in { "crashed", "closed" } /\ UNCHANGED << wsBase, remaining_len, read_len, wsStatus, payload_len >>
  BY <1>1, <1>4, <1>7, <1>9, <1>10, <1>12, WsEnds
<1>13. CASE Ws!AfterPayload /\ wsBase' = (wsBase + read_len) + d /\ read_len' = 0
  <2> DEFINE h == FrameHeader(frames[k])
             at == Place(k)
             next == Place(k + 1)
             total == Place(FrameCount + 1)
  <2>1. /\ at \in Nat /\ next \in Nat /\ h \in Nat /\ total \in Nat
        /\ k + 1 \in 1..FrameCount + 1
    <3>1. FrameCount \in Nat
      BY <1>1, WsPlaces
    <3>2. k \in 1..FrameCount + 1 /\ k + 1 \in 1..FrameCount + 1 /\ FrameCount + 1 \in 1..FrameCount + 1
      BY <3>1
    <3> QED BY <1>1, <3>2, WsPlaces
  <2>2. /\ (wsBase + read_len) + payload_len = next /\ at + h <= wsBase + read_len
        /\ (MASK /\ OPCODE # "PING" => mask = ((wsBase + read_len) - (at + h)) % 4)
    BY <1>3 DEF PayloadAt
  <2>3. wsBase' = (wsBase + read_len) + d /\ read_len' = 0 /\ wsBase' \in Nat
    BY <1>6, <1>9, <1>13
  <2> HIDE DEF h, at, next, total
  <2>4. remaining_len' \in Nat /\ payload_len' \in Nat /\ wsBase' + remaining_len' <= total
        /\ (wsPc' = "header" => remaining_len' > 0) /\ (wsPc' = "recv" => remaining_len' = 0)
    <3>1. wsBase + remaining_len <= total
      BY <1>9 DEF total
    <3>2. CASE /\ remaining_len - read_len > d /\ remaining_len' = (remaining_len - read_len) - d
               /\ payload_len' = 0 /\ wsPc' = "header"
      <4>1. remaining_len' \in Nat /\ remaining_len' > 0 /\ wsBase' + remaining_len' <= total
        BY ONLY <3>1, <3>2, <2>1, <2>3, <1>6, <1>9
      <4> QED BY <3>2, <4>1
    <3>3. CASE /\ remaining_len' = 0 /\ wsPc' = "recv" /\ (payload_len' = 0 \/ payload_len' = payload_len - d)
      <4>1. wsBase' + remaining_len' <= total /\ payload_len - d \in Nat
        BY ONLY <3>1, <3>3, <2>1, <2>3, <1>6, <1>9
      <4> QED BY <3>3, <4>1
    <3> QED BY <3>2, <3>3, <1>8, <1>13
  <2>5. wsPc' \in { "header", "recv" } /\ wsPc' \in WsLive /\ wsStatus' \in { "HEADER", "PAYLOAD" }
    BY <1>2, <1>8, <1>13 DEF WsLive
  <2>6. WsTypes'
    <3>1. wsBase' + remaining_len' <= Place(FrameCount + 1)'
      BY <2>4, <1>11 DEF total
    <3>2. read_len' <= remaining_len' /\ read_len' \in Nat
      BY <2>3, <2>4
    <3> QED BY <1>1, <1>4, <1>7, <1>9, <1>10, <2>3, <2>4, <2>5, <3>1, <3>2 DEF WsTypes
  <2>7. ASSUME wsStatus' = "HEADER" PROVE HeaderAt(k + 1)' /\ skip_frame' = FALSE
    <3>1. d = payload_len
      <4>1. remaining_len - read_len > d \/ ~(payload_len > d)
        BY <2>7, <1>2, <1>8, <1>13
      <4> QED BY ONLY <4>1, <1>6, <1>9
    <3>2. wsBase' = next
      BY <3>1, <2>2, <2>3
    <3>3. Place(k + 1)' = next
      <4>1. Place(k + 1)' = FrameAt(frames', k + 1)
        BY <3>1 DEF Place
      <4> QED BY <4>1, <1>4 DEF Place, next
    <3>4. wsBase' = Place(k + 1)'
      BY <3>2, <3>3
    <3>5. ~(payload_len > d)
      BY <3>1, <1>9
    <3>6. wsPc' = "recv" => ~(remaining_len' > 0)
      BY <2>4
    <3> QED BY <2>3, <2>7, <3>4, <3>5, <3>6, <1>7 DEF HeaderAt
  <2>8. ASSUME wsStatus' = "PAYLOAD" PROVE PayloadAt(k)' /\ wsPc' = "recv"
    <3>1. payload_len' = payload_len - d /\ wsPc' = "recv"
      BY <2>8, <1>8, <1>13
    <3>2. (wsBase' + read_len') + payload_len' = next /\ at + h <= wsBase' + read_len'
      BY ONLY <3>1, <2>1, <2>2, <2>3, <1>6, <1>9
    <3>3. MASK /\ OPCODE # "PING" => mask' = ((wsBase' + read_len') - (at + h)) % 4
      <4> SUFFICES ASSUME MASK /\ OPCODE # "PING" PROVE mask' = ((wsBase' + read_len') - (at + h)) % 4
        OBVIOUS
      <4>1. mask' = (mask + d) % 4 /\ mask = ((wsBase + read_len) - (at + h)) % 4
        BY <1>4, <2>2
      <4>2. PICK a \in Int : a = (wsBase + read_len) - (at + h)
        BY <1>9, <2>1
      <4>3. ((a % 4) + d) % 4 = (a + d) % 4
        BY <1>6, ModStep
      <4>4. (wsBase' + read_len') - (at + h) = a + d
        BY ONLY <4>2, <2>1, <2>3, <1>6, <1>9
      <4> QED BY <4>1, <4>2, <4>3, <4>4
    <3>4. Place(k)' = at /\ FrameHeader(frames[k])' = h /\ Place(k + 1)' = next
      BY <1>4 DEF at, h, next, Place
    <3> QED BY <3>1, <3>2, <3>3, <3>4, <1>4 DEF PayloadAt
  <2>9. WsPlace'
    <3>1. k + 1 \in 1..FrameCount' + 1 /\ k \in 1..FrameCount'
      BY <1>11, <2>1
    <3>2. wsPc' = "header" => wsStatus' = "HEADER" /\ remaining_len' > 0
      BY <2>4, <2>5, <2>8
    <3>3. wsPc' = "recv" => remaining_len' = 0 /\ read_len' = 0
      BY <2>3, <2>4
    <3>4. skip_frame' => OPCODE' = "TEXT" /\ wsStatus' = "PAYLOAD"
      BY <1>4, <1>7, <2>5, <2>7
    <3>5. wsStatus' = "HEADER" => \E j \in 1..FrameCount' + 1 : HeaderAt(j)'
      <4>1. wsStatus' = "HEADER" => HeaderAt(k + 1)'
        BY <2>7
      <4> DEFINE n == k + 1
      <4>2. n \in 1..FrameCount' + 1 /\ (wsStatus' = "HEADER" => HeaderAt(n)')
        BY <4>1, <3>1
      <4> HIDE DEF n
      <4> QED BY <4>2
    <3>6. wsStatus' = "PAYLOAD" => \E j \in 1..FrameCount' : PayloadAt(j)'
      BY <2>8, <3>1
    <3> QED BY <2>5, <3>2, <3>3, <3>4, <3>5, <3>6 DEF WsPlace
  <2> QED BY <2>6, <2>9 DEF WsInv
<1> QED BY <1>5, <1>12, <1>13

LEMMA WsStep ==
    ASSUME Ws!WsAssumption, WsInv, Ws!Next
    PROVE  WsInv'
BY WsHandshake, WsReceive, WsDisconnect, WsHeader, WsPayload DEF Ws!Next

----------------------------------------------------------------------------
(* What this says of the frames                                            *)

(* There is one frame that ends at a place.                                *)
LEMMA FrameEnds ==
    ASSUME WsTypes, NEW j \in 1..FrameCount, NEW k \in 1..FrameCount, Place(j + 1) = Place(k + 1)
    PROVE  j = k
<1>1. FrameCount \in Nat /\ j + 1 \in 1..FrameCount + 1 /\ k + 1 \in 1..FrameCount + 1
  BY WsPlaces
<1>2. Place(j + 1) \in Nat /\ Place(k + 1) \in Nat
  BY <1>1, WsPlaces
<1>3. ~(j + 1 < k + 1) /\ ~(k + 1 < j + 1)
  <2>1. j + 1 < k + 1 => Place(j + 1) < Place(k + 1)
    BY <1>1, WsPlaces
  <2>2. k + 1 < j + 1 => Place(k + 1) < Place(j + 1)
    BY <1>1, WsPlaces
  <2>3. Place(j + 1) = Place(k + 1)
    OBVIOUS
  <2> QED BY ONLY <1>2, <2>1, <2>2, <2>3
<1> QED BY <1>1, <1>3

(* The byte of the key that is put on a byte, wherever it lies.            *)
LEMMA FastMaskIs ==
    ASSUME NEW dst \in Nat, NEW x \in Int, NEW len \in Nat, NEW i \in 0..len - 1
    PROVE  Ws!co_websocket_fast_mask(dst, x % 4, len)[i] = (x + i) % 4
<1> DEFINE align == IF len >= 8 THEN (-dst) % 4 ELSE 0
           m == x % 4
<1>1. align \in Int
  OBVIOUS
<1>2. m \in Int /\ (m + i) % 4 = (x + i) % 4
  BY ModStep
<1>3. Ws!co_websocket_fast_mask(dst, m, len)[i] = IF i < align THEN (m + i) % 4 ELSE (m + align + i - align) % 4
  BY DEF Ws!co_websocket_fast_mask
<1> HIDE DEF align, m
<1>4. m + align + i - align = m + i
  BY <1>1, <1>2
<1> QED BY <1>2, <1>3, <1>4 DEF m

LEMMA WsTold ==
    ASSUME Ws!WsAssumption, WsInv
    PROVE  Ws!TypeOK /\ Ws!FramesFound
<1>1. WsTypes /\ WsPlace
  BY DEF WsInv
<1>2. Ws!Data = wsBase + read_len /\ Ws!Total = Place(FrameCount + 1)
  BY TotalIs DEF Ws!Data
<1>3. ASSUME NEW k \in 1..FrameCount
      PROVE  /\ Ws!Start(k) = Place(k) /\ Ws!Start(k + 1) = Place(k + 1)
             /\ Ws!Payload(k) = Place(k) + FrameHeader(frames[k])
             /\ Place(k) \in Nat /\ FrameHeader(frames[k]) \in Nat
  <2>1. FrameHeader(frames[k]) \in Nat
    BY <1>1, WsPlaces
  <2>2. k \in 1..FrameCount + 1
    BY <1>1, WsPlaces
  <2>3. Place(k) \in Nat
    BY <1>1, <2>2, WsPlaces
  <2> QED BY <2>1, <2>3, PlaceIs DEF Ws!Payload, Ws!Header, FrameHeader
<1>4. Ws!TypeOK
  <2>1. wsPc \in WsLive => wsBase + remaining_len <= Ws!Total
    BY <1>1, <1>2 DEF WsTypes
  <2> QED BY <1>1, <2>1 DEF WsTypes, WsLive, Ws!TypeOK
<1>5. Ws!InStep
  <2>1. ASSUME wsPc \in WsLive, wsStatus = "PAYLOAD"
        PROVE  \E k \in 1..Len(frames) : Ws!Data + payload_len = Ws!Start(k + 1) /\ Ws!Payload(k) <= Ws!Data
    <3>1. PICK k \in 1..FrameCount : PayloadAt(k)
      BY <2>1, <1>1 DEF WsPlace
    <3>2. Ws!Data + payload_len = Ws!Start(k + 1) /\ Ws!Payload(k) <= Ws!Data
      BY <3>1, <1>2, <1>3 DEF PayloadAt
    <3> QED BY <3>2 DEF FrameCount
  <2>2. ASSUME wsPc \in WsLive, wsStatus # "PAYLOAD"
        PROVE  \E k \in 1..Len(frames) + 1 : wsBase = Ws!Start(k)
    <3>1. PICK k \in 1..FrameCount + 1 : HeaderAt(k)
      BY <2>2, <1>1 DEF WsPlace
    <3> QED BY <3>1, PlaceIs DEF HeaderAt, FrameCount
  <2> QED BY <2>1, <2>2 DEF Ws!InStep, WsLive
<1>6. Ws!UnmaskedRight
  <2> SUFFICES ASSUME wsPc = "payload", MASK, OPCODE # "PING"
               PROVE  LET k == CHOOSE k \in 1..FrameCount : Ws!Payload(k) <= Ws!Data /\ Ws!Data + payload_len = Ws!Start(k + 1)
                      IN  \A i \in 0..Ws!DataLen - 1 :
                            Ws!co_websocket_fast_mask(Ws!DataAddress, mask, Ws!DataLen)[i] = (Ws!Data - Ws!Payload(k) + i) % 4
    BY DEF Ws!UnmaskedRight, Ws!Masked, FrameCount
  <2> DEFINE c == CHOOSE k \in 1..FrameCount : Ws!Payload(k) <= Ws!Data /\ Ws!Data + payload_len = Ws!Start(k + 1)
  <2>1. PICK k \in 1..FrameCount : PayloadAt(k)
    BY <1>1 DEF WsPlace, WsLive
  <2>2. Ws!Payload(k) <= Ws!Data /\ Ws!Data + payload_len = Ws!Start(k + 1)
    BY <2>1, <1>2, <1>3 DEF PayloadAt
  <2>3. c \in 1..FrameCount /\ Ws!Data + payload_len = Ws!Start(c + 1)
    BY <2>2
  <2> HIDE DEF c
  <2>4. c = k
    BY <1>1, <1>3, <2>2, <2>3, FrameEnds
  <2>5. PICK x \in Int : x = Ws!Data - Ws!Payload(k)
    <3>1. wsBase \in Nat /\ read_len \in Nat
      BY <1>1 DEF WsTypes
    <3> QED BY <3>1, <1>2, <1>3
  <2>6. mask = x % 4
    BY <2>1, <2>5, <1>2, <1>3 DEF PayloadAt
  <2>7. Ws!DataLen \in Nat /\ Ws!DataAddress \in Nat
    <3>1. aligned \in Nat /\ read_len \in Nat
      BY <1>1 DEF WsTypes
    <3> QED BY <3>1, <1>1, DataLenIs DEF Ws!DataAddress
  <2>8. ASSUME NEW i \in 0..Ws!DataLen - 1
        PROVE  Ws!co_websocket_fast_mask(Ws!DataAddress, mask, Ws!DataLen)[i] = (Ws!Data - Ws!Payload(c) + i) % 4
    <3>1. Ws!co_websocket_fast_mask(Ws!DataAddress, x % 4, Ws!DataLen)[i] = (x + i) % 4
      BY <2>7, FastMaskIs
    <3> QED BY <3>1, <2>4, <2>5, <2>6
  <2> QED BY <2>8 DEF c
<1>7. Ws!NothingWaits
  <2> SUFFICES ASSUME wsPc = "recv", remaining_len > 0
               PROVE  remaining_len < Ws!Header(Ws!Current)
    BY DEF Ws!NothingWaits
  <2>1. wsPc \in WsLive
    BY DEF WsLive
  <2>2. wsStatus # "PAYLOAD"
    BY <1>1 DEF WsPlace
  <2>3. PICK k \in 1..FrameCount + 1 : HeaderAt(k)
    BY <1>1, <2>1, <2>2 DEF WsPlace
  <2>4. Ws!Current = k /\ Ws!Header(k) = FrameHeader(frames[k])
    BY <1>1, <2>1, <2>3, CurrentIs DEF HeaderAt
  <2> QED BY <2>3, <2>4 DEF HeaderAt
<1>8. Ws!SkipEnds
  BY <1>1 DEF WsPlace, WsLive, Ws!SkipEnds
<1> QED BY <1>4, <1>5, <1>6, <1>7, <1>8 DEF Ws!FramesFound

LEMMA WsStays ==
    ASSUME WsInv, UNCHANGED websocket
    PROVE  WsInv'
<1>1. UNCHANGED << frames, aligned, wsPc, wsBase, remaining_len, read_len, wsStatus, OPCODE, MASK,
                   payload_len, mask, skip_frame, recv_data_offset >>
  BY DEF websocket
<1>2. FrameCount' = FrameCount /\ \A k : Place(k)' = Place(k)
  BY <1>1 DEF FrameCount, Place
<1>3. WsTypes'
  BY <1>1, <1>2 DEF WsInv, WsTypes
<1>4. \A k : HeaderAt(k) => HeaderAt(k)'
  BY <1>1, <1>2 DEF HeaderAt
<1>5. \A k : PayloadAt(k) => PayloadAt(k)'
  BY <1>1, <1>2 DEF PayloadAt
<1>6. WsPlace'
  BY <1>1, <1>2, <1>4, <1>5 DEF WsInv, WsPlace
<1> QED BY <1>3, <1>6 DEF WsInv

LEMMA WsSafe == Spec => []WsInv
<1>1. Ws!WsAssumption
  BY PartsAssumption DEF PartsAssumption
<1>2. Init => WsInv
  BY <1>1, WsInit DEF Init
<1>3. WsInv /\ [Next]_vars => WsInv'
  <2> SUFFICES ASSUME WsInv, [Next]_vars
               PROVE  WsInv'
    OBVIOUS
  <2>1. Ws!Next \/ UNCHANGED websocket
    BY DEF Next, vars
  <2> QED BY <1>1, <2>1, WsStep, WsStays
<1> QED BY <1>2, <1>3, PTL DEF Spec

----------------------------------------------------------------------------
(* elaphureLink.  Where a packet begins is the sum of the lengths before   *)
(* it; what the proofs use of a stream is below.                           *)

PacketsFit(p) ==
    /\ p \in Seq({ "command", "enter", "passthrough", "exit" } \X Nat)
    /\ \A k \in 1..Len(p) :
         /\ p[k][2] > 0 /\ p[k][2] <= RecvSize /\ (p[k][1] # "command" => p[k][2] >= 4)
         /\ p[k][1] = "command" =>
              ~ \E j \in 1..k - 1 : p[j][1] = "enter" /\ \A i \in j..k - 1 : p[i][1] # "exit"

PacketAt(p, k) ==
    LET at[n \in 1..k] == IF n = 1 THEN 0 ELSE at[n - 1] + p[n - 1][2] IN at[k]

LEMMA PacketAtIs ==
    ASSUME NEW k
    PROVE  El!Start(k) = PacketAt(packets, k) /\ El!Start(k)' = PacketAt(packets', k)
BY DEF PacketAt, El!Start

LEMMA PacketSums ==
    ASSUME NEW p, PacketsFit(p)
    PROVE  \E s : /\ SumsOf(s, [i \in 1..Len(p) |-> p[i][2]], Len(p))
                  /\ \A k \in 1..Len(p) + 1 : PacketAt(p, k) = s[k - 1]
<1> DEFINE N == Len(p)
           d == [i \in 1..N |-> p[i][2]]
<1>1. N \in Nat /\ \A i \in 1..N : d[i] \in Nat
  BY DEF PacketsFit
<1>2. PICK s : SumsOf(s, d, N)
  <2> HIDE DEF d, N
  <2> QED BY <1>1, SumsExist
<1>3. ASSUME NEW k \in 1..N + 1 PROVE PacketAt(p, k) = s[k - 1]
  <2> DEFINE F(at) == [n \in 1..k |-> IF n = 1 THEN 0 ELSE at[n - 1] + p[n - 1][2]]
             G(at) == [n \in 1..k |-> IF n = 1 THEN 0 ELSE at[n - 1] + d[n - 1]]
             g == [n \in 1..k |-> s[n - 1]]
  <2>1. ASSUME NEW n \in 1..k, n # 1 PROVE n - 1 \in 1..k /\ n - 1 \in 1..N /\ d[n - 1] = p[n - 1][2]
    BY <1>1, <2>1
  <2>2. \A at : F(at) = G(at)
    <3> HIDE DEF d, N
    <3> QED BY <2>1
  <2>3. g = F(g)
    <3>1. ASSUME NEW n \in 1..k PROVE g[n] = F(g)[n]
      <4>1. CASE n = 1
        BY <4>1, <1>2 DEF SumsOf
      <4>2. CASE n # 1
        <5>1. s[n - 1] = s[(n - 1) - 1] + p[n - 1][2]
          BY <4>2, <2>1, <1>2 DEF SumsOf
        <5> QED BY <4>2, <5>1, <2>1
      <4> QED BY <4>1, <4>2
    <3> QED BY <3>1
  <2> DEFINE c == CHOOSE at : at = F(at)
  <2>4. c = F(c)
    <3> HIDE DEF g, F
    <3> QED BY <2>3
  <2>5. c[k] = s[k - 1]
    <3>1. c = G(c)
      <4> HIDE DEF c, F, G
      <4> QED BY <2>2, <2>4
    <3> HIDE DEF c, d, N
    <3> QED BY <3>1, <1>1, <1>2, SumsAre
  <2> QED BY <2>5 DEF PacketAt
<1> QED BY <1>2, <1>3

(* A packet ends where the next begins.                                    *)
LEMMA PacketsAreNext ==
    ASSUME NEW p, PacketsFit(p)
    PROVE  /\ Len(p) \in Nat /\ PacketAt(p, 1) = 0
           /\ \A k \in 1..Len(p) + 1 : PacketAt(p, k) \in Nat
           /\ \A k \in 1..Len(p) : /\ p[k][2] \in Nat
                                   /\ PacketAt(p, k + 1) = PacketAt(p, k) + p[k][2]
           /\ \A j, k \in 1..Len(p) + 1 : j < k => PacketAt(p, j) < PacketAt(p, k)
<1> DEFINE N == Len(p)
           d == [i \in 1..N |-> p[i][2]]
<1>1. N \in Nat /\ \A i \in 1..N : d[i] \in Nat /\ d[i] > 0 /\ d[i] = p[i][2]
  BY DEF PacketsFit
<1>2. PICK s : SumsOf(s, d, N) /\ \A k \in 1..N + 1 : PacketAt(p, k) = s[k - 1]
  BY PacketSums
<1> HIDE DEF d, N
<1>3. PacketAt(p, 1) = 0
  <2>1. 1 \in 1..N + 1 /\ 1 - 1 = 0
    BY <1>1
  <2> QED BY <1>2, <2>1 DEF SumsOf
<1>4. ASSUME NEW k \in 1..N + 1 PROVE PacketAt(p, k) \in Nat
  <2>1. k - 1 \in 0..N
    BY <1>1
  <2> QED BY <1>2, <2>1 DEF SumsOf
<1>5. ASSUME NEW k \in 1..N PROVE p[k][2] \in Nat /\ PacketAt(p, k + 1) = PacketAt(p, k) + p[k][2]
  <2>1. k \in 1..N + 1 /\ k + 1 \in 1..N + 1 /\ (k + 1) - 1 = k
    BY <1>1
  <2>2. PacketAt(p, k + 1) = s[k] /\ PacketAt(p, k) = s[k - 1] /\ s[k] = s[k - 1] + d[k]
    BY <1>2, <2>1 DEF SumsOf
  <2> QED BY <2>2, <1>1
<1>6. ASSUME NEW j \in 1..N + 1, NEW k \in 1..N + 1, j < k PROVE PacketAt(p, j) < PacketAt(p, k)
  <2>1. j - 1 \in 0..N /\ k - 1 \in 0..N /\ j - 1 < k - 1
    BY <1>1, <1>6
  <2>2. s[j - 1] < s[k - 1]
    BY <1>1, <1>2, <2>1, SumsRise
  <2> QED BY <1>2, <2>2
<1> QED BY <1>1, <1>3, <1>4, <1>5, <1>6 DEF N

LEMMA PacketStreamsFit ==
    ASSUME El!ElAssumption, NEW p \in PacketStreams
    PROVE  PacketsFit(p)
BY DEF El!ElAssumption, El!Allowed, PacketsFit

(* A scope goes on to the next packet unless it is left.                   *)
Scope(p, k) == \E j \in 1..k - 1 : p[j][1] = "enter" /\ \A i \in j..k - 1 : p[i][1] # "exit"

LEMMA InScopeIs ==
    ASSUME NEW k
    PROVE  El!InScope(k) = Scope(packets, k)
BY DEF Scope, El!InScope, El!Kind

(* What el_vendor_command leaves in is_async.                              *)
LEMMA ScopeFollows ==
    ASSUME PacketsFit(packets), is_async \in BOOLEAN, done \in Nat, is_async <=> Scope(packets, done + 1),
           NEW k \in 1..Len(packets), done < k, NEW first, NEW length, El!Executed(k, first, length)
    PROVE  is_async' \in BOOLEAN /\ (is_async' <=> Scope(packets, k + 1))
<1> DEFINE Turns == { j \in done + 1..k : packets[j][1] \in { "enter", "exit" } }
<1>0. k \in Nat /\ (k + 1) - 1 = k /\ (done + 1) - 1 = done
  BY DEF PacketsFit
<1>1. CASE Turns = {}
  <2>1. is_async' = is_async
    BY <1>1 DEF El!Executed, El!Kind
  <2>2. ASSUME Scope(packets, done + 1) PROVE Scope(packets, k + 1)
    <3>1. PICK j \in 1..done : packets[j][1] = "enter" /\ \A i \in j..done : packets[i][1] # "exit"
      BY <2>2, <1>0 DEF Scope
    <3>2. ASSUME NEW i \in j..k PROVE packets[i][1] # "exit"
      <4>1. i \in j..done \/ i \in done + 1..k
        OBVIOUS
      <4> QED BY <4>1, <3>1, <1>1
    <3>3. j \in 1..k
      BY <1>0
    <3> QED BY <1>0, <3>1, <3>2, <3>3 DEF Scope
  <2>3. ASSUME Scope(packets, k + 1) PROVE Scope(packets, done + 1)
    <3>1. PICK j \in 1..k : packets[j][1] = "enter" /\ \A i \in j..k : packets[i][1] # "exit"
      BY <2>3, <1>0 DEF Scope
    <3>2. j \in 1..done
      <4>1. j \notin done + 1..k
        BY <1>1, <3>1
      <4> QED BY <4>1, <1>0
    <3>3. \A i \in j..done : i \in j..k
      BY <1>0
    <3> QED BY <1>0, <3>1, <3>2, <3>3 DEF Scope
  <2> QED BY <2>1, <2>2, <2>3
<1>2. CASE Turns # {}
  <2> DEFINE Last(j) == j \in Turns /\ \A i \in j + 1..k : packets[i][1] \notin { "enter", "exit" }
             t == CHOOSE j \in done + 1..k : /\ packets[j][1] \in { "enter", "exit" }
                                             /\ \A i \in j + 1..k : packets[i][1] \notin { "enter", "exit" }
  <2>1. \E j \in done + 1..k : Last(j)
    <3>1. Turns \in SUBSET (0..k)
      BY <1>0
    <3>2. PICK m \in Turns : \A n \in Turns : n <= m
      <4> HIDE DEF Turns
      <4> QED BY <1>0, <1>2, <3>1, GreatestNatural
    <3>3. ASSUME NEW i \in m + 1..k PROVE packets[i][1] \notin { "enter", "exit" }
      <4>1. m \in Nat /\ i \in done + 1..k /\ ~(i <= m)
        BY <1>0
      <4> QED BY <3>2, <4>1
    <3> QED BY <3>2, <3>3
  <2>2. t \in done + 1..k /\ Last(t)
    BY <2>1
  <2>3. is_async' = (packets[t][1] = "enter")
    <3>1. \E j \in done + 1..k : El!Kind(j) \in { "enter", "exit" }
      BY <2>1 DEF El!Kind
    <3> QED BY <3>1 DEF El!Executed, El!Kind
  <2> HIDE DEF t
  <2>4. t \in 1..k /\ t \in Nat
    BY <2>2, <1>0
  <2>5. ASSUME packets[t][1] = "enter" PROVE Scope(packets, k + 1)
    <3>1. ASSUME NEW i \in t..k PROVE packets[i][1] # "exit"
      <4>1. i = t \/ i \in t + 1..k
        BY <2>4
      <4> QED BY <4>1, <2>2, <2>5
    <3> QED BY <3>1, <2>4, <2>5, <1>0 DEF Scope
  <2>6. ASSUME Scope(packets, k + 1) PROVE packets[t][1] = "enter"
    <3>1. PICK j \in 1..k : packets[j][1] = "enter" /\ \A i \in j..k : packets[i][1] # "exit"
      BY <2>6, <1>0 DEF Scope
    <3>2. CASE j <= t
      <4>1. t \in j..k
        BY <3>2, <2>4
      <4> QED BY <4>1, <3>1, <2>2
    <3>3. CASE ~(j <= t)
      <4>1. j \in t + 1..k
        BY <3>3, <2>4
      <4> QED BY <4>1, <3>1, <2>2
    <3> QED BY <3>2, <3>3
  <2> QED BY <2>3, <2>5, <2>6
<1> QED BY <1>1, <1>2

(* Where el_dap_work is in the stream, for each recv it may be in.         *)
At(k) == PacketAt(packets, k)

ElPlace ==
    /\ elPc = "handshake" => pos = 0 /\ elBase = 0 /\ elSent = 0 /\ done = 0 /\ want \in 1..8
    /\ elPc \in { "recv", "header", "payload", "async header", "async payload" } => elBase = At(done + 1)
    /\ elPc = "recv" => pos = elBase /\ want = RecvSize /\ ~is_async
    /\ elPc = "header" => /\ elBase < pos /\ pos < elBase + 4 /\ want = elBase + 4 - pos
    /\ elPc = "async header" => pos < elBase + 4 /\ want = elBase + 4 - pos
    /\ elPc \in { "payload", "async payload" } =>
         /\ elBase + 4 <= pos /\ done < elSent
         /\ pos < At(done + 2) /\ want = At(done + 2) - pos
    /\ elPc \in { "header", "payload" } => done < elSent /\ packets[done + 1][1] # "command"
    /\ elPc \in { "async header", "async payload" } => is_async

ElTypes ==
    /\ PacketsFit(packets)
    /\ elSent \in 0..Len(packets) /\ done \in 0..elSent
    /\ elBase \in Nat /\ pos \in Nat /\ want \in 0..RecvSize
    /\ elBase <= pos /\ pos <= At(elSent + 1)
    /\ elPc \in { "handshake", "recv", "header", "payload", "async header", "async payload", "closed", "ended" }
    /\ is_async \in BOOLEAN

ElInv ==
    /\ ElTypes /\ ElPlace
    /\ is_async <=> Scope(packets, done + 1)
    /\ done > 0 => last = << At(done), packets[done][2] >>
    /\ \A j \in done + 2..elSent : Scope(packets, j)    \* the host waits otherwise

LEMMA ElSizes == El!ElAssumption /\ RecvSize \in Nat /\ RecvSize >= 8
BY PartsAssumption DEF PartsAssumption, El!ElAssumption

LEMMA ElInit ==
    ASSUME El!ElAssumption
    PROVE  El!Init => ElInv
<1> SUFFICES ASSUME El!Init PROVE ElInv
  OBVIOUS
<1>1. PacketsFit(packets)
  BY PacketStreamsFit DEF El!Init
<1>2. At(1) = 0 /\ Len(packets) \in Nat
  BY <1>1, PacketsAreNext DEF At
<1>3. ~ Scope(packets, 1)
  BY DEF Scope
<1>4. done + 1 = 1 /\ elSent + 1 = 1 /\ elSent = 0 /\ done = 0
  BY DEF El!Init
<1>5. ElTypes
  <2>1. At(elSent + 1) = 0 /\ elSent \in 0..Len(packets) /\ done \in 0..elSent /\ want \in 0..RecvSize
    BY <1>2, <1>4, ElSizes DEF El!Init
  <2>2. elBase = 0 /\ pos = 0 /\ elPc = "handshake" /\ is_async = FALSE
    BY DEF El!Init
  <2>3. elBase \in Nat /\ pos \in Nat /\ elBase <= pos /\ pos <= At(elSent + 1)
    BY <2>1, <2>2
  <2> QED BY <2>1, <2>2, <2>3, <1>1 DEF ElTypes
<1>6. ElPlace
  BY <1>4 DEF El!Init, ElPlace
<1>7. \A j \in done + 2..elSent : Scope(packets, j)
  BY <1>4
<1> QED BY <1>3, <1>4, <1>5, <1>6, <1>7 DEF El!Init, ElInv

(* What is known of a packet that is awaited, as numbers.                  *)
LEMMA ElNumbers ==
    ASSUME ElTypes
    PROVE  /\ Len(packets) \in Nat /\ done \in Nat /\ elSent \in Nat
           /\ At(done + 1) \in Nat /\ At(elSent + 1) \in Nat /\ At(done + 1) <= At(elSent + 1)
           /\ done = elSent \/ done + 1 <= elSent
           /\ done < elSent => /\ done + 1 \in 1..Len(packets)
                               /\ packets[done + 1][2] \in Nat /\ At(done + 2) \in Nat
                               /\ packets[done + 1][2] > 0 /\ packets[done + 1][2] <= RecvSize
                               /\ At(done + 2) = At(done + 1) + packets[done + 1][2]
                               /\ At(done + 2) <= At(elSent + 1)
                               /\ packets[done + 1][1] # "command" => packets[done + 1][2] >= 4
           /\ done = elSent => At(done + 1) = At(elSent + 1)
<1>1. PacketsFit(packets) /\ Len(packets) \in Nat /\ done \in Nat /\ elSent \in Nat /\ elSent <= Len(packets) /\ done <= elSent
  <2>1. PacketsFit(packets) /\ elSent \in 0..Len(packets) /\ done \in 0..elSent
    BY DEF ElTypes
  <2>2. Len(packets) \in Nat
    BY <2>1, PacketsAreNext
  <2> QED BY ONLY <2>1, <2>2
<1>2. done + 1 \in 1..Len(packets) + 1 /\ elSent + 1 \in 1..Len(packets) + 1
  BY <1>1
<1>3. At(done + 1) \in Nat /\ At(elSent + 1) \in Nat
  BY <1>1, <1>2, PacketsAreNext DEF At
<1>4. At(done + 1) <= At(elSent + 1)
  <2>1. CASE done = elSent
    BY <2>1, <1>3
  <2>2. CASE done < elSent
    <3>1. done + 1 < elSent + 1
      BY <2>2, <1>1
    <3>2. At(done + 1) < At(elSent + 1)
      BY <3>1, <1>1, <1>2, PacketsAreNext DEF At
    <3> QED BY ONLY <3>2, <1>3
  <2> QED BY <2>1, <2>2, <1>1
<1>5. ASSUME done < elSent
      PROVE  /\ done + 1 \in 1..Len(packets)
             /\ packets[done + 1][2] \in Nat /\ At(done + 2) \in Nat
             /\ packets[done + 1][2] > 0 /\ packets[done + 1][2] <= RecvSize
             /\ At(done + 2) = At(done + 1) + packets[done + 1][2]
             /\ At(done + 2) <= At(elSent + 1)
             /\ packets[done + 1][1] # "command" => packets[done + 1][2] >= 4
  <2>1. done + 1 \in 1..Len(packets) /\ done + 2 \in 1..Len(packets) + 1 /\ (done + 1) + 1 = done + 2
    BY <1>1, <1>5
  <2>2. At(done + 2) \in Nat /\ packets[done + 1][2] \in Nat /\ At(done + 2) = At(done + 1) + packets[done + 1][2]
    BY <1>1, <2>1, PacketsAreNext DEF At
  <2>3. At(done + 2) <= At(elSent + 1)
    <3>1. done + 2 = elSent + 1 \/ done + 2 < elSent + 1
      BY <1>1, <1>5
    <3>2. CASE done + 2 < elSent + 1
      BY <3>2, <1>1, <1>2, <1>3, <2>1, <2>2, PacketsAreNext DEF At
    <3> QED BY <3>1, <3>2, <1>3
  <2>4. packets[done + 1][2] > 0 /\ packets[done + 1][2] <= RecvSize /\ (packets[done + 1][1] # "command" => packets[done + 1][2] >= 4)
    BY <1>1, <2>1 DEF PacketsFit
  <2> QED BY <2>1, <2>2, <2>3, <2>4
<1> QED BY <1>1, <1>3, <1>4, <1>5

LEMMA ElTold ==
    ASSUME ElInv
    PROVE  El!TypeOK /\ El!PacketsFound
<1>1. PacketsFit(packets) /\ ElTypes /\ ElPlace
  BY DEF ElInv, ElTypes
<1>2. El!Start(elSent + 1) = At(elSent + 1) /\ El!Start(done) = At(done)
  BY PacketAtIs DEF At
<1>3. El!TypeOK
  <2>1. pos <= El!Start(elSent + 1) /\ elBase <= pos /\ want \in 0..RecvSize /\ done \in 0..elSent
    BY <1>1, <1>2 DEF ElTypes
  <2>2. done <= elSent
    BY <1>1, ElNumbers
  <2> QED BY <1>1, <2>1, <2>2 DEF ElTypes, El!TypeOK
<1>4. El!PacketsAsSent
  BY <1>2 DEF ElInv, El!PacketsAsSent
<1>5. El!NothingKept
  <2> SUFFICES ASSUME elPc \in { "recv", "header", "payload", "async header", "async payload" },
                      pos = At(elSent + 1), done # elSent
               PROVE  FALSE
    BY <1>2 DEF El!NothingKept
  <2>1. done < elSent
    <3>1. done \in Nat /\ elSent \in Nat /\ (done = elSent \/ done + 1 <= elSent)
      BY <1>1, ElNumbers
    <3>2. done # elSent
      OBVIOUS
    <3> QED BY ONLY <3>1, <3>2
  <2> DEFINE a == At(done + 1)
             b == At(done + 2)
             c == At(elSent + 1)
             l == packets[done + 1][2]
  <2>2. a \in Nat /\ b \in Nat /\ c \in Nat /\ l \in Nat /\ b = a + l /\ b <= c /\ l > 0 /\ elBase = a /\ pos = c
    BY <1>1, <2>1, ElNumbers DEF ElPlace
  <2>3. CASE elPc = "recv"
    <3>1. pos = elBase
      BY <1>1, <2>3 DEF ElPlace
    <3> HIDE DEF a, b, c, l
    <3> QED BY ONLY <2>2, <3>1
  <2>4. CASE elPc \in { "header", "async header" }
    <3>1. pos < elBase + 4
      BY <1>1, <2>4 DEF ElPlace
    <3>2. l >= 4
      <4>1. CASE elPc = "header"
        BY <4>1, <1>1, <2>1, ElNumbers DEF ElPlace
      <4>2. CASE elPc = "async header"
        <5>1. Scope(packets, done + 1)
          BY <4>2 DEF ElInv, ElPlace
        <5>2. packets[done + 1][1] # "command"
          BY <5>1, <1>1, <2>1, ElNumbers DEF Scope, PacketsFit
        <5> QED BY <5>2, <1>1, <2>1, ElNumbers
      <4> QED BY <2>4, <4>1, <4>2
    <3> HIDE DEF a, b, c, l
    <3> QED BY ONLY <2>2, <3>1, <3>2
  <2>5. CASE elPc \in { "payload", "async payload" }
    <3>1. pos < b
      BY <1>1, <2>5 DEF ElPlace
    <3> HIDE DEF a, b, c, l
    <3> QED BY ONLY <2>2, <3>1
  <2> QED BY <2>3, <2>4, <2>5
<1>6. El!ScopeKnown
  BY InScopeIs DEF ElInv, El!ScopeKnown
<1> QED BY <1>3, <1>4, <1>5, <1>6 DEF El!PacketsFound

(* Packets that have been executed                                         *)
LEMMA ElDone ==
    ASSUME ElInv, packets' = packets, NEW k \in 1..Len(packets), done < k,
           El!Executed(k, At(k), packets[k][2])
    PROVE  /\ done' = k /\ is_async' \in BOOLEAN
           /\ is_async' <=> Scope(packets', done' + 1)
           /\ last' = << At(done)', packets'[done'][2] >>
<1>1. PacketsFit(packets) /\ is_async \in BOOLEAN /\ (is_async <=> Scope(packets, done + 1))
  BY DEF ElInv, ElTypes
<1>2. done \in Nat
  BY ElNumbers DEF ElInv
<1>3. is_async' \in BOOLEAN /\ (is_async' <=> Scope(packets, k + 1))
  BY <1>1, <1>2, ScopeFollows
<1>4. done' = k /\ last' = << At(k), packets[k][2] >>
  BY DEF El!Executed
<1>5. At(done)' = At(k)
  BY <1>4 DEF At
<1> QED BY <1>3, <1>4, <1>5

(* The recv that follows                                                   *)
LEMMA ElAgain ==
    ASSUME RecvSize \in Nat, RecvSize >= 8,
           PacketsFit(packets), packets' = packets, elSent' = elSent,
           elSent \in 0..Len(packets), done' \in 0..elSent, is_async' \in BOOLEAN,
           is_async' <=> Scope(packets', done' + 1),
           done' > 0 => last' = << At(done)', packets'[done'][2] >>,
           \A j \in done' + 2..elSent' : Scope(packets', j),
           elBase' = At(done + 1)', pos' = elBase', El!Again
    PROVE  ElInv'
<1> DEFINE a == At(done' + 1)
           c == At(elSent + 1)
<1>1. At(done + 1)' = a /\ At(elSent + 1)' = c
  BY DEF At
<1>2. Len(packets) \in Nat /\ a \in Nat /\ c \in Nat /\ a <= c
  <2>1. Len(packets) \in Nat
    BY PacketsAreNext
  <2>2. done' + 1 \in 1..Len(packets) + 1 /\ elSent + 1 \in 1..Len(packets) + 1 /\ (done' + 1 < elSent + 1 \/ done' = elSent)
    <3>1. elSent \in 0..Len(packets) /\ done' \in 0..elSent
      OBVIOUS
    <3>2. \A l \in Nat : \A x \in 0..l : \A y \in 0..x :
            y + 1 \in 1..l + 1 /\ x + 1 \in 1..l + 1 /\ (y + 1 < x + 1 \/ y = x)
      OBVIOUS
    <3> QED BY ONLY <2>1, <3>1, <3>2, Zenon
  <2>3. a \in Nat /\ c \in Nat
    BY <2>2, PacketsAreNext DEF At
  <2>4. CASE done' + 1 < elSent + 1
    <3>1. a < c
      BY <2>2, <2>4, PacketsAreNext DEF At
    <3> HIDE DEF a, c
    <3> QED BY ONLY <3>1, <2>3
  <2>5. CASE done' = elSent
    <3>1. a = c
      BY <2>5 DEF At
    <3> HIDE DEF a, c
    <3> QED BY ONLY <3>1, <2>3
  <2> QED BY <2>1, <2>2, <2>3, <2>4, <2>5
<1> HIDE DEF a, c
<1>3. ElTypes'
  <2>1. elBase' \in Nat /\ pos' \in Nat /\ elBase' <= pos' /\ pos' <= At(elSent + 1)'
    BY <1>1, <1>2
  <2>2. want' \in 0..RecvSize /\ elPc' \in { "recv", "async header" }
    <3>1. 4 \in 0..RecvSize /\ RecvSize \in 0..RecvSize
      OBVIOUS
    <3> QED BY <3>1 DEF El!Again
  <2> QED BY <2>1, <2>2 DEF ElTypes
<1>4. ElPlace'
  <2>1. CASE is_async'
    <3>1. elPc' = "async header" /\ want' = 4
      BY <2>1 DEF El!Again
    <3>2. pos' < elBase' + 4 /\ want' = elBase' + 4 - pos'
      <4>1. pos' = a /\ elBase' = a /\ a \in Nat
        BY <1>1, <1>2
      <4>2. \A x \in Nat : x < x + 4 /\ x + 4 - x = 4
        OBVIOUS
      <4>3. a < a + 4 /\ a + 4 - a = 4
        BY <4>1, <4>2
      <4> QED BY ONLY <3>1, <4>1, <4>3, Zenon
    <3> QED BY <2>1, <3>1, <3>2 DEF ElPlace
  <2>2. CASE ~is_async'
    <3>1. elPc' = "recv" /\ want' = RecvSize
      BY <2>2 DEF El!Again
    <3> QED BY <2>2, <3>1 DEF ElPlace
  <2> QED BY <2>1, <2>2
<1> QED BY <1>3, <1>4 DEF ElInv

LEMMA ElSendKeeps ==
    ASSUME ElInv, El!Send
    PROVE  ElInv'
<1>1. UNCHANGED << packets, elPc, elBase, pos, want, is_async, done, last >> /\ elSent' = elSent + 1
      /\ elSent < Len(packets) /\ elPc \notin { "handshake", "closed", "ended" }
  BY DEF El!Send
<1>2. ElTypes /\ ElPlace
  BY DEF ElInv
<1>3. Len(packets) \in Nat /\ elSent \in Nat /\ done \in Nat /\ done <= elSent /\ At(elSent + 1) \in Nat
  <2>1. done \in 0..elSent
    BY <1>2 DEF ElTypes
  <2>2. Len(packets) \in Nat /\ elSent \in Nat /\ done \in Nat /\ At(elSent + 1) \in Nat
    BY <1>2, ElNumbers
  <2> QED BY ONLY <2>1, <2>2
<1>4. At(elSent + 1)' \in Nat /\ At(elSent + 1) <= At(elSent + 1)'
  <2>1. elSent + 1 \in 1..Len(packets) + 1 /\ elSent + 2 \in 1..Len(packets) + 1 /\ elSent + 1 < elSent + 2 /\ elSent' + 1 = elSent + 2
    BY <1>1, <1>3
  <2>2. PacketsFit(packets)
    BY <1>2 DEF ElTypes
  <2>3. At(elSent + 2) \in Nat /\ At(elSent + 1) < At(elSent + 2)
    BY <2>1, <2>2, PacketsAreNext DEF At
  <2>4. At(elSent + 1)' = At(elSent + 2)
    BY <1>1, <2>1 DEF At
  <2> QED BY <2>3, <2>4, <1>3
<1>5. ElTypes'
  <2>1. elSent' \in 0..Len(packets') /\ done' \in 0..elSent'
    BY <1>1, <1>3
  <2>2. pos \in Nat /\ pos <= At(elSent + 1)
    BY <1>2 DEF ElTypes
  <2>3. pos <= At(elSent + 1)'
    BY ONLY <1>3, <1>4, <2>2
  <2> QED BY <2>1, <2>3, <1>1, <1>2 DEF ElTypes
<1>6. ElPlace'
  <2>1. done < elSent => done' < elSent'
    BY <1>1, <1>3
  <2>2. At(done + 1)' = At(done + 1) /\ At(done + 2)' = At(done + 2)
    BY <1>1 DEF At
  <2> QED BY <1>1, <1>2, <2>1, <2>2 DEF ElPlace
<1>7. done' > 0 => last' = << At(done)', packets'[done'][2] >>
  BY <1>1 DEF ElInv, At
<1>8. is_async' <=> Scope(packets', done' + 1)
  BY <1>1 DEF ElInv
<1>9. \A j \in done' + 2..elSent' : Scope(packets', j)
  <2>1. done = elSent \/ Scope(packets, elSent + 1)
    BY InScopeIs DEF El!Send
  <2>2. \A j \in done + 2..elSent : Scope(packets, j)
    BY DEF ElInv
  <2>3. \A j \in done + 2..elSent + 1 : j \in done + 2..elSent \/ (j = elSent + 1 /\ done # elSent)
    BY ONLY <1>3
  <2> QED BY <1>1, <2>1, <2>2, <2>3
<1> QED BY <1>5, <1>6, <1>7, <1>8, <1>9 DEF ElInv

LEMMA ElEndKeeps ==
    ASSUME ElInv, UNCHANGED << packets, elSent, elBase, pos, want, is_async, done, last >>,
           elPc' \in { elPc, "closed" }
    PROVE  ElInv'
<1>1. At(elSent + 1)' = At(elSent + 1) /\ At(done)' = At(done) /\ At(done + 1)' = At(done + 1) /\ At(done + 2)' = At(done + 2)
  BY DEF At
<1>2. ElTypes'
  BY <1>1 DEF ElInv, ElTypes
<1>3. ElPlace'
  <2>1. CASE elPc' = elPc
    BY <2>1, <1>1 DEF ElInv, ElPlace
  <2>2. CASE elPc' = "closed"
    BY <2>2 DEF ElPlace
  <2> QED BY <2>1, <2>2
<1>4. done' > 0 => last' = << At(done)', packets'[done'][2] >>
  BY <1>1 DEF ElInv
<1>5. is_async' <=> Scope(packets', done' + 1)
  BY DEF ElInv
<1>6. \A j \in done' + 2..elSent' : Scope(packets', j)
  BY DEF ElInv
<1> QED BY <1>2, <1>3, <1>4, <1>5, <1>6 DEF ElInv

LEMMA ElHandshakeKeeps ==
    ASSUME RecvSize \in Nat, RecvSize >= 8, ElInv, El!Handshake
    PROVE  ElInv'
<1>1. PICK n \in 1..want : IF n < want THEN want' = want - n /\ UNCHANGED elPc
                           ELSE want' = RecvSize /\ elPc' \in { "recv", "closed" }
  BY DEF El!Handshake
<1>2. UNCHANGED << packets, elSent, elBase, pos, is_async, done, last >> /\ elPc = "handshake"
  BY DEF El!Handshake
<1>3. ElTypes /\ ElPlace
  BY DEF ElInv
<1>4. At(elSent + 1)' = At(elSent + 1) /\ At(done)' = At(done) /\ At(done + 1)' = At(done + 1)
  BY <1>2 DEF At
<1>5. want \in 1..8 /\ pos = 0 /\ elBase = 0 /\ done = 0 /\ elSent = 0
  BY <1>2, <1>3 DEF ElPlace
<1>6. want' \in 0..RecvSize /\ elPc' \in { "handshake", "recv", "closed" }
      /\ (elPc' = "handshake" => want' \in 1..8) /\ (elPc' = "recv" => want' = RecvSize)
  BY <1>1, <1>2, <1>5
<1>7. ElTypes'
  BY <1>2, <1>3, <1>4, <1>6 DEF ElTypes
<1>8. At(done + 1)' = 0
  <2>1. done + 1 = 1
    BY <1>5
  <2> QED BY <1>3, <1>4, <2>1, PacketsAreNext DEF ElTypes, At
<1>9. ~is_async'
  <2>1. done + 1 = 1
    BY <1>5
  <2>2. ~Scope(packets, 1)
    BY DEF Scope
  <2> QED BY <1>2, <2>1, <2>2 DEF ElInv
<1>10. ElPlace'
  BY <1>2, <1>5, <1>6, <1>8, <1>9 DEF ElPlace
<1>11. done' > 0 => last' = << At(done)', packets'[done'][2] >>
  BY <1>2, <1>4 DEF ElInv
<1>12. is_async' <=> Scope(packets', done' + 1)
  BY <1>2 DEF ElInv
<1>13. \A j \in done' + 2..elSent' : Scope(packets', j)
  BY <1>2 DEF ElInv
<1> QED BY <1>7, <1>10, <1>11, <1>12, <1>13 DEF ElInv

(* The packet that was awaited is executed, whole.                         *)
LEMMA ElOneDone ==
    ASSUME RecvSize \in Nat, RecvSize >= 8, ElInv, done < elSent,
           packets' = packets, elSent' = elSent,
           El!Executed(done + 1, At(done + 1), packets[done + 1][2]),
           elBase' = At(done + 2), pos' = elBase', El!Again
    PROVE  ElInv'
<1>1. ElTypes /\ ElPlace /\ PacketsFit(packets)
  BY DEF ElInv, ElTypes
<1>2. done + 1 \in 1..Len(packets) /\ done \in Nat /\ elSent \in Nat
  BY <1>1, ElNumbers
<1>3. done < done + 1
  BY <1>2
<1>4. done' = done + 1 /\ is_async' \in BOOLEAN /\ (is_async' <=> Scope(packets', done' + 1))
      /\ last' = << At(done)', packets'[done'][2] >>
  BY <1>2, <1>3, ElDone
<1>5. At(done + 1)' = At(done + 2)
  <2>1. done' + 1 = done + 2
    BY <1>2, <1>4
  <2> QED BY <2>1 DEF At
<1>6. elBase' = At(done + 1)'
  BY <1>5
<1>7. elSent \in 0..Len(packets)
  BY <1>1 DEF ElTypes
<1>8. done' \in 0..elSent
  <2>1. done + 1 \in 0..elSent
    BY <1>2
  <2> QED BY <1>4, <2>1
<1>9. \A j \in done' + 2..elSent' : Scope(packets', j)
  <2>1. \A j \in done + 3..elSent : j \in done + 2..elSent
    BY <1>2
  <2>2. \A j \in done + 2..elSent : Scope(packets, j)
    BY DEF ElInv
  <2>3. done' + 2 = done + 3
    BY <1>2, <1>4
  <2> QED BY <2>1, <2>2, <2>3
<1> QED BY <1>1, <1>4, <1>6, <1>7, <1>8, <1>9, ElAgain

(* Nothing is executed, and the same packet is still awaited.              *)
LEMMA ElWaits ==
    ASSUME ElInv, UNCHANGED << packets, elSent, elBase, is_async, done, last >>,
           pos' \in Nat, elBase <= pos', pos' <= At(elSent + 1), want' \in 0..RecvSize,
           elPc' \in { "payload", "async header", "async payload", "ended" },
           ElPlace'
    PROVE  ElInv'
<1>1. At(elSent + 1)' = At(elSent + 1) /\ At(done)' = At(done)
  BY DEF At
<1>2. ElTypes'
  BY <1>1 DEF ElInv, ElTypes
<1>3. done' > 0 => last' = << At(done)', packets'[done'][2] >>
  BY <1>1 DEF ElInv
<1>4. is_async' <=> Scope(packets', done' + 1)
  BY DEF ElInv
<1>5. \A j \in done' + 2..elSent' : Scope(packets', j)
  BY DEF ElInv
<1> QED BY <1>2, <1>3, <1>4, <1>5 DEF ElInv

LEMMA ElRecv ==
    ASSUME ElInv, NEW n \in El!Recv(want)
    PROVE  /\ n \in Nat /\ n > 0 /\ n <= want /\ pos + n <= At(elSent + 1)
           /\ pos \in Nat /\ want \in Nat /\ At(elSent + 1) \in Nat
<1> DEFINE c == At(elSent + 1)
<1>1. El!Start(elSent + 1) = c
  BY DEF At, PacketAt, El!Start
<1>2. c \in Nat /\ pos \in Nat /\ pos <= c /\ want \in Nat
  <2>1. want \in 0..RecvSize /\ pos \in Nat /\ pos <= At(elSent + 1)
    BY DEF ElInv, ElTypes
  <2>2. c \in Nat
    BY ElNumbers DEF ElInv
  <2> HIDE DEF c
  <2> QED BY <2>1, <2>2 DEF c
<1>3. n \in 1..(IF c - pos < want THEN c - pos ELSE want)
  BY <1>1 DEF El!Recv
<1> HIDE DEF c
<1>4. n \in Nat /\ n > 0 /\ n <= want /\ pos + n <= c
  BY ONLY <1>2, <1>3
<1> QED BY <1>2, <1>4 DEF c

LEMMA ElVendorPayloadKeeps ==
    ASSUME RecvSize \in Nat, RecvSize >= 8, RestTogether, ElInv, El!VendorPayload
    PROVE  ElInv'
<1>1. ElTypes /\ ElPlace
  BY DEF ElInv
<1>2. PICK n \in El!Recv(want) :
        /\ n = want
        /\ pos' = pos + n /\ elBase' = pos + n
        /\ El!Executed(done + 1, elBase, pos + n - elBase) /\ El!Again
  BY DEF El!VendorPayload
<1>3. elPc = "payload" /\ packets' = packets /\ elSent' = elSent
  BY DEF El!VendorPayload
<1>4. done < elSent /\ elBase = At(done + 1) /\ want = At(done + 2) - pos
  BY <1>1, <1>3 DEF ElPlace
<1>5. /\ packets[done + 1][2] \in Nat /\ At(done + 1) \in Nat /\ At(done + 2) \in Nat
      /\ At(done + 2) = At(done + 1) + packets[done + 1][2]
  BY <1>1, <1>4, ElNumbers
<1>6. pos \in Nat
  BY <1>1 DEF ElTypes
<1>7. pos + n = At(done + 2) /\ pos + n - elBase = packets[done + 1][2]
  <2>1. \A p, a, b, l \in Nat : b = a + l => p + (b - p) = b /\ b - a = l
    OBVIOUS
  <2>2. pos + (At(done + 2) - pos) = At(done + 2) /\ At(done + 2) - At(done + 1) = packets[done + 1][2]
    BY <1>5, <1>6, <2>1
  <2>3. n = At(done + 2) - pos
    BY <1>2, <1>4
  <2>4. pos + n = At(done + 2)
    BY ONLY <2>2, <2>3
  <2>5. pos + n - elBase = At(done + 2) - At(done + 1)
    <3>1. elBase = At(done + 1)
      BY <1>4
    <3>2. n \in Int /\ elBase \in Int /\ pos \in Int
      BY <1>2, <1>4, <1>5, <1>6, ElRecv
    <3> QED BY ONLY <2>4, <3>1, <3>2
  <2> QED BY ONLY <2>2, <2>4, <2>5
<1>8. El!Executed(done + 1, At(done + 1), packets[done + 1][2])
  BY <1>2, <1>4, <1>7
<1> QED BY <1>2, <1>3, <1>4, <1>7, <1>8, ElOneDone

LEMMA ElVendorHeaderKeeps ==
    ASSUME RecvSize \in Nat, RecvSize >= 8, RestTogether, ElInv, El!VendorHeader
    PROVE  ElInv'
<1>1. ElTypes /\ ElPlace
  BY DEF ElInv
<1>2. PICK n \in El!Recv(want) :
        /\ n = want /\ pos' = pos + n
        /\ IF n < want THEN elPc' = "misread" /\ UNCHANGED << elBase, want, is_async, done, last >>
           ELSE IF packets[done + 1][2] = 4
           THEN El!Executed(done + 1, elBase, 4) /\ elBase' = elBase + 4 /\ El!Again
           ELSE elPc' = "payload" /\ want' = packets[done + 1][2] - 4 /\ UNCHANGED << elBase, is_async, done, last >>
  BY DEF El!VendorHeader
<1>3. elPc = "header" /\ packets' = packets /\ elSent' = elSent
  BY DEF El!VendorHeader
<1>4. /\ done < elSent /\ elBase = At(done + 1) /\ want = elBase + 4 - pos
      /\ packets[done + 1][1] # "command"
  BY <1>1, <1>3 DEF ElPlace
<1>5. PICK a \in Nat, b \in Nat, c \in Nat, l \in Nat :
        /\ a = At(done + 1) /\ b = At(done + 2) /\ c = At(elSent + 1) /\ l = packets[done + 1][2]
        /\ b = a + l /\ l >= 4 /\ l <= RecvSize
  BY <1>1, <1>4, ElNumbers
<1>6. n \in Nat /\ n > 0 /\ n <= want /\ pos + n <= c /\ pos \in Nat
  BY <1>5, ElRecv
<1>7. pos' = a + 4 /\ ~(n < want)
  <2>1. \A p, x \in Nat : p + (x + 4 - p) = x + 4 /\ ~(x + 4 - p < x + 4 - p)
    OBVIOUS
  <2>2. pos + (a + 4 - pos) = a + 4 /\ ~(a + 4 - pos < a + 4 - pos)
    BY <1>6, <2>1
  <2> QED BY <1>2, <1>4, <1>5, <2>2
<1>8. CASE l = 4
  <2>1. El!Executed(done + 1, At(done + 1), packets[done + 1][2]) /\ elBase' = At(done + 2) /\ El!Again /\ pos' = elBase'
    BY <1>2, <1>4, <1>5, <1>7, <1>8
  <2> QED BY <1>3, <1>4, <2>1, ElOneDone
<1>9. CASE l # 4
  <2>1. elPc' = "payload" /\ want' = l - 4 /\ UNCHANGED << elBase, is_async, done, last >>
    BY <1>2, <1>5, <1>7, <1>9
  <2>2. a + 4 < b /\ l - 4 = b - (a + 4) /\ l - 4 \in 0..RecvSize /\ a + 4 \in Nat /\ a <= a + 4
    BY ONLY <1>5, <1>9, RecvSize \in Nat
  <2>3. pos' <= c
    BY <1>2, <1>6
  <2>4. At(done + 1)' = a /\ At(done + 2)' = b
    BY <1>3, <1>5, <2>1 DEF At
  <2>5. ElPlace'
    <3>1. elBase' + 4 <= pos' /\ pos' < At(done + 2)' /\ want' = At(done + 2)' - pos'
      <4>1. elBase' = a /\ pos' = a + 4 /\ want' = b - (a + 4)
        BY <1>4, <1>5, <1>7, <2>1, <2>2
      <4>2. a + 4 <= a + 4
        OBVIOUS
      <4> QED BY <2>2, <2>4, <4>1, <4>2
    <3>2. elBase' = At(done + 1)' /\ done' < elSent' /\ packets'[done' + 1][1] # "command"
      BY <1>3, <1>4, <1>5, <2>1, <2>4
    <3> QED BY <2>1, <3>1, <3>2 DEF ElPlace
  <2>6. pos' \in Nat /\ elBase <= pos' /\ pos' <= At(elSent + 1) /\ want' \in 0..RecvSize
    BY <1>4, <1>5, <1>7, <2>1, <2>2, <2>3
  <2> QED BY <1>3, <2>1, <2>5, <2>6, ElWaits
<1> QED BY <1>8, <1>9

LEMMA ElRecvAllKeeps ==
    ASSUME RecvSize \in Nat, RecvSize >= 8, ElInv, El!recv_all
    PROVE  ElInv'
<1>1. ElTypes /\ ElPlace /\ PacketsFit(packets)
  BY DEF ElInv, ElTypes
<1>2. PICK n \in El!Recv(want) :
        /\ pos' = pos + n
        /\ IF n < want THEN want' = want - n /\ UNCHANGED << elPc, elBase, is_async, done, last >>
           ELSE IF elPc = "async header"
           THEN /\ elPc' = IF packets[done + 1][2] = 4 THEN "ended" ELSE "async payload"
                /\ want' = packets[done + 1][2] - 4 /\ UNCHANGED << elBase, is_async, done, last >>
           ELSE El!Executed(done + 1, elBase, pos + n - elBase) /\ elBase' = pos + n /\ El!Again
  BY DEF El!recv_all
<1>3. elPc \in { "async header", "async payload" } /\ packets' = packets /\ elSent' = elSent
  BY DEF El!recv_all
<1>4. /\ n \in Nat /\ n > 0 /\ n <= want /\ pos + n <= At(elSent + 1)
      /\ pos \in Nat /\ want \in Nat /\ At(elSent + 1) \in Nat
  BY ElRecv
<1>5. is_async /\ elBase = At(done + 1) /\ elBase <= pos
  BY <1>1, <1>3 DEF ElPlace, ElTypes
<1>6. done < elSent
  <2>1. At(done + 1) \in Nat /\ (done = elSent => At(done + 1) = At(elSent + 1)) /\ (done = elSent \/ done + 1 <= elSent)
        /\ done \in Nat /\ elSent \in Nat
    BY <1>1, ElNumbers
  <2>2. \A a, p, m, c \in Nat : a <= p /\ p + m <= c /\ m > 0 => a # c
    OBVIOUS
  <2>3. At(done + 1) # At(elSent + 1)
    BY <1>4, <1>5, <2>1, <2>2
  <2>4. done # elSent
    BY <2>1, <2>3
  <2>5. done \in Nat /\ elSent \in Nat /\ (done = elSent \/ done + 1 <= elSent)
    BY <2>1
  <2> QED BY ONLY <2>4, <2>5
<1>7. packets[done + 1][1] # "command"
  <2>1. Scope(packets, done + 1)
    BY <1>5 DEF ElInv
  <2>2. done + 1 \in 1..Len(packets)
    BY <1>1, <1>6, ElNumbers
  <2> QED BY <1>1, <2>1, <2>2 DEF Scope, PacketsFit
<1>8. PICK a \in Nat, b \in Nat, c \in Nat, l \in Nat, p \in Nat, w \in Nat :
        /\ a = At(done + 1) /\ b = At(done + 2) /\ c = At(elSent + 1) /\ l = packets[done + 1][2]
        /\ p = pos /\ w = want
        /\ b = a + l /\ l >= 4 /\ l <= RecvSize
  BY <1>1, <1>4, <1>6, <1>7, ElNumbers
<1>9. elBase = a /\ a <= p /\ n > 0 /\ n <= w /\ p + n <= c /\ w <= RecvSize
  <2>1. want \in 0..RecvSize
    BY <1>1 DEF ElTypes
  <2>2. w <= RecvSize
    BY <1>8, <2>1
  <2> QED BY <1>4, <1>5, <1>8, <2>2
<1>10. UNCHANGED << elBase, is_async, done, last >> => At(done + 1)' = a /\ At(done + 2)' = b
  BY <1>3, <1>8 DEF At
<1>11. p + n \in Nat /\ a <= p + n /\ p + n <= c
  BY ONLY <1>8, <1>9, <1>4
<1>12. pos' = p + n
  BY <1>2, <1>8
<1>13. CASE elPc = "async header"
  <2>1. p < a + 4 /\ w = a + 4 - p
    BY <1>1, <1>8, <1>9, <1>13 DEF ElPlace
  <2>2. UNCHANGED << elBase, is_async, done, last >>
    BY <1>2, <1>13
  <2>3. CASE n < w
    <3>1. want' = w - n /\ elPc' = "async header"
      BY <1>2, <1>8, <1>13, <2>3
    <3>2. p + n < a + 4 /\ w - n = a + 4 - (p + n) /\ w - n \in 0..RecvSize
      BY ONLY <1>8, <1>9, <1>4, <2>1, <2>3, RecvSize \in Nat
    <3>3. ElPlace'
      <4>1. pos' < elBase' + 4 /\ want' = elBase' + 4 - pos'
        BY <1>9, <1>12, <2>2, <3>1, <3>2
      <4> QED BY <1>3, <1>5, <1>8, <1>9, <1>10, <2>2, <3>1, <4>1 DEF ElPlace
    <3> QED BY <1>3, <1>8, <1>9, <1>11, <1>12, <2>2, <3>1, <3>2, <3>3, ElWaits
  <2>4. CASE ~(n < w)
    <3>1. want' = l - 4 /\ elPc' = (IF l = 4 THEN "ended" ELSE "async payload")
      BY <1>2, <1>8, <1>13, <2>4
    <3>2. p + n = a + 4 /\ l - 4 \in 0..RecvSize /\ l - 4 = b - (a + 4) /\ a + 4 <= a + 4 /\ (l # 4 => a + 4 < b)
      BY ONLY <1>8, <1>9, <1>4, <2>1, <2>4, RecvSize \in Nat
    <3>3. ElPlace'
      <4>1. CASE l = 4
        BY <3>1, <4>1 DEF ElPlace
      <4>2. CASE l # 4
        <5>1. elBase' + 4 <= pos' /\ pos' < At(done + 2)' /\ want' = At(done + 2)' - pos'
          BY <1>9, <1>10, <1>12, <2>2, <3>1, <3>2, <4>2
        <5>2. elBase' = At(done + 1)' /\ done' < elSent' /\ is_async' /\ elPc' = "async payload"
          BY <1>3, <1>5, <1>6, <1>9, <1>10, <2>2, <3>1, <4>2
        <5> QED BY <5>1, <5>2 DEF ElPlace
      <4> QED BY <4>1, <4>2
    <3>4. elPc' \in { "ended", "async payload" }
      BY <3>1
    <3> QED BY <1>3, <1>8, <1>9, <1>11, <1>12, <2>2, <3>1, <3>2, <3>3, <3>4, ElWaits
  <2> QED BY <2>3, <2>4
<1>14. CASE elPc = "async payload"
  <2>1. a + 4 <= p /\ p < b /\ w = b - p
    BY <1>1, <1>8, <1>9, <1>14 DEF ElPlace
  <2>3. CASE n < w
    <3>1. want' = w - n /\ elPc' = "async payload" /\ UNCHANGED << elBase, is_async, done, last >>
      BY <1>2, <1>8, <1>14, <2>3
    <3>2. a + 4 <= p + n /\ p + n < b /\ w - n = b - (p + n) /\ w - n \in 0..RecvSize
      BY ONLY <1>8, <1>9, <1>4, <2>1, <2>3, RecvSize \in Nat
    <3>3. ElPlace'
      <4>1. elBase' + 4 <= pos' /\ pos' < At(done + 2)' /\ want' = At(done + 2)' - pos'
        BY <1>9, <1>10, <1>12, <3>1, <3>2
      <4>2. elBase' = At(done + 1)' /\ done' < elSent' /\ is_async'
        BY <1>3, <1>5, <1>6, <1>9, <1>10, <3>1
      <4> QED BY <3>1, <4>1, <4>2 DEF ElPlace
    <3> QED BY <1>3, <1>8, <1>9, <1>11, <1>12, <3>1, <3>2, <3>3, ElWaits
  <2>4. CASE ~(n < w)
    <3>1. El!Executed(done + 1, elBase, pos + n - elBase) /\ elBase' = pos + n /\ El!Again
      BY <1>2, <1>8, <1>14, <2>4
    <3>2. p + n = b /\ b - a = l
      BY ONLY <1>8, <1>9, <1>4, <2>1, <2>4
    <3>3. pos + n - elBase = l /\ elBase' = b /\ pos' = b
      <4>1. pos + n = b
        BY ONLY <1>8, <3>2
      <4>2. pos + n - elBase = b - a
        <5>1. elBase = a
          BY <1>9
        <5>2. elBase \in Int /\ pos \in Int /\ n \in Int
          BY <5>1, <1>4
        <5> QED BY ONLY <4>1, <5>1, <5>2
      <4> QED BY ONLY <4>1, <4>2, <1>2, <3>1, <3>2, <1>12
    <3>4. El!Executed(done + 1, At(done + 1), packets[done + 1][2])
      BY <1>5, <1>8, <3>1, <3>3
    <3> QED BY <1>3, <1>6, <1>8, <3>1, <3>3, <3>4, ElOneDone
  <2> QED BY <2>3, <2>4
<1> QED BY <1>3, <1>13, <1>14

(* The last packet that is complete, as VendorCommands chooses it          *)
LEMMA ElWhole ==
    ASSUME ElInv, NEW n \in El!Recv(want), pos = At(done + 1),
           NEW k, k = CHOOSE i \in El!Whole(n) : \A j \in El!Whole(n) : j <= i
    PROVE  /\ k \in done..elSent /\ At(k + 1) \in Nat /\ At(k + 1) <= pos + n
           /\ k < elSent => At(k + 2) \in Nat /\ pos + n < At(k + 2)
           /\ k = elSent => At(k + 1) = pos + n
<1>1. ElTypes /\ PacketsFit(packets)
  BY DEF ElInv, ElTypes
<1>2. /\ n \in Nat /\ n > 0 /\ pos + n <= At(elSent + 1) /\ pos \in Nat /\ At(elSent + 1) \in Nat
  BY ElRecv
<1>3. done \in Nat /\ elSent \in Nat /\ Len(packets) \in Nat /\ done <= elSent /\ elSent <= Len(packets)
  <2>1. done \in 0..elSent /\ elSent \in 0..Len(packets) /\ Len(packets) \in Nat
    BY <1>1, ElNumbers DEF ElTypes
  <2> QED BY ONLY <2>1
<1>4. El!Whole(n) = { i \in done..elSent : At(i + 1) <= pos + n }
  BY DEF El!Whole, At, PacketAt, El!Start
<1>5. PICK m \in El!Whole(n) : \A j \in El!Whole(n) : j <= m
  <2> DEFINE T == El!Whole(n)
  <2>1. T \in SUBSET (0..elSent)
    BY <1>3, <1>4
  <2>2. done \in done..elSent /\ At(done + 1) <= pos + n
    BY <1>2, <1>3
  <2>3. T # {}
    BY <1>4, <2>2
  <2> HIDE DEF T
  <2>4. \E m \in T : \A j \in T : j <= m
    BY <1>3, <2>1, <2>3, GreatestNatural
  <2> QED BY <2>4 DEF T
<1>6. k \in El!Whole(n) /\ \A j \in El!Whole(n) : j <= k
  BY <1>5
<1>7. k \in done..elSent /\ At(k + 1) <= pos + n /\ k \in Nat /\ k <= elSent
  <2>1. k \in done..elSent /\ At(k + 1) <= pos + n
    BY <1>4, <1>6
  <2>2. k \in Nat /\ k <= elSent
    BY <1>3, <2>1
  <2> QED BY <2>1, <2>2
<1>8. k + 1 \in 1..Len(packets) + 1
  BY ONLY <1>3, <1>7
<1>9. At(k + 1) \in Nat
  BY <1>1, <1>8, PacketsAreNext DEF At
<1>10. ASSUME k < elSent PROVE At(k + 2) \in Nat /\ pos + n < At(k + 2)
  <2>1. k + 2 \in 1..Len(packets) + 1 /\ k + 1 \in done..elSent /\ ~(k + 1 <= k) /\ (k + 1) + 1 = k + 2
    BY ONLY <1>3, <1>7, <1>10
  <2>2. At(k + 2) \in Nat
    BY <1>1, <2>1, PacketsAreNext DEF At
  <2>3. ~(At(k + 2) <= pos + n)
    BY <1>4, <1>6, <2>1
  <2> QED BY <2>2, <2>3, <1>2
<1>11. ASSUME k = elSent PROVE At(k + 1) = pos + n
  <2>1. At(k + 1) = At(elSent + 1)
    BY <1>11
  <2> QED BY <1>2, <1>7, <1>9, <2>1
<1> QED BY <1>7, <1>9, <1>10, <1>11

(* The packets up to k are executed, or none, and the next is in the       *)
(* buffer in part.                                                         *)
LEMMA ElCut ==
    ASSUME RecvSize \in Nat, RecvSize >= 8,
           PacketsFit(packets), packets' = packets, elSent' = elSent,
           elSent \in 0..Len(packets), done' \in 0..elSent, done' < elSent, is_async' \in BOOLEAN,
           is_async' <=> Scope(packets', done' + 1),
           done' > 0 => last' = << At(done)', packets'[done'][2] >>,
           \A j \in done' + 2..elSent' : Scope(packets', j),
           packets[done' + 1][1] # "command",
           NEW a \in Nat, NEW b \in Nat, NEW c \in Nat, NEW p \in Nat,
           a = At(done' + 1), b = At(done' + 2), c = At(elSent + 1), a < p, p < b, p <= c,
           b = a + packets[done' + 1][2],
           elBase' = a, pos' = p,
           IF p - a < 4 THEN elPc' = "header" /\ want' = 4 - (p - a)
           ELSE elPc' = "payload" /\ want' = packets[done' + 1][2] - (p - a)
    PROVE  ElInv'
<1>1. At(done + 1)' = a /\ At(done + 2)' = b /\ At(elSent + 1)' = c
  BY DEF At
<1>2. done' + 1 \in 1..Len(packets)
  <2>1. \A l \in Nat : \A x \in 0..l : \A y \in 0..x : y < x => y + 1 \in 1..l
    OBVIOUS
  <2>2. Len(packets) \in Nat
    BY PacketsAreNext
  <2> QED BY <2>1, <2>2
<1>3. PICK l \in Nat : l = packets[done' + 1][2] /\ l <= RecvSize
  BY <1>2, PacketsAreNext DEF PacketsFit
<1>4. CASE p - a < 4
  <2>1. elPc' = "header" /\ want' = 4 - (p - a)
    BY <1>4
  <2>2. 4 - (p - a) \in 0..RecvSize /\ 4 - (p - a) = a + 4 - p /\ p < a + 4 /\ a <= p
    BY ONLY <1>4, a < p, a \in Nat, p \in Nat, RecvSize \in Nat, RecvSize >= 8
  <2>3. ElTypes'
    BY <1>1, <2>1, <2>2 DEF ElTypes
  <2>4. ElPlace'
    <3>1. elBase' < pos' /\ pos' < elBase' + 4 /\ want' = elBase' + 4 - pos'
      BY <2>1, <2>2
    <3> QED BY <1>1, <2>1, <3>1 DEF ElPlace
  <2> QED BY <2>3, <2>4 DEF ElInv
<1>5. CASE ~(p - a < 4)
  <2>1. elPc' = "payload" /\ want' = l - (p - a)
    BY <1>3, <1>5
  <2>2. l - (p - a) \in 0..RecvSize /\ l - (p - a) = b - p /\ a + 4 <= p /\ a <= p
    <3>1. b = a + l
      BY <1>3
    <3> QED BY ONLY <1>3, <1>5, <3>1, a < p, p < b, a \in Nat, b \in Nat, p \in Nat, RecvSize \in Nat
  <2>3. ElTypes'
    BY <1>1, <2>1, <2>2 DEF ElTypes
  <2>4. ElPlace'
    <3>1. elBase' + 4 <= pos' /\ pos' < At(done + 2)' /\ want' = At(done + 2)' - pos'
      BY <1>1, <2>1, <2>2
    <3> QED BY <1>1, <2>1, <3>1 DEF ElPlace
  <2> QED BY <2>3, <2>4 DEF ElInv
<1> QED BY <1>4, <1>5

LEMMA ElReceiveKeeps ==
    ASSUME RecvSize \in Nat, RecvSize >= 8, RestTogether, ElInv, El!Receive
    PROVE  ElInv'
<1>1. ElTypes /\ ElPlace /\ PacketsFit(packets) /\ (is_async <=> Scope(packets, done + 1)) /\ is_async \in BOOLEAN
      /\ \A j \in done + 2..elSent : Scope(packets, j)
  BY DEF ElInv, ElTypes
<1>2. PICK n \in El!Recv(want) :
        /\ pos' = pos + n
        /\ IF packets[done + 1][1] = "command"
           THEN /\ n = packets[done + 1][2]
                /\ El!Executed(done + 1, pos, n) /\ elBase' = pos + n /\ UNCHANGED << elPc, want >>
           ELSE El!VendorCommands(n)
  BY DEF El!Receive, El!Kind
<1>3. elPc = "recv" /\ packets' = packets /\ elSent' = elSent
  BY DEF El!Receive
<1>4. pos = elBase /\ pos = At(done + 1) /\ want = RecvSize /\ ~is_async
  BY <1>1, <1>3 DEF ElPlace
<1>5. n \in Nat /\ n > 0 /\ pos + n <= At(elSent + 1) /\ pos \in Nat /\ At(elSent + 1) \in Nat
  BY ElRecv
<1>6. done \in Nat /\ elSent \in Nat /\ Len(packets) \in Nat /\ done <= elSent /\ elSent <= Len(packets)
  <2>1. done \in 0..elSent /\ elSent \in 0..Len(packets) /\ Len(packets) \in Nat
    BY <1>1, ElNumbers DEF ElTypes
  <2> QED BY ONLY <2>1
<1>7. done < elSent
  <2>1. At(done + 1) # At(elSent + 1)
    BY <1>4, <1>5
  <2>2. done # elSent
    BY <2>1
  <2> QED BY ONLY <1>6, <2>2
<1>8. done + 1 \in 1..Len(packets) /\ packets[done + 1][2] \in Nat /\ At(done + 2) = At(done + 1) + packets[done + 1][2]
  BY <1>1, <1>7, ElNumbers
<1>9. CASE packets[done + 1][1] = "command"
  <2>1. El!Executed(done + 1, At(done + 1), packets[done + 1][2]) /\ UNCHANGED << elPc, want >>
        /\ elBase' = At(done + 2) /\ pos' = elBase'
    BY <1>2, <1>4, <1>8, <1>9
  <2>2. is_async' = is_async
    <3>1. \A j \in done + 1..done + 1 : j = done + 1
      BY <1>6
    <3>2. ~ \E j \in done + 1..done + 1 : El!Kind(j) \in { "enter", "exit" }
      BY <3>1, <1>9 DEF El!Kind
    <3> QED BY <2>1, <3>2 DEF El!Executed
  <2>3. El!Again
    BY <2>1, <2>2, <1>3, <1>4 DEF El!Again
  <2> QED BY <1>3, <1>7, <2>1, <2>3, ElOneDone
<1>10. CASE packets[done + 1][1] # "command"
  <2> DEFINE k == CHOOSE i \in El!Whole(n) : \A j \in El!Whole(n) : j <= i
  <2>1. El!Start(k + 1) = At(k + 1) /\ El!Start(k) = At(k)
    BY DEF At, PacketAt, El!Start
  <2>2. /\ IF k > done THEN El!Executed(k, At(k), packets[k][2]) ELSE UNCHANGED << done, last, is_async >>
        /\ elBase' = At(k + 1)
        /\ IF pos + n - At(k + 1) = 0 THEN El!Again
           ELSE IF pos + n - At(k + 1) < 4 THEN elPc' = "header" /\ want' = 4 - (pos + n - At(k + 1))
           ELSE elPc' = "payload" /\ want' = packets[k + 1][2] - (pos + n - At(k + 1))
    BY <1>2, <1>10, <2>1 DEF El!VendorCommands
  <2>3. /\ k \in done..elSent /\ At(k + 1) \in Nat /\ At(k + 1) <= pos + n
        /\ k < elSent => At(k + 2) \in Nat /\ pos + n < At(k + 2)
        /\ k = elSent => At(k + 1) = pos + n
    BY <1>4, ElWhole
  <2> HIDE DEF k
  <2>4. k \in Nat /\ done <= k /\ k <= elSent /\ k \in 0..elSent
    BY ONLY <1>6, <2>3
  <2>5. /\ done' = k /\ is_async' \in BOOLEAN /\ (is_async' <=> Scope(packets', done' + 1))
        /\ (done' > 0 => last' = << At(done)', packets'[done'][2] >>)
    <3>1. CASE k > done
      <4>1. k \in 1..Len(packets) /\ done < k
        BY ONLY <1>6, <2>4, <3>1
      <4> QED BY <1>3, <2>2, <3>1, <4>1, ElDone
    <3>2. CASE ~(k > done)
      <4>1. k = done
        BY ONLY <1>6, <2>4, <3>2
      <4>2. UNCHANGED << done, last, is_async >>
        BY <2>2, <3>2
      <4>3. At(done)' = At(done)
        BY <1>3, <4>2 DEF At
      <4> QED BY <1>1, <1>3, <4>1, <4>2, <4>3 DEF ElInv
    <3> QED BY <3>1, <3>2
  <2>6. elSent \in 0..Len(packets) /\ done' \in 0..elSent
    BY <1>6, <2>4, <2>5
  <2>7. \A j \in done' + 2..elSent' : Scope(packets', j)
    <3>1. \A j \in k + 2..elSent : j \in done + 2..elSent
      BY ONLY <1>6, <2>4
    <3> QED BY <1>1, <1>3, <2>5, <3>1
  <2>8. PICK a \in Nat, c \in Nat, m \in Nat : a = At(k + 1) /\ c = At(elSent + 1) /\ m = pos + n
    BY <1>5, <2>3
  <2>9. a <= m /\ m <= c
    BY <1>5, <2>3, <2>8
  <2>10. pos + n - At(k + 1) = m - a
    <3>1. \A x \in Nat, y \in Nat, z \in Nat : x + y - z = (x + y) - z
      OBVIOUS
    <3>2. pos + n - a = (pos + n) - a
      BY <3>1, <1>5
    <3> QED BY <3>2, <2>8
  <2>11. CASE m = a
    <3>1. El!Again
      BY <2>2, <2>8, <2>10, <2>11
    <3>2. At(done + 1)' = a
      BY <1>3, <2>5, <2>8 DEF At
    <3>3. elBase' = At(done + 1)' /\ pos' = elBase'
      BY <1>2, <2>2, <2>8, <2>11, <3>2
    <3> QED BY <1>1, <1>3, <2>5, <2>6, <2>7, <3>1, <3>3, ElAgain
  <2>12. CASE m # a
    <3>1. a < m /\ m - a # 0
      BY ONLY <2>8, <2>9, <2>12
    <3>2. k # elSent
      BY <2>3, <2>8, <2>12
    <3>3. k < elSent /\ k + 1 \in 1..Len(packets)
      BY ONLY <1>6, <2>4, <3>2
    <3>4. PICK b \in Nat : b = At(k + 2) /\ m < b
      BY <2>3, <2>8, <3>3
    <3>5. b = a + packets[k + 1][2]
      <4>1. (k + 1) + 1 = k + 2
        BY <2>4
      <4> QED BY <1>1, <2>8, <3>3, <3>4, <4>1, PacketsAreNext DEF At
    <3>6. packets[k + 1][1] # "command"
      <4>1. CASE k = done
        BY <4>1, <1>10
      <4>2. CASE k # done
        <5>1. k + 1 \in done + 2..elSent
          BY ONLY <1>6, <2>4, <3>3, <4>2
        <5>2. Scope(packets, k + 1)
          BY <1>1, <5>1
        <5> QED BY <1>1, <3>3, <5>2 DEF PacketsFit, Scope
      <4> QED BY <4>1, <4>2
    <3>7. IF m - a < 4 THEN elPc' = "header" /\ want' = 4 - (m - a)
          ELSE elPc' = "payload" /\ want' = packets[k + 1][2] - (m - a)
      BY <2>2, <2>10, <3>1
    <3>8. elBase' = a /\ pos' = m
      BY <1>2, <2>2, <2>8
    <3>9. /\ a = At(done' + 1) /\ b = At(done' + 2) /\ done' < elSent /\ packets[done' + 1][1] # "command"
          /\ b = a + packets[done' + 1][2]
          /\ IF m - a < 4 THEN elPc' = "header" /\ want' = 4 - (m - a)
             ELSE elPc' = "payload" /\ want' = packets[done' + 1][2] - (m - a)
      BY <2>5, <2>8, <3>3, <3>4, <3>5, <3>6, <3>7
    <3> QED BY <1>1, <1>3, <2>5, <2>6, <2>7, <2>8, <2>9, <3>1, <3>4, <3>8, <3>9, ElCut
  <2> QED BY <2>11, <2>12
<1> QED BY <1>9, <1>10

LEMMA ElStep ==
    ASSUME RecvSize \in Nat, RecvSize >= 8, RestTogether, ElInv, El!Next
    PROVE  ElInv'
<1>1. CASE El!Send
  BY <1>1, ElSendKeeps
<1>2. CASE El!Disconnect
  BY <1>2, ElEndKeeps DEF El!Disconnect
<1>3. CASE El!Handshake
  BY <1>3, ElHandshakeKeeps
<1>4. CASE El!Receive
  BY <1>4, ElReceiveKeeps
<1>5. CASE El!VendorHeader
  BY <1>5, ElVendorHeaderKeeps
<1>6. CASE El!VendorPayload
  BY <1>6, ElVendorPayloadKeeps
<1>7. CASE El!recv_all
  BY <1>7, ElRecvAllKeeps
<1> QED BY <1>1, <1>2, <1>3, <1>4, <1>5, <1>6, <1>7 DEF El!Next

LEMMA ElStays ==
    ASSUME ElInv, UNCHANGED elaphure
    PROVE  ElInv'
<1>1. UNCHANGED << packets, elSent, elPc, elBase, pos, want, is_async, done, last >>
  BY DEF elaphure
<1>2. \A k : At(k)' = At(k)
  BY <1>1 DEF At
<1>3. ElTypes'
  <2>1. PacketsFit(packets)'
    <3>1. PacketsFit(packets) /\ packets' = packets
      BY <1>1 DEF ElInv, ElTypes
    <3> QED BY <3>1
  <2>2. At(elSent + 1)' = At(elSent + 1)
    BY <1>1 DEF At
  <2> QED BY <1>1, <2>1, <2>2 DEF ElInv, ElTypes
<1>4. ElPlace'
  BY <1>1, <1>2 DEF ElInv, ElPlace
<1>5. (is_async <=> Scope(packets, done + 1))' /\ (done > 0 => last = << At(done), packets[done][2] >>)'
      /\ (\A j \in done + 2..elSent : Scope(packets, j))'
  BY <1>1, <1>2 DEF ElInv
<1> QED BY <1>3, <1>4, <1>5 DEF ElInv

(* The longest of the packets is the third of a stream.                    *)
LEMMA ElSafe ==
    ASSUME RestTogether
    PROVE  Spec => []ElInv
<1>1. Init => ElInv
  BY ElSizes, ElInit DEF Init
<1>2. ElInv /\ [Next]_vars => ElInv'
  <2> SUFFICES ASSUME ElInv, [Next]_vars
               PROVE  ElInv'
    OBVIOUS
  <2>1. El!Next \/ UNCHANGED elaphure
    BY DEF Next, vars
  <2> QED BY <2>1, ElSizes, ElStep, ElStays
<1> QED BY <1>1, <1>2, PTL DEF Spec

(* However TCP cuts the frames: the WebSocket server looks for each header  *)
(* where one begins, unmasks each byte with the byte of the key that its    *)
(* place asks for, waits for no frame that has come, and skips no more than *)
(* a text that is too long.  As long as a command and the rest of a packet  *)
(* that was cut come with one recv (RestTogether; el_dap_work does not work *)
(* for other cuts): it executes each packet that the host sent, whole and   *)
(* in order, waits for none that has come, and agrees with the host where a *)
(* scope ends.  For any frames and packets, sizes of what a recv returns    *)
(* and of the buffers.                                                      *)
THEOREM MessagesAreFound ==
    ASSUME RestTogether
    PROVE  Spec => []MessagesFound
<1>1. WsInv /\ ElInv => MessagesFound
  <2>1. Ws!WsAssumption
    BY PartsAssumption DEF PartsAssumption
  <2> QED BY <2>1, WsTold, ElTold DEF MessagesFound
<1> QED BY <1>1, WsSafe, ElSafe, PTL

=============================================================================
