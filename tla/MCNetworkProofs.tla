--------------------------- MODULE MCNetworkProofs ---------------------------
(***************************************************************************)
(* The servers and the network, for any number of clients, requests, slots *)
(* and access points: what is returned, answered and shown follows what    *)
(* the clients did, whatever the order in which events come and are        *)
(* handled.                                                                *)
(***************************************************************************)
EXTENDS MCNetwork, SequenceTheorems, FiniteSetTheorems, TLAPS

----------------------------------------------------------------------------
(* The WiFi connection: what is queued belongs to one attempt, which ends  *)
(* with the disconnection, and only its handler begins the next.           *)

WifiEvents == { "STA_START", "STA_CONNECTED", "STA_GOT_IP", "STA_DISCONNECTED" }
Told(event) == \E i \in 1..Len(events) : events[i] = event

Queued ==
    /\ events \in Seq(WifiEvents) /\ Len(events) <= MaxEvents
    /\ \A i \in 1..Len(events) :
        /\ events[i] = "STA_START" => i = 1
        /\ events[i] \in { "STA_START", "STA_DISCONNECTED" } => i = Len(events) /\ driver = "idle"
        /\ events[i] = "STA_GOT_IP" =>
            driver \in { "ip", "idle" } /\ \A j \in 1..Len(events) : events[j] = "STA_GOT_IP" => i = j
    /\ driver = "idle" => Told("STA_START") \/ Told("STA_DISCONNECTED")
    /\ driver = "connecting" => Len(events) = 0

WifiInv ==
    /\ ssid_index \in 1..WIFI_LIST_SIZE /\ config \in Wifi!APs
    /\ driver \in { "idle", "connecting", "associated", "ip" } /\ handled \in { "no", "clear" }
    /\ IPV4_GOTIP_BIT \in BOOLEAN /\ LED_WIFI_STATUS \in BOOLEAN
    /\ Queued
    /\ LED_WIFI_STATUS => driver \in { "ip", "idle" } /\ ~Told("STA_GOT_IP") /\ ~Told("STA_START")
    /\ ~LED_WIFI_STATUS /\ driver = "ip" => Told("STA_GOT_IP")
    /\ handled = "no" => (IPV4_GOTIP_BIT <=> LED_WIFI_STATUS)
    /\ handled = "clear" => ~LED_WIFI_STATUS

LEMMA WifiSizes ==
    WIFI_LIST_SIZE \in Nat \ {0} /\ MaxEvents \in Nat \ {0}
BY PartsAssumption DEF PartsAssumption, Wifi!WifiAssumption

LEMMA WifiInit == Wifi!Init => WifiInv
<1> SUFFICES ASSUME Wifi!Init
             PROVE  WifiInv
  OBVIOUS
<1>1. events = << "STA_START" >> /\ driver = "idle"
  BY DEF Wifi!Init
<1>2. Queued /\ ~Told("STA_GOT_IP")
  BY <1>1, WifiSizes DEF Queued, Told, WifiEvents
<1>3. ~LED_WIFI_STATUS /\ ~IPV4_GOTIP_BIT /\ handled = "no" /\ driver = "idle" /\ ssid_index = 1 /\ config = 0
      /\ LED_WIFI_STATUS \in BOOLEAN /\ IPV4_GOTIP_BIT \in BOOLEAN
  BY DEF Wifi!Init
<1> QED
  BY <1>2, <1>3, WifiSizes DEF WifiInv, Wifi!APs

(* The driver tells of the end of a stage. *)
LEMMA DriverTells ==
    ASSUME WifiInv, NEW event \in WifiEvents \ { "STA_START" }, Wifi!Queue(event),
           UNCHANGED << ssid_index, config, LED_WIFI_STATUS, IPV4_GOTIP_BIT, handled >>,
           \/ event = "STA_CONNECTED" /\ driver = "connecting" /\ driver' = "associated"
           \/ event = "STA_GOT_IP" /\ driver = "associated" /\ driver' = "ip"
           \/ event = "STA_DISCONNECTED" /\ driver \in { "connecting", "associated", "ip" } /\ driver' = "idle"
    PROVE  WifiInv'
<1> DEFINE n == Len(events)
<1>1. /\ events \in Seq(WifiEvents) /\ events' = Append(events, event) /\ n < MaxEvents
  BY DEF WifiInv, Queued, Wifi!Queue
<1>2. /\ n \in Nat /\ Len(events') = n + 1 /\ events'[n + 1] = event
      /\ \A i \in 1..n : events'[i] = events[i]
      /\ events' \in Seq(WifiEvents)
  BY <1>1
<1>3. /\ \A i \in 1..n : events[i] \notin { "STA_START", "STA_DISCONNECTED" }
      /\ driver = "associated" \/ driver = "connecting" => \A i \in 1..n : events[i] # "STA_GOT_IP"
      /\ event # "STA_START"
      /\ driver = "connecting" => n = 0
  BY DEF WifiInv, Queued
<1>4. Queued'
  <2>1. ASSUME NEW i \in 1..Len(events')
        PROVE  /\ events'[i] = "STA_START" => i = 1
               /\ events'[i] \in { "STA_START", "STA_DISCONNECTED" } => i = Len(events') /\ driver' = "idle"
               /\ events'[i] = "STA_GOT_IP" =>
                    /\ driver' \in { "ip", "idle" }
                    /\ \A j \in 1..Len(events') : events'[j] = "STA_GOT_IP" => i = j
    <3>1. CASE i = n + 1
      BY <1>2, <1>3, <3>1
    <3>2. CASE i \in 1..n
      BY <1>2, <1>3, <3>2 DEF WifiInv, Queued
    <3> QED
      BY <1>2, <3>1, <3>2
  <2>2. driver' = "idle" => Told("STA_START")' \/ Told("STA_DISCONNECTED")'
    BY <1>2 DEF Told
  <2> QED
    BY <1>1, <1>2, <2>1, <2>2, WifiSizes DEF Queued
<1>5. /\ ~LED_WIFI_STATUS /\ driver' = "ip" => Told("STA_GOT_IP")'
      /\ LED_WIFI_STATUS => driver' = "idle" /\ ~Told("STA_GOT_IP")' /\ ~Told("STA_START")'
  <2>1. driver' = "ip" => Told("STA_GOT_IP")'
    BY <1>2 DEF Told
  <2>2. ASSUME LED_WIFI_STATUS
        PROVE  driver' = "idle" /\ ~Told("STA_GOT_IP")' /\ ~Told("STA_START")'
    <3>1. driver = "ip" /\ driver' = "idle" /\ event = "STA_DISCONNECTED"
      BY <2>2 DEF WifiInv
    <3>2. \A i \in 1..n : events[i] # "STA_GOT_IP" /\ events[i] # "STA_START"
      BY <2>2 DEF WifiInv, Told
    <3> QED
      BY <1>2, <3>1, <3>2 DEF Told
  <2> QED
    BY <2>1, <2>2
<1> QED
  BY <1>4, <1>5 DEF WifiInv

(* The handler takes the first event. *)
LEMMA HandlerTakes ==
    ASSUME WifiInv, NEW event, Wifi!Take(event)
    PROVE  /\ handled = "no" /\ Len(events) \in Nat /\ Len(events) # 0 /\ events[1] = event
           /\ events' \in Seq(WifiEvents) /\ Len(events') = Len(events) - 1
           /\ \A i \in 1..Len(events') : i + 1 \in 1..Len(events) /\ events'[i] = events[i + 1]
           /\ \A e : e # event => (Told(e)' <=> Told(e))
           /\ event \in { "STA_START", "STA_DISCONNECTED" } => Len(events') = 0 /\ driver = "idle"
           /\ event \notin { "STA_START", "STA_DISCONNECTED" } /\ driver' = driver => Queued'
<1>1. /\ events \in Seq(WifiEvents) /\ events # << >> /\ handled = "no" /\ Head(events) = event
      /\ events' = Tail(events)
  BY DEF WifiInv, Queued, Wifi!Take
<1>2. /\ Len(events) \in Nat /\ Len(events) # 0 /\ events[1] = event
      /\ events' \in Seq(WifiEvents) /\ Len(events') = Len(events) - 1
      /\ \A i \in 1..Len(events') : i + 1 \in 1..Len(events) /\ events'[i] = events[i + 1]
  BY <1>1
<1>3. ASSUME NEW e, e # event
      PROVE  Told(e)' <=> Told(e)
  <2>1. ASSUME Told(e)'
        PROVE  Told(e)
    BY <1>2, <2>1 DEF Told
  <2>2. ASSUME Told(e)
        PROVE  Told(e)'
    <3>1. PICK i \in 1..Len(events) : events[i] = e
      BY <2>2 DEF Told
    <3>2. i - 1 \in 1..Len(events') /\ events'[i - 1] = e
      BY <1>2, <1>3, <3>1
    <3> QED
      BY <3>2 DEF Told
  <2> QED
    BY <2>1, <2>2
<1>4. event \in { "STA_START", "STA_DISCONNECTED" } => Len(events') = 0 /\ driver = "idle"
  BY <1>2 DEF WifiInv, Queued
<1>5. ASSUME event \notin { "STA_START", "STA_DISCONNECTED" }, driver' = driver
      PROVE  Queued'
  <2>1. ASSUME NEW i \in 1..Len(events')
        PROVE  /\ events'[i] = "STA_START" => i = 1
               /\ events'[i] \in { "STA_START", "STA_DISCONNECTED" } => i = Len(events') /\ driver = "idle"
               /\ events'[i] = "STA_GOT_IP" =>
                    /\ driver \in { "ip", "idle" }
                    /\ \A j \in 1..Len(events') : events'[j] = "STA_GOT_IP" => i = j
    BY <1>2 DEF WifiInv, Queued
  <2>2. driver = "idle" => Told("STA_START")' \/ Told("STA_DISCONNECTED")'
    BY <1>3, <1>5 DEF WifiInv, Queued
  <2>3. driver = "connecting" => Len(events') = 0
    BY <1>2 DEF WifiInv, Queued
  <2> QED
    BY <1>2, <1>5, <2>1, <2>2, <2>3, WifiSizes DEF WifiInv, Queued
<1> QED
  BY <1>1, <1>2, <1>3, <1>4, <1>5

LEMMA WifiStep ==
    ASSUME WifiInv, Wifi!Next
    PROVE  WifiInv'
<1>1. CASE Wifi!Associate \/ Wifi!GotIp \/ Wifi!Lose
  <2>1. PICK event \in WifiEvents \ { "STA_START" } :
            /\ Wifi!Queue(event)
            /\ UNCHANGED << ssid_index, config, LED_WIFI_STATUS, IPV4_GOTIP_BIT, handled >>
            /\ \/ event = "STA_CONNECTED" /\ driver = "connecting" /\ driver' = "associated"
               \/ event = "STA_GOT_IP" /\ driver = "associated" /\ driver' = "ip"
               \/ event = "STA_DISCONNECTED" /\ driver \in { "connecting", "associated", "ip" } /\ driver' = "idle"
    BY <1>1 DEF Wifi!Associate, Wifi!GotIp, Wifi!Lose, Wifi!flags, WifiEvents
  <2> QED
    BY <2>1, DriverTells
<1>2. CASE Wifi!Move \/ Wifi!wait_for_ip
  BY <1>2 DEF Wifi!Move, Wifi!wait_for_ip, Wifi!flags, WifiInv, Queued, Told
<1>3. CASE Wifi!Start
  <2>1. /\ Wifi!Take("STA_START") /\ driver' = "connecting"
        /\ UNCHANGED << ssid_index, config, LED_WIFI_STATUS, IPV4_GOTIP_BIT, handled >>
    BY <1>3 DEF Wifi!Start, Wifi!esp_wifi_connect, Wifi!flags
  <2>2. events' \in Seq(WifiEvents) /\ Len(events') = 0 /\ Told("STA_START")
    BY <2>1, HandlerTakes DEF Told
  <2>3. Queued'
    BY <2>1, <2>2, WifiSizes DEF Queued
  <2> QED
    BY <2>1, <2>2, <2>3 DEF WifiInv
<1>4. CASE Wifi!Connected
  <2>1. /\ Wifi!Take("STA_CONNECTED")
        /\ UNCHANGED << ssid_index, config, driver, LED_WIFI_STATUS, IPV4_GOTIP_BIT, handled >>
    BY <1>4 DEF Wifi!Connected, Wifi!flags
  <2>2. Queued' /\ (Told("STA_GOT_IP")' <=> Told("STA_GOT_IP")) /\ (Told("STA_START")' <=> Told("STA_START"))
    BY <2>1, HandlerTakes
  <2> QED
    BY <2>1, <2>2 DEF WifiInv
<1>5. CASE Wifi!GotIpHandled
  <2>1. /\ Wifi!Take("STA_GOT_IP") /\ LED_WIFI_STATUS' /\ IPV4_GOTIP_BIT'
        /\ LED_WIFI_STATUS' \in BOOLEAN /\ IPV4_GOTIP_BIT' \in BOOLEAN
        /\ UNCHANGED << ssid_index, config, driver, handled >>
    BY <1>5 DEF Wifi!GotIpHandled
  <2>2. /\ Queued' /\ handled = "no" /\ events[1] = "STA_GOT_IP" /\ 1 \in 1..Len(events)
        /\ \A i \in 1..Len(events') : i + 1 \in 1..Len(events) /\ events'[i] = events[i + 1]
    BY <2>1, HandlerTakes
  <2>3. driver \in { "ip", "idle" }
    BY <2>2 DEF WifiInv, Queued
  <2>4. ~Told("STA_GOT_IP")'
    BY <2>2 DEF WifiInv, Queued, Told
  <2>5. ~Told("STA_START")'
    BY <2>2 DEF WifiInv, Queued, Told
  <2> QED
    BY <2>1, <2>2, <2>3, <2>4, <2>5 DEF WifiInv
<1>6. CASE Wifi!Disconnected
  <2>1. /\ Wifi!Take("STA_DISCONNECTED") /\ driver' = "connecting" /\ ~LED_WIFI_STATUS'
        /\ LED_WIFI_STATUS' \in BOOLEAN /\ handled' = "clear" /\ UNCHANGED IPV4_GOTIP_BIT
        /\ Wifi!ssid_change
    BY <1>6 DEF Wifi!Disconnected, Wifi!esp_wifi_connect
  <2>2. events' \in Seq(WifiEvents) /\ Len(events') = 0
    BY <2>1, HandlerTakes
  <2>3. Queued'
    BY <2>1, <2>2, WifiSizes DEF Queued
  <2>4. ssid_index' \in 1..WIFI_LIST_SIZE /\ config' \in Wifi!APs
    <3>1. ssid_index \in 1..WIFI_LIST_SIZE
      BY DEF WifiInv
    <3> QED
      BY <2>1, <3>1, WifiSizes DEF Wifi!ssid_change, Wifi!APs
  <2> QED
    BY <2>1, <2>2, <2>3, <2>4 DEF WifiInv
<1>7. CASE Wifi!Clear
  <2>1. /\ handled = "clear" /\ handled' = "no" /\ ~IPV4_GOTIP_BIT' /\ IPV4_GOTIP_BIT' \in BOOLEAN
        /\ UNCHANGED << ssid_index, config, driver, events, LED_WIFI_STATUS >>
    BY <1>7 DEF Wifi!Clear
  <2> QED
    BY <2>1 DEF WifiInv, Queued, Told
<1> QED
  BY <1>1, <1>2, <1>3, <1>4, <1>5, <1>6, <1>7 DEF Wifi!Next, Wifi!Driver, Wifi!event_handler

LEMMA WifiFollows ==
    ASSUME WifiInv
    PROVE  Wifi!FlagsFollow /\ Wifi!TypeOK
<1>1. ASSUME events = << >>, handled = "no"
      PROVE  (IPV4_GOTIP_BIT <=> driver = "ip") /\ (LED_WIFI_STATUS <=> IPV4_GOTIP_BIT)
  <2>1. Len(events) = 0 /\ \A e : ~Told(e)
    BY <1>1 DEF Told
  <2>2. driver # "idle"
    BY <2>1 DEF WifiInv, Queued
  <2> QED
    BY <1>1, <2>1, <2>2 DEF WifiInv
<1>2. Wifi!FlagsFollow
  BY <1>1 DEF Wifi!FlagsFollow, WifiInv
<1> QED
  BY <1>2 DEF WifiInv, Queued, WifiEvents, Wifi!TypeOK
----------------------------------------------------------------------------
(* How often e is in queue q, when something is put in or taken out. *)

Places(q, e) == { i \in 1..Len(q) : q[i] = e }
Times(q, e) == Cardinality(Places(q, e))

LEMMA TimesType ==
    ASSUME NEW S, NEW q \in Seq(S), NEW e
    PROVE  /\ IsFiniteSet(Places(q, e)) /\ Times(q, e) \in Nat
           /\ Times(q, e) = 0 <=> \A i \in 1..Len(q) : q[i] # e
<1>1. IsFiniteSet(1..Len(q))
  BY FS_Interval
<1>2. IsFiniteSet(Places(q, e))
  BY <1>1, FS_Subset DEF Places
<1>3. Cardinality(Places(q, e)) \in Nat
  BY <1>2, FS_CardinalityType
<1>4. Cardinality(Places(q, e)) = 0 <=> Places(q, e) = {}
  BY <1>2, FS_EmptySet
<1>5. Places(q, e) = {} <=> \A i \in 1..Len(q) : q[i] # e
  BY DEF Places
<1> QED
  BY <1>2, <1>3, <1>4, <1>5 DEF Times

LEMMA TimesEmpty ==
    ASSUME NEW e
    PROVE  Times(<< >>, e) = 0
<1>1. Places(<< >>, e) = {}
  BY DEF Places
<1> QED
  BY <1>1, FS_EmptySet DEF Times

LEMMA TimesAppend ==
    ASSUME NEW S, NEW q \in Seq(S), NEW x \in S, NEW e
    PROVE  Times(Append(q, x), e) = IF x = e THEN Times(q, e) + 1 ELSE Times(q, e)
<1>1. IsFiniteSet(Places(q, e))
  BY TimesType
<1>2. /\ Len(q) \in Nat /\ Len(Append(q, x)) = Len(q) + 1 /\ Append(q, x)[Len(q) + 1] = x
      /\ \A i \in 1..Len(q) : Append(q, x)[i] = q[i]
  OBVIOUS
<1>3. CASE x = e
  <2>1. Places(Append(q, x), e) = Places(q, e) \cup { Len(q) + 1 }
    BY <1>2, <1>3 DEF Places
  <2>2. Len(q) + 1 \notin Places(q, e)
    BY <1>2 DEF Places
  <2> QED
    BY <1>1, <1>3, <2>1, <2>2, FS_AddElement DEF Times
<1>4. CASE x # e
  <2>1. Places(Append(q, x), e) = Places(q, e)
    BY <1>2, <1>4 DEF Places
  <2> QED
    BY <1>4, <2>1 DEF Times
<1> QED
  BY <1>3, <1>4

LEMMA TimesTail ==
    ASSUME NEW S, NEW q \in Seq(S), q # << >>, NEW e
    PROVE  Times(Tail(q), e) = IF Head(q) = e THEN Times(q, e) - 1 ELSE Times(q, e)
<1> DEFINE P == Places(q, e) \ {1}
           T == Places(Tail(q), e)
           f == [ i \in T |-> i + 1 ]
<1>1. /\ Len(q) \in Nat \ {0} /\ Len(Tail(q)) = Len(q) - 1 /\ Head(q) = q[1] /\ Tail(q) \in Seq(S)
      /\ \A i \in 1..Len(Tail(q)) : Tail(q)[i] = q[i + 1]
  OBVIOUS
<1>2. IsFiniteSet(T) /\ IsFiniteSet(Places(q, e))
  BY <1>1, TimesType
<1>3. \A i \in T : i \in Nat /\ i + 1 \in P
  BY <1>1 DEF Places
<1>4. \A j \in P : j - 1 \in T /\ j = (j - 1) + 1
  <2>1. SUFFICES ASSUME NEW j \in P
                 PROVE  j - 1 \in T /\ j = (j - 1) + 1
    OBVIOUS
  <2>2. j \in 2..Len(q) /\ q[j] = e
    BY <1>1 DEF Places
  <2>3. j - 1 \in 1..Len(Tail(q)) /\ Tail(q)[j - 1] = q[j] /\ j = (j - 1) + 1
    BY <1>1, <2>2
  <2> QED
    BY <2>2, <2>3 DEF Places
<1> HIDE DEF P, T
<1>5. f \in Bijection(T, P)
  <2>1. f \in [ T -> P ]
    BY <1>3
  <2>2. \A i, j \in T : f[i] = f[j] => i = j
    BY <1>3
  <2>3. \A j \in P : \E i \in T : f[i] = j
    BY <1>4
  <2> QED
    BY <2>1, <2>2, <2>3 DEF Bijection, Injection, Surjection, IsInjective
<1>6. Cardinality(P) = Cardinality(T)
  BY <1>2, <1>5, FS_Bijection DEF ExistsBijection
<1>7. Cardinality(P) = IF 1 \in Places(q, e) THEN Cardinality(Places(q, e)) - 1
                                            ELSE Cardinality(Places(q, e))
  BY <1>2, FS_RemoveElement DEF P
<1>8. 1 \in Places(q, e) <=> Head(q) = e
  BY <1>1 DEF Places
<1> QED
  BY <1>6, <1>7, <1>8 DEF Times, T

(* What is there at most once is gone when it is taken. *)
LEMMA TimesHead ==
    ASSUME NEW S, NEW q \in Seq(S), q # << >>
    PROVE  Times(q, Head(q)) > 0
<1>1. 1 \in 1..Len(q) /\ q[1] = Head(q)
  OBVIOUS
<1> QED
  BY <1>1, TimesType

LEMMA FirstNaturals ==
    ASSUME NEW n \in Nat
    PROVE  IsFiniteSet(1..n) /\ Cardinality(1..n) = n
<1>1. IsFiniteSet(1..n) /\ Cardinality(1..n) = IF 1 > n THEN 0 ELSE n - 1 + 1
  BY FS_Interval
<1>2. (IF 1 > n THEN 0 ELSE n - 1 + 1) = n
  OBVIOUS
<1> QED
  BY <1>1, <1>2

(* A queue is no longer than what it may hold of each. *)
LEMMA Room ==
    ASSUME NEW C, IsFiniteSet(C), NEW x, x \notin C, NEW q \in Seq(C \cup {x}), NEW k \in Nat, NEW m \in Nat,
           \A c \in C : Times(q, c) <= k, Times(q, x) <= m
    PROVE  Len(q) <= Cardinality(C) * k + m
<1> DEFINE n == Len(q)
           Upto(i) == Places(q, q[i]) \cap (1..i)
           T == (C \X (1..k)) \cup ({x} \X (1..m))
           f == [ i \in 1..n |-> << q[i], Cardinality(Upto(i)) >> ]
<1>1. n \in Nat /\ \A i \in 1..n : q[i] \in C \cup {x}
  OBVIOUS
<1>2. IsFiniteSet(T) /\ Cardinality(T) <= Cardinality(C) * k + m
  <2>1. IsFiniteSet(C \X (1..k)) /\ Cardinality(C \X (1..k)) = Cardinality(C) * k
    <3>1. IsFiniteSet(1..k) /\ Cardinality(1..k) = k
      BY FirstNaturals
    <3> QED
      BY <3>1, FS_Product
  <2>2. IsFiniteSet({x} \X (1..m)) /\ Cardinality({x} \X (1..m)) = m
    <3>1. IsFiniteSet({x}) /\ Cardinality({x}) = 1 /\ IsFiniteSet(1..m) /\ Cardinality(1..m) = m
      BY FS_Singleton, FirstNaturals
    <3>2. IsFiniteSet({x} \X (1..m)) /\ Cardinality({x} \X (1..m)) = Cardinality({x}) * Cardinality(1..m)
      BY <3>1, FS_Product
    <3> QED
      BY <3>1, <3>2
  <2>3. IsFiniteSet((C \X (1..k)) \cap ({x} \X (1..m)))
        /\ Cardinality((C \X (1..k)) \cap ({x} \X (1..m))) \in Nat
    BY <2>1, FS_Intersection, FS_CardinalityType
  <2>4. Cardinality(C \X (1..k)) \in Nat
    BY <2>1, FS_CardinalityType
  <2>5. IsFiniteSet(T) /\ Cardinality(T) = Cardinality(C \X (1..k)) + Cardinality({x} \X (1..m))
                            - Cardinality((C \X (1..k)) \cap ({x} \X (1..m)))
    BY <2>1, <2>2, FS_Union
  <2> HIDE DEF T
  <2> QED
    BY <2>1, <2>2, <2>3, <2>4, <2>5
<1>3. ASSUME NEW i \in 1..n
      PROVE  /\ IsFiniteSet(Upto(i)) /\ Cardinality(Upto(i)) \in Nat /\ Cardinality(Upto(i)) # 0
             /\ Cardinality(Upto(i)) <= Times(q, q[i]) /\ Times(q, q[i]) \in Nat
  <2>1. IsFiniteSet(Places(q, q[i])) /\ Times(q, q[i]) \in Nat
    BY TimesType
  <2>2. IsFiniteSet(Upto(i)) /\ Cardinality(Upto(i)) <= Times(q, q[i])
    BY <2>1, FS_Subset DEF Times
  <2>3. i \in Upto(i)
    BY DEF Places
  <2> QED
    BY <2>1, <2>2, <2>3, FS_CardinalityType, FS_EmptySet
<1>4. ASSUME NEW i \in 1..n
      PROVE  << q[i], Cardinality(Upto(i)) >> \in T
  <2> HIDE DEF Upto
  <2>1. CASE q[i] = x
    <3>1. Cardinality(Upto(i)) \in 1..m
      BY <1>3, <2>1
    <3> QED
      BY <2>1, <3>1
  <2>2. CASE q[i] \in C
    <3>1. Times(q, q[i]) <= k
      BY <2>2
    <3>2. Cardinality(Upto(i)) \in 1..k
      BY <1>3, <3>1
    <3> QED
      BY <2>2, <3>2
  <2> QED
    BY <1>1, <2>1, <2>2
<1>5. ASSUME NEW i \in 1..n, NEW j \in 1..n, q[i] = q[j], i < j
      PROVE  Cardinality(Upto(i)) # Cardinality(Upto(j))
  <2>1. Upto(i) \subseteq Upto(j) /\ j \in Upto(j) /\ j \notin Upto(i)
    BY <1>5 DEF Places
  <2>2. IsFiniteSet(Upto(j))
    BY <1>3
  <2> HIDE DEF Upto
  <2> QED
    BY <2>1, <2>2, FS_Subset
<1>6. f \in Injection(1..n, T)
  <2>1. f \in [ 1..n -> T ]
    BY <1>4
  <2>2. ASSUME NEW i \in 1..n, NEW j \in 1..n, f[i] = f[j]
        PROVE  i = j
    <3> HIDE DEF Upto
    <3>1. q[i] = q[j] /\ Cardinality(Upto(i)) = Cardinality(Upto(j))
      BY <2>2
    <3>2. i < j \/ j < i \/ i = j
      OBVIOUS
    <3> QED
      BY <1>5, <3>1, <3>2
  <2> HIDE DEF f
  <2> QED
    BY <2>1, <2>2 DEF Injection, IsInjective
<1>7. Cardinality(1..n) <= Cardinality(T)
  <2> HIDE DEF T, f
  <2> QED
    BY <1>2, <1>6, FS_Injection
<1>8. Cardinality(1..n) = n
  BY <1>1, FirstNaturals
<1>9. Cardinality(T) \in Nat /\ Cardinality(C) * k \in Nat
  BY <1>2, FS_CardinalityType
<1> HIDE DEF T
<1> QED
  BY <1>1, <1>2, <1>7, <1>8, <1>9

(* Those that are in a sequence once are no more than there are. *)
LEMMA OnceEach ==
    ASSUME NEW C, IsFiniteSet(C), NEW q \in Seq(C),
           \A i, j \in 1..Len(q) : q[i] = q[j] => i = j
    PROVE  Len(q) <= Cardinality(C)
<1> DEFINE f == [ i \in 1..Len(q) |-> q[i] ]
<1>1. f \in Injection(1..Len(q), C)
  BY DEF Injection, IsInjective
<1>2. Cardinality(1..Len(q)) = Len(q)
  BY FirstNaturals
<1> HIDE DEF f
<1> QED
  BY <1>1, <1>2, FS_Injection

----------------------------------------------------------------------------
(* The bridge with clients that wait: events belong to the one that is     *)
(* open, which has an item for each, and its chunks are numbered on from   *)
(* what was read.                                                          *)

Chunk == Bridge!Clients \X Nat \X BOOLEAN
Item == Chunk \cup { Bridge!Fin }
Events == Slots \cup { "listen" }

BridgeTypes ==
    /\ uart_server_events \in Seq(Events) /\ Len(uart_server_events) <= EVENTS_QUEUE_SIZE
    /\ slotState \in [ Slots -> { "free", "backlog", "open" } ]
    /\ slotErr \in [ Slots -> { "ok", "CLSD", "RST" } ]
    /\ clients \in 0..MaxClients /\ client \in [ Slots -> 0..clients ]
    /\ slotInbox \in [ Slots -> Seq(Item) ] /\ backlog \in Seq(Slots)
    /\ chunksSent \in [ Bridge!Clients -> Nat ]
    /\ is_conn_valid \in BOOLEAN /\ is_first_time_recv \in BOOLEAN
    /\ uart_netconn \in Slots \cup { Bridge!None }
    /\ uartIn \in 0..MaxUart /\ toClient \in Bridge!Clients \cup { Bridge!None }
    /\ uart \in Seq(Chunk) /\ baud \in Seq(Chunk)

SlotsInv ==
    /\ \A s \in Slots :
        /\ slotState[s] # "free" => client[s] # 0 /\ slotErr[s] = "ok"
        /\ slotState[s] = "backlog" => Len(slotInbox[s]) = 0 /\ chunksSent[client[s]] = 0
        /\ \A t \in Slots : client[s] = client[t] /\ client[s] # 0 => s = t
    /\ \A i \in 1..Len(backlog) :
        /\ slotState[backlog[i]] = "backlog"
        /\ \A j \in 1..Len(backlog) : backlog[i] = backlog[j] => i = j
    /\ \A c \in Bridge!Clients : c > clients => chunksSent[c] = 0

OneOpen ==
    /\ Bridge!OneClient
    /\ is_conn_valid => uart_netconn \in Slots

EventsInv ==
    \A s \in Slots :
        Times(uart_server_events, s) <= IF slotState[s] = "open" THEN Len(slotInbox[s]) ELSE 0

(* After the first b chunks of its client were read. *)
NumberedFrom(s, b) ==
    /\ b = 0 <=> is_first_time_recv
    /\ \A j \in 1..Len(slotInbox[s]) :
        IF slotInbox[s][j] = Bridge!Fin THEN j = Len(slotInbox[s]) ELSE slotInbox[s][j][2] = b + j
    /\ (\A j \in 1..Len(slotInbox[s]) : slotInbox[s][j] # Bridge!Fin)
            => chunksSent[client[s]] = b + Len(slotInbox[s])
ChunksInv == \A s \in Slots : slotState[s] = "open" => \E b \in Nat : NumberedFrom(s, b)

BridgeInv == BridgeTypes /\ SlotsInv /\ OneOpen /\ EventsInv /\ ChunksInv /\ Bridge!BaudFirst

LEMMA BridgeSizes ==
    /\ EVENTS_QUEUE_SIZE \in Nat \ {0} /\ MaxClients \in Nat /\ MaxUart \in Nat
    /\ \A s \in Slots : s # 0 /\ s # "listen" /\ s # "wifi"
BY PartsAssumption DEF PartsAssumption, Bridge!BridgeAssumption

LEMMA BridgeInit == Bridge!Init => BridgeInv
<1> SUFFICES ASSUME Bridge!Init
             PROVE  BridgeInv
  OBVIOUS
<1> USE DEF Bridge!Init, Bridge!None
<1>1. /\ << >> \in Seq(Events) /\ << >> \in Seq(Item) /\ << >> \in Seq(Slots) /\ << >> \in Seq(Chunk)
      /\ Len(<< >>) = 0
  BY EmptySeq, Zenon
<1>2. ~is_conn_valid /\ ~is_first_time_recv
      /\ is_conn_valid \in BOOLEAN /\ is_first_time_recv \in BOOLEAN
  OBVIOUS
<1>3. BridgeTypes
  BY <1>1, <1>2, BridgeSizes DEF BridgeTypes
<1>4. SlotsInv /\ OneOpen /\ ChunksInv
  BY <1>1, <1>2 DEF SlotsInv, OneOpen, ChunksInv, Bridge!OneClient
<1>5. EventsInv
  BY TimesEmpty DEF EventsInv
<1>6. Bridge!BaudFirst
  BY <1>1 DEF Bridge!BaudFirst
<1> QED
  BY <1>3, <1>4, <1>5, <1>6 DEF BridgeInv

(* An event is put in the queue, or dropped. *)
LEMMA EventSent ==
    ASSUME BridgeTypes, NEW e \in Events, Bridge!xQueueSend(e)
    PROVE  /\ uart_server_events' \in Seq(Events) /\ Len(uart_server_events') <= EVENTS_QUEUE_SIZE
           /\ \A s \in Slots : /\ Times(uart_server_events, s) \in Nat
                               /\ Times(uart_server_events', s) \in Nat
                               /\ Times(uart_server_events', s) <= Times(uart_server_events, s) + 1
                               /\ e # s => Times(uart_server_events', s) = Times(uart_server_events, s)
<1>1. uart_server_events \in Seq(Events) /\ Len(uart_server_events) <= EVENTS_QUEUE_SIZE
  BY DEF BridgeTypes
<1>2. \A s \in Slots : Times(uart_server_events, s) \in Nat
  BY <1>1, TimesType
<1>3. CASE uart_server_events' = Append(uart_server_events, e) /\ Len(uart_server_events) < EVENTS_QUEUE_SIZE
  <2>1. \A s \in Slots : Times(uart_server_events', s) = IF e = s THEN Times(uart_server_events, s) + 1
                                                                ELSE Times(uart_server_events, s)
    BY <1>1, <1>3, TimesAppend
  <2> QED
    BY <1>1, <1>2, <1>3, <2>1, BridgeSizes
<1>4. CASE uart_server_events' = uart_server_events
  BY <1>1, <1>2, <1>4
<1> QED
  BY <1>3, <1>4 DEF Bridge!xQueueSend

(* An event is taken from the queue. *)
LEMMA EventTaken ==
    ASSUME BridgeTypes, Bridge!Take, NEW e, e = Head(uart_server_events)
    PROVE  /\ e \in Events
           /\ uart_server_events' \in Seq(Events) /\ Len(uart_server_events') <= EVENTS_QUEUE_SIZE
           /\ \A s \in Slots : /\ Times(uart_server_events, s) \in Nat
                               /\ Times(uart_server_events', s) =
                                    IF e = s THEN Times(uart_server_events, s) - 1
                                             ELSE Times(uart_server_events, s)
           /\ Times(uart_server_events, e) > 0
<1>1. /\ uart_server_events \in Seq(Events) /\ uart_server_events # << >>
      /\ uart_server_events' = Tail(uart_server_events) /\ Len(uart_server_events) <= EVENTS_QUEUE_SIZE
  BY DEF BridgeTypes, Bridge!Take
<1>2. \A s \in Slots : Times(uart_server_events, s) \in Nat
  BY <1>1, TimesType
<1>3. \A s \in Slots : Times(uart_server_events', s) = IF e = s THEN Times(uart_server_events, s) - 1
                                                              ELSE Times(uart_server_events, s)
  BY <1>1, TimesTail
<1>4. e \in Events /\ uart_server_events' \in Seq(Events)
      /\ Len(uart_server_events') <= EVENTS_QUEUE_SIZE
  BY <1>1, BridgeSizes
<1> QED
  BY <1>1, <1>2, <1>3, <1>4, TimesHead

LEMMA ConnectKeeps ==
    ASSUME BridgeInv, NEW s \in Slots, Bridge!Connect(s)
    PROVE  BridgeInv'
<1>1. /\ clients < MaxClients /\ slotState[s] = "free" /\ clients' = clients + 1
      /\ slotState' = [ slotState EXCEPT ![s] = "backlog" ]
      /\ slotErr' = [ slotErr EXCEPT ![s] = "ok" ]
      /\ slotInbox' = [ slotInbox EXCEPT ![s] = << >> ]
      /\ client' = [ client EXCEPT ![s] = clients + 1 ]
      /\ backlog' = Append(backlog, s)
      /\ UNCHANGED << uart_netconn, is_conn_valid, is_first_time_recv, uart, baud, uartIn, toClient,
                      chunksSent >>
      /\ Bridge!xQueueSend("listen")
  BY DEF Bridge!Connect, Bridge!bridge
<1>2. /\ clients \in Nat /\ clients + 1 \in Nat /\ clients + 1 \in Bridge!Clients
      /\ clients + 1 \in 0..MaxClients /\ 0..clients \subseteq 0..(clients + 1)
  BY <1>1, BridgeSizes DEF BridgeInv, BridgeTypes, Bridge!Clients
<1>3. /\ uart_server_events' \in Seq(Events) /\ Len(uart_server_events') <= EVENTS_QUEUE_SIZE
      /\ \A t \in Slots : Times(uart_server_events', t) = Times(uart_server_events, t)
                          /\ Times(uart_server_events, t) \in Nat
  BY <1>1, EventSent, BridgeSizes DEF BridgeInv, Events
<1>4. backlog \in Seq(Slots) /\ Len(backlog) \in Nat /\ Len(backlog') = Len(backlog) + 1
      /\ backlog' \in Seq(Slots) /\ backlog'[Len(backlog) + 1] = s
      /\ \A i \in 1..Len(backlog) : backlog'[i] = backlog[i] /\ backlog[i] \in Slots
  BY <1>1 DEF BridgeInv, BridgeTypes
<1>5. /\ slotState'[s] = "backlog" /\ slotErr'[s] = "ok" /\ slotInbox'[s] = << >> /\ client'[s] = clients + 1
      /\ \A t \in Slots \ {s} : /\ slotState'[t] = slotState[t] /\ slotErr'[t] = slotErr[t]
                                /\ slotInbox'[t] = slotInbox[t] /\ client'[t] = client[t]
  BY <1>1 DEF BridgeInv, BridgeTypes
<1>6. BridgeTypes'
  <2>1. << >> \in Seq(Item)
    BY EmptySeq, Zenon
  <2>2. slotInbox' \in [ Slots -> Seq(Item) ]
    BY <1>1, <2>1 DEF BridgeInv, BridgeTypes
  <2>3. /\ slotState' \in [ Slots -> { "free", "backlog", "open" } ]
        /\ slotErr' \in [ Slots -> { "ok", "CLSD", "RST" } ]
        /\ clients' \in 0..MaxClients /\ client' \in [ Slots -> 0..clients' ]
    BY <1>1, <1>2 DEF BridgeInv, BridgeTypes
  <2> QED
    BY <1>1, <1>3, <1>4, <2>2, <2>3 DEF BridgeInv, BridgeTypes
<1>7. SlotsInv'
  <2>1. chunksSent[clients + 1] = 0
    BY <1>2 DEF BridgeInv, SlotsInv
  <2>2. ASSUME NEW t \in Slots
        PROVE  /\ slotState'[t] # "free" => client'[t] # 0 /\ slotErr'[t] = "ok"
               /\ slotState'[t] = "backlog" => Len(slotInbox'[t]) = 0 /\ chunksSent[client'[t]] = 0
    <3>1. CASE t = s
      <4>1. Len(<< >>) = 0
        OBVIOUS
      <4> QED
        BY <1>2, <1>5, <2>1, <3>1, <4>1
    <3>2. CASE t # s
      BY <1>5, <3>2 DEF BridgeInv, SlotsInv
    <3> QED
      BY <3>1, <3>2
  <2>3. \A t \in Slots : client[t] # clients + 1
    BY <1>2 DEF BridgeInv, BridgeTypes
  <2>4. \A t, u \in Slots : client'[t] = client'[u] /\ client'[t] # 0 => t = u
    BY <1>5, <2>3 DEF BridgeInv, SlotsInv
  <2>5. ASSUME NEW i \in 1..Len(backlog')
        PROVE  /\ slotState'[backlog'[i]] = "backlog"
               /\ \A j \in 1..Len(backlog') : backlog'[i] = backlog'[j] => i = j
    <3>1. \A j \in 1..Len(backlog) : backlog[j] # s
      BY <1>1 DEF BridgeInv, SlotsInv
    <3> QED
      BY <1>4, <1>5, <3>1 DEF BridgeInv, SlotsInv
  <2>6. \A c \in Bridge!Clients : c > clients' => chunksSent[c] = 0
    BY <1>1, <1>2 DEF BridgeInv, SlotsInv, Bridge!Clients
  <2> QED
    BY <1>1, <2>2, <2>4, <2>5, <2>6 DEF SlotsInv
<1>8. OneOpen'
  BY <1>1, <1>5 DEF BridgeInv, OneOpen, Bridge!OneClient
<1>9. EventsInv'
  BY <1>1, <1>3, <1>5 DEF BridgeInv, EventsInv
<1>10. ChunksInv'
  <2>1. ASSUME NEW t \in Slots, slotState'[t] = "open"
        PROVE  \E b \in Nat : NumberedFrom(t, b)'
    <3>1. t # s /\ slotState[t] = "open" /\ slotInbox'[t] = slotInbox[t] /\ client'[t] = client[t]
      BY <1>5, <2>1
    <3>2. PICK b \in Nat : NumberedFrom(t, b)
      BY <3>1 DEF BridgeInv, ChunksInv
    <3>3. NumberedFrom(t, b)'
      BY <1>1, <3>1, <3>2 DEF NumberedFrom
    <3> QED
      BY <3>3
  <2> QED
    BY <2>1 DEF ChunksInv
<1>11. Bridge!BaudFirst'
  BY <1>1 DEF BridgeInv, Bridge!BaudFirst
<1> QED
  BY <1>6, <1>7, <1>8, <1>9, <1>10, <1>11 DEF BridgeInv

LEMMA Chunks ==
    ASSUME NEW x \in Chunk
    PROVE  x[1] \in Bridge!Clients /\ x[2] \in Nat /\ x[3] \in BOOLEAN /\ x # Bridge!Fin /\ x \in Item
BY DEF Chunk, Item, Bridge!Fin

LEMMA ClientKnown ==
    ASSUME BridgeTypes, NEW s \in Slots, client[s] # 0
    PROVE  client[s] \in Bridge!Clients /\ client[s] <= clients /\ clients \in Nat
<1>1. client[s] \in 0..clients /\ clients \in 0..MaxClients
  BY DEF BridgeTypes
<1> QED
  BY <1>1, BridgeSizes DEF Bridge!Clients

LEMMA ArriveKeeps ==
    ASSUME BridgeInv, NEW s \in Slots, NEW item \in Item, Bridge!Arrive(s, item),
           \/ item = Bridge!Fin /\ chunksSent' = chunksSent
           \/ /\ item \in Chunk /\ item[2] = chunksSent[client[s]] + 1
              /\ chunksSent' = [ chunksSent EXCEPT ![client[s]] = @ + 1 ]
    PROVE  BridgeInv'
<1>1. /\ slotState[s] = "open" /\ slotErr[s] = "ok"
      /\ \A i \in 1..Len(slotInbox[s]) : slotInbox[s][i] # Bridge!Fin
      /\ slotInbox' = [ slotInbox EXCEPT ![s] = Append(@, item) ]
      /\ Bridge!xQueueSend(s)
      /\ UNCHANGED << slotState, slotErr, client, backlog, uart_netconn, is_conn_valid, is_first_time_recv,
                      uart, baud, uartIn, toClient, clients >>
  BY DEF Bridge!Arrive, Bridge!netCallback, Bridge!bridge
<1>2. /\ slotInbox[s] \in Seq(Item) /\ client[s] \in 0..clients /\ client[s] # 0 /\ client[s] \in Bridge!Clients
      /\ clients \in 0..MaxClients /\ s \in Events
  BY <1>1, BridgeSizes DEF BridgeInv, BridgeTypes, SlotsInv, Bridge!Clients, Events
<1>3. PICK n \in Nat : n = Len(slotInbox[s])
  BY <1>2
<1>4. /\ slotInbox'[s] \in Seq(Item) /\ Len(slotInbox'[s]) = n + 1 /\ slotInbox'[s][n + 1] = item
      /\ \A i \in 1..n : slotInbox'[s][i] = slotInbox[s][i]
      /\ \A t \in Slots \ {s} : slotInbox'[t] = slotInbox[t]
      /\ slotInbox' \in [ Slots -> Seq(Item) ]
  <2>1. slotInbox'[s] = Append(slotInbox[s], item)
    BY <1>1 DEF BridgeInv, BridgeTypes
  <2>2. \A t \in Slots \ {s} : slotInbox'[t] = slotInbox[t]
    BY <1>1 DEF BridgeInv, BridgeTypes
  <2>3. slotInbox'[s] \in Seq(Item)
    BY <1>2, <2>1
  <2>4. slotInbox' \in [ Slots -> Seq(Item) ]
    BY <1>1, <2>1, <2>3 DEF BridgeInv, BridgeTypes
  <2> QED
    BY <1>2, <1>3, <2>1, <2>2, <2>3, <2>4
<1>5. /\ uart_server_events' \in Seq(Events) /\ Len(uart_server_events') <= EVENTS_QUEUE_SIZE
      /\ \A t \in Slots : /\ Times(uart_server_events, t) \in Nat
                          /\ Times(uart_server_events', t) \in Nat
                          /\ Times(uart_server_events', t) <= Times(uart_server_events, t) + 1
                          /\ s # t => Times(uart_server_events', t) = Times(uart_server_events, t)
  BY <1>1, <1>2, EventSent DEF BridgeInv
<1>6. /\ chunksSent' \in [ Bridge!Clients -> Nat ]
      /\ \A c \in Bridge!Clients \ { client[s] } : chunksSent'[c] = chunksSent[c]
      /\ item # Bridge!Fin => item[2] = chunksSent[client[s]] + 1
                              /\ chunksSent'[client[s]] = chunksSent[client[s]] + 1
      /\ item = Bridge!Fin => chunksSent' = chunksSent
  <2>1. CASE item = Bridge!Fin /\ chunksSent' = chunksSent
    BY <2>1 DEF BridgeInv, BridgeTypes
  <2>2. CASE /\ item \in Chunk /\ item[2] = chunksSent[client[s]] + 1
             /\ chunksSent' = [ chunksSent EXCEPT ![client[s]] = @ + 1 ]
    <3>1. item # Bridge!Fin
      BY <2>2, Chunks
    <3> QED
      BY <1>2, <2>2, <3>1 DEF BridgeInv, BridgeTypes
  <2> QED
    BY <2>1, <2>2
<1>7. BridgeTypes'
  BY <1>1, <1>4, <1>5, <1>6 DEF BridgeInv, BridgeTypes
<1>8. SlotsInv'
  <2>1. ASSUME NEW t \in Slots, slotState[t] = "backlog"
        PROVE  Len(slotInbox'[t]) = 0 /\ chunksSent'[client[t]] = 0
    <3>1. t # s /\ client[t] # 0 /\ client[t] # client[s] /\ client[t] \in Bridge!Clients
      <4>1. t # s /\ client[t] # 0
        BY <1>1, <2>1 DEF BridgeInv, SlotsInv
      <4>2. client[t] # client[s]
        BY <4>1 DEF BridgeInv, SlotsInv
      <4> QED
        BY <4>1, <4>2, ClientKnown DEF BridgeInv
    <3> QED
      BY <1>4, <1>6, <2>1, <3>1 DEF BridgeInv, SlotsInv
  <2>2. \A c \in Bridge!Clients : c > clients => chunksSent'[c] = 0
    BY <1>2, <1>6 DEF BridgeInv, SlotsInv, Bridge!Clients
  <2> QED
    BY <1>1, <2>1, <2>2 DEF BridgeInv, SlotsInv
<1>9. OneOpen'
  BY <1>1 DEF BridgeInv, OneOpen, Bridge!OneClient
<1>10. EventsInv'
  <2>1. ASSUME NEW t \in Slots
        PROVE  Times(uart_server_events', t) <= IF slotState[t] = "open" THEN Len(slotInbox'[t]) ELSE 0
    <3>1. CASE t = s
      BY <1>1, <1>3, <1>4, <1>5, <3>1 DEF BridgeInv, EventsInv
    <3>2. CASE t # s
      BY <1>4, <1>5, <3>2 DEF BridgeInv, EventsInv
    <3> QED
      BY <3>1, <3>2
  <2> QED
    BY <1>1, <2>1 DEF EventsInv
<1>11. ChunksInv'
  <2>1. ASSUME NEW t \in Slots, slotState[t] = "open"
        PROVE  \E b \in Nat : NumberedFrom(t, b)'
    <3>1. PICK b \in Nat : NumberedFrom(t, b)
      BY <2>1 DEF BridgeInv, ChunksInv
    <3>2. CASE t # s
      <4>1. client[t] # client[s] /\ client[t] \in Bridge!Clients
        BY <1>2, <2>1, <3>2, BridgeSizes DEF BridgeInv, BridgeTypes, SlotsInv, Bridge!Clients
      <4> QED
        BY <1>1, <1>4, <1>6, <3>1, <3>2, <4>1 DEF NumberedFrom
    <3>3. CASE t = s
      <4>1. chunksSent[client[s]] = b + n
        BY <1>1, <1>3, <3>1, <3>3 DEF NumberedFrom
      <4>2. ASSUME NEW j \in 1..(n + 1)
            PROVE  IF slotInbox'[s][j] = Bridge!Fin THEN j = n + 1 ELSE slotInbox'[s][j][2] = b + j
        <5>1. CASE j = n + 1
          BY <1>3, <1>4, <1>6, <4>1, <5>1
        <5>2. CASE j \in 1..n
          BY <1>1, <1>3, <1>4, <3>1, <3>3, <5>2 DEF NumberedFrom
        <5> QED
          BY <1>3, <5>1, <5>2
      <4>3. (\A j \in 1..(n + 1) : slotInbox'[s][j] # Bridge!Fin) => chunksSent'[client[s]] = b + (n + 1)
        <5>1. n + 1 \in 1..(n + 1) /\ slotInbox'[s][n + 1] = item
          BY <1>4
        <5>2. item # Bridge!Fin => chunksSent'[client[s]] = b + (n + 1)
          BY <1>6, <4>1
        <5> QED
          BY <5>1, <5>2
      <4> QED
        BY <1>1, <1>4, <3>1, <3>3, <4>2, <4>3 DEF NumberedFrom
    <3> QED
      BY <3>2, <3>3
  <2> QED
    BY <1>1, <2>1 DEF ChunksInv
<1>12. Bridge!BaudFirst'
  BY <1>1 DEF BridgeInv, Bridge!BaudFirst
<1> QED
  BY <1>7, <1>8, <1>9, <1>10, <1>11, <1>12 DEF BridgeInv

(* The UART's bytes are nobody's, or those of a slot's client. *)
LEMMA WrittenTo ==
    ASSUME BridgeTypes, NEW s \in Slots, slotState[s] # "free" => client[s] # 0, Bridge!WriteUartData(s)
    PROVE  uartIn' \in 0..MaxUart /\ toClient' \in Bridge!Clients \cup { Bridge!None }
<1>1. client[s] \in 0..clients /\ clients \in 0..MaxClients
  BY DEF BridgeTypes
<1>2. slotState[s] # "free" => client[s] \in Bridge!Clients
  BY <1>1, BridgeSizes DEF Bridge!Clients
<1> QED
  BY <1>2, BridgeSizes DEF BridgeTypes, Bridge!WriteUartData

LEMMA OthersKeep ==
    ASSUME BridgeInv, Bridge!UartReceives \/ Bridge!Timeout
    PROVE  BridgeInv'
<1>1. UNCHANGED << uart_server_events, slotState, slotErr, slotInbox, client, backlog, uart_netconn, is_conn_valid,
                   is_first_time_recv, uart, baud, clients, chunksSent >>
  BY DEF Bridge!UartReceives, Bridge!Timeout, Bridge!pool, Bridge!bridge
<1>2. uartIn' \in 0..MaxUart /\ toClient' \in Bridge!Clients \cup { Bridge!None }
  <2>1. CASE Bridge!UartReceives
    BY <2>1, BridgeSizes DEF BridgeInv, BridgeTypes, Bridge!UartReceives
  <2>2. CASE Bridge!Timeout
    <3>1. uart_netconn \in Slots /\ Bridge!WriteUartData(uart_netconn)
      BY <2>2 DEF BridgeInv, OneOpen, Bridge!Timeout
    <3> QED
      BY <3>1, WrittenTo DEF BridgeInv, SlotsInv
  <2> QED
    BY <2>1, <2>2
<1>3. BridgeTypes'
  BY <1>1, <1>2 DEF BridgeInv, BridgeTypes
<1>4. SlotsInv' /\ OneOpen' /\ EventsInv' /\ Bridge!BaudFirst'
  BY <1>1 DEF BridgeInv, SlotsInv, OneOpen, EventsInv, Bridge!OneClient, Bridge!BaudFirst
<1>5. ChunksInv'
  BY <1>1 DEF BridgeInv, ChunksInv, NumberedFrom
<1> QED
  BY <1>3, <1>4, <1>5 DEF BridgeInv

(* The clients' steps. *)
LEMMA SendKeeps ==
    ASSUME BridgeInv, NEW s \in Slots, NEW looksLikeBaud \in BOOLEAN, Bridge!Send(s, looksLikeBaud)
    PROVE  BridgeInv'
<1>1. /\ slotState[s] # "free"
      /\ chunksSent' = [ chunksSent EXCEPT ![client[s]] = @ + 1 ]
      /\ Bridge!Arrive(s, << client[s], chunksSent'[client[s]], looksLikeBaud >>)
  BY DEF Bridge!Send
<1>2. client[s] \in Bridge!Clients /\ chunksSent[client[s]] \in Nat
  <2>1. client[s] \in Bridge!Clients
    BY <1>1, ClientKnown DEF BridgeInv, SlotsInv
  <2> QED
    BY <2>1 DEF BridgeInv, BridgeTypes
<1>3. chunksSent'[client[s]] = chunksSent[client[s]] + 1
  BY <1>1, <1>2 DEF BridgeInv, BridgeTypes
<1>4. PICK item : item = << client[s], chunksSent'[client[s]], looksLikeBaud >>
  OBVIOUS
<1>5. item \in Chunk /\ item[2] = chunksSent[client[s]] + 1
  BY <1>2, <1>3, <1>4 DEF Chunk
<1>6. item \in Item
  BY <1>5 DEF Item
<1>7. Bridge!Arrive(s, item)
  BY <1>1, <1>4
<1> QED
  BY <1>1, <1>5, <1>6, <1>7, ArriveKeeps

LEMMA FinishKeeps ==
    ASSUME BridgeInv, NEW s \in Slots, Bridge!Finish(s)
    PROVE  BridgeInv'
<1>1. Bridge!Arrive(s, Bridge!Fin) /\ chunksSent' = chunksSent /\ Bridge!Fin \in Item
  BY DEF Bridge!Finish, Item
<1> QED
  BY <1>1, ArriveKeeps

(* The first that waits is opened, or closed. *)
LEMMA AcceptKeeps ==
    ASSUME BridgeInv, Bridge!Accept
    PROVE  BridgeInv'
<1>1. PICK s : s = Head(backlog)
  OBVIOUS
<1>2. /\ Bridge!Take /\ Head(uart_server_events) = "listen" /\ backlog # << >> /\ backlog' = Tail(backlog)
      /\ UNCHANGED << slotInbox, client, uart, baud, uartIn, toClient, clients, chunksSent >>
      /\ IF is_conn_valid
         THEN /\ slotErr' = [ slotErr EXCEPT ![s] = "CLSD" ] /\ slotState' = [ slotState EXCEPT ![s] = "free" ]
              /\ UNCHANGED << uart_netconn, is_conn_valid, is_first_time_recv >>
         ELSE /\ slotState' = IF slotState[s] = "backlog" THEN [ slotState EXCEPT ![s] = "open" ] ELSE slotState
              /\ uart_netconn' = s /\ is_conn_valid' = TRUE /\ is_first_time_recv' = TRUE
              /\ UNCHANGED slotErr
  BY <1>1 DEF Bridge!Accept, Bridge!close_tcp_netconn, Bridge!bridge
<1>3. /\ Len(backlog) \in Nat \ {0} /\ s = backlog[1] /\ s \in Slots
      /\ backlog' \in Seq(Slots) /\ Len(backlog') = Len(backlog) - 1
      /\ \A i \in 1..Len(backlog') : i + 1 \in 1..Len(backlog) /\ backlog'[i] = backlog[i + 1]
  BY <1>1, <1>2 DEF BridgeInv, BridgeTypes
<1>4. slotState[s] = "backlog" /\ \A i \in 1..Len(backlog') : backlog'[i] # s /\ backlog'[i] \in Slots
  BY <1>3 DEF BridgeInv, SlotsInv
<1>5. /\ uart_server_events' \in Seq(Events) /\ Len(uart_server_events') <= EVENTS_QUEUE_SIZE
      /\ \A t \in Slots : Times(uart_server_events', t) = Times(uart_server_events, t)
                          /\ Times(uart_server_events, t) \in Nat
  <2>1. \A t \in Slots : t # "listen"
    BY BridgeSizes
  <2> QED
    BY <1>2, <2>1, EventTaken DEF BridgeInv
<1>6. \A t \in Slots \ {s} : slotState'[t] = slotState[t] /\ slotErr'[t] = slotErr[t]
  BY <1>2 DEF BridgeInv, BridgeTypes
<1>7. IF is_conn_valid THEN slotState'[s] = "free" ELSE slotState'[s] = "open" /\ slotErr'[s] = slotErr[s]
  BY <1>2, <1>3, <1>4 DEF BridgeInv, BridgeTypes
<1>8. BridgeTypes'
  <2>1. /\ slotState' \in [ Slots -> { "free", "backlog", "open" } ]
        /\ slotErr' \in [ Slots -> { "ok", "CLSD", "RST" } ]
    BY <1>2 DEF BridgeInv, BridgeTypes
  <2>2. is_conn_valid' \in BOOLEAN /\ is_first_time_recv' \in BOOLEAN
        /\ uart_netconn' \in Slots \cup { Bridge!None }
    BY <1>2, <1>3 DEF BridgeInv, BridgeTypes
  <2> QED
    BY <1>2, <1>3, <1>5, <2>1, <2>2 DEF BridgeInv, BridgeTypes
<1>9. SlotsInv'
  <2>1. ASSUME NEW t \in Slots
        PROVE  /\ slotState'[t] # "free" => client[t] # 0 /\ slotErr'[t] = "ok"
               /\ slotState'[t] = "backlog" => Len(slotInbox[t]) = 0 /\ chunksSent[client[t]] = 0
    <3>1. CASE t = s
      BY <1>4, <1>7, <3>1 DEF BridgeInv, SlotsInv
    <3>2. CASE t # s
      BY <1>6, <3>2 DEF BridgeInv, SlotsInv
    <3> QED
      BY <3>1, <3>2
  <2>2. ASSUME NEW i \in 1..Len(backlog')
        PROVE  /\ slotState'[backlog'[i]] = "backlog"
               /\ \A j \in 1..Len(backlog') : backlog'[i] = backlog'[j] => i = j
    <3>1. slotState'[backlog'[i]] = "backlog"
      BY <1>3, <1>4, <1>6 DEF BridgeInv, SlotsInv
    <3>2. ASSUME NEW j \in 1..Len(backlog'), backlog'[i] = backlog'[j]
          PROVE  i = j
      <4>1. i + 1 = j + 1
        BY <1>3, <3>2 DEF BridgeInv, SlotsInv
      <4> QED
        BY <4>1
    <3> QED
      BY <3>1, <3>2
  <2> QED
    BY <1>2, <2>1, <2>2 DEF BridgeInv, SlotsInv
<1>10. OneOpen'
  <2>1. CASE is_conn_valid
    <3>1. uart_netconn # s
      BY <1>4, <2>1 DEF BridgeInv, OneOpen, Bridge!OneClient
    <3> QED
      BY <1>2, <1>6, <1>7, <2>1, <3>1 DEF BridgeInv, OneOpen, Bridge!OneClient
  <2>2. CASE ~is_conn_valid
    <3>1. \A t \in Slots : slotState[t] # "open"
      BY <2>2 DEF BridgeInv, OneOpen, Bridge!OneClient
    <3>2. is_conn_valid' /\ uart_netconn' = s
      BY <1>2, <2>2
    <3> QED
      BY <1>3, <1>6, <1>7, <2>2, <3>1, <3>2 DEF OneOpen, Bridge!OneClient
  <2> QED
    BY <2>1, <2>2
<1>11. EventsInv'
  <2>1. ASSUME NEW t \in Slots
        PROVE  Times(uart_server_events', t) <= IF slotState'[t] = "open" THEN Len(slotInbox[t]) ELSE 0
    <3>1. CASE t = s
      <4>1. Times(uart_server_events', t) = 0 /\ Len(slotInbox[t]) = 0
        BY <1>4, <1>5, <3>1 DEF BridgeInv, EventsInv, SlotsInv
      <4> QED
        BY <4>1
    <3>2. CASE t # s
      BY <1>5, <1>6, <3>2 DEF BridgeInv, EventsInv
    <3> QED
      BY <3>1, <3>2
  <2> QED
    BY <1>2, <2>1 DEF EventsInv
<1>12. ChunksInv'
  <2>1. ASSUME NEW t \in Slots, slotState'[t] = "open"
        PROVE  \E b \in Nat : NumberedFrom(t, b)'
    <3>1. CASE is_conn_valid
      <4>1. t # s /\ slotState[t] = "open"
        BY <1>6, <1>7, <2>1, <3>1
      <4>2. PICK b \in Nat : NumberedFrom(t, b)
        BY <4>1 DEF BridgeInv, ChunksInv
      <4>3. NumberedFrom(t, b)'
        BY <1>2, <3>1, <4>2 DEF NumberedFrom
      <4> QED
        BY <4>3
    <3>2. CASE ~is_conn_valid
      <4>1. t = s
        BY <1>6, <2>1, <3>2 DEF BridgeInv, OneOpen, Bridge!OneClient
      <4>2. Len(slotInbox[t]) = 0 /\ chunksSent[client[t]] = 0 /\ is_first_time_recv'
        BY <1>2, <1>4, <3>2, <4>1 DEF BridgeInv, SlotsInv
      <4>3. NumberedFrom(t, 0)'
        BY <1>2, <4>2 DEF NumberedFrom
      <4> QED
        BY <4>3
    <3> QED
      BY <3>1, <3>2
  <2> QED
    BY <2>1 DEF ChunksInv
<1>13. Bridge!BaudFirst'
  BY <1>2 DEF BridgeInv, Bridge!BaudFirst
<1> QED
  BY <1>8, <1>9, <1>10, <1>11, <1>12, <1>13 DEF BridgeInv

(* An event of data belongs to the client of the bridge, which has an item. *)
LEMMA DataOfClient ==
    ASSUME BridgeInv, Bridge!Take, NEW s \in Slots, s = Head(uart_server_events)
    PROVE  /\ slotState[s] = "open" /\ slotErr[s] = "ok" /\ is_conn_valid /\ uart_netconn = s
           /\ slotInbox[s] \in Seq(Item) /\ Len(slotInbox[s]) \in Nat \ {0} /\ slotInbox[s] # << >>
           /\ client[s] \in Bridge!Clients
<1>1. Times(uart_server_events, s) > 0 /\ Times(uart_server_events, s) \in Nat
  BY EventTaken DEF BridgeInv
<1>2. slotState[s] = "open" /\ Len(slotInbox[s]) > 0
  <2>1. Times(uart_server_events, s) <= IF slotState[s] = "open" THEN Len(slotInbox[s]) ELSE 0
    BY DEF BridgeInv, EventsInv
  <2> QED
    BY <1>1, <2>1
<1>3. slotInbox[s] \in Seq(Item)
  BY DEF BridgeInv, BridgeTypes
<1>4. is_conn_valid /\ uart_netconn = s /\ slotErr[s] = "ok" /\ client[s] # 0
  BY <1>2 DEF BridgeInv, OneOpen, Bridge!OneClient, SlotsInv
<1> QED
  BY <1>2, <1>3, <1>4, ClientKnown DEF BridgeInv

(* A chunk is read: it is the next of its client. *)
LEMMA ChunkKeeps ==
    ASSUME BridgeInv, Bridge!Take, NEW s \in Slots, s = Head(uart_server_events),
           NEW item, item = Head(slotInbox[s]), item # Bridge!Fin,
           slotInbox' = [ slotInbox EXCEPT ![s] = Tail(@) ], uart_netconn' = s, Bridge!ToUart(item),
           Bridge!WriteUartData(s),
           UNCHANGED << slotState, slotErr, client, is_conn_valid, backlog, clients, chunksSent >>
    PROVE  BridgeInv'
<1>1. /\ slotState[s] = "open" /\ slotErr[s] = "ok" /\ is_conn_valid /\ uart_netconn = s
      /\ slotInbox[s] \in Seq(Item) /\ slotInbox[s] # << >> /\ client[s] # 0
  BY DataOfClient, BridgeSizes DEF Bridge!Clients
<1>2. PICK n \in Nat \ {0} : n = Len(slotInbox[s])
  BY DataOfClient
<1>3. /\ slotInbox'[s] \in Seq(Item) /\ Len(slotInbox'[s]) = n - 1 /\ slotInbox[s][1] = item /\ item \in Item
      /\ \A i \in 1..(n - 1) : slotInbox'[s][i] = slotInbox[s][i + 1]
      /\ \A t \in Slots \ {s} : slotInbox'[t] = slotInbox[t]
      /\ slotInbox' \in [ Slots -> Seq(Item) ]
  <2>1. slotInbox'[s] = Tail(slotInbox[s])
    BY DEF BridgeInv, BridgeTypes
  <2>2. \A t \in Slots \ {s} : slotInbox'[t] = slotInbox[t]
    BY DEF BridgeInv, BridgeTypes
  <2>3. slotInbox'[s] \in Seq(Item)
    BY <1>1, <2>1
  <2>4. slotInbox' \in [ Slots -> Seq(Item) ]
    BY <2>1, <2>3 DEF BridgeInv, BridgeTypes
  <2> QED
    BY <1>1, <1>2, <2>1, <2>2, <2>3, <2>4
<1>4. item \in Chunk
  BY <1>3 DEF Item
<1>5. /\ uart_server_events' \in Seq(Events) /\ Len(uart_server_events') <= EVENTS_QUEUE_SIZE
      /\ \A t \in Slots : /\ Times(uart_server_events, t) \in Nat
                          /\ Times(uart_server_events', t) = IF s = t THEN Times(uart_server_events, t) - 1
                                                                      ELSE Times(uart_server_events, t)
  BY EventTaken DEF BridgeInv
<1>6. PICK b \in Nat : NumberedFrom(s, b)
  BY <1>1 DEF BridgeInv, ChunksInv
<1>7. item[2] = b + 1
  BY <1>2, <1>3, <1>6 DEF NumberedFrom
<1>8. /\ ~is_first_time_recv' /\ is_first_time_recv' \in BOOLEAN
      /\ uart' \in Seq(Chunk) /\ baud' \in Seq(Chunk)
  <2>1. uart \in Seq(Chunk) /\ baud \in Seq(Chunk)
    BY DEF BridgeInv, BridgeTypes
  <2>2. Append(uart, item) \in Seq(Chunk) /\ Append(baud, item) \in Seq(Chunk)
    BY <1>4, <2>1
  <2>3. is_first_time_recv' = FALSE
    BY DEF Bridge!ToUart
  <2>4. (uart' = uart \/ uart' = Append(uart, item)) /\ (baud' = baud \/ baud' = Append(baud, item))
    BY DEF Bridge!ToUart
  <2> QED
    BY <2>1, <2>2, <2>3, <2>4
<1>9. Bridge!BaudFirst'
  <2>1. uart \in Seq(Chunk) /\ baud \in Seq(Chunk) /\ Bridge!BaudFirst
    BY DEF BridgeInv, BridgeTypes
  <2>2. item[3] \in BOOLEAN
    BY <1>4, Chunks
  <2>3. CASE is_first_time_recv /\ item[3]
    <3>1. item[2] = 1 /\ uart' = uart /\ baud' = Append(baud, item)
      BY <1>6, <1>7, <2>3 DEF NumberedFrom, Bridge!ToUart
    <3>2. \A i \in 1..Len(baud') : baud'[i] = item \/ (i \in 1..Len(baud) /\ baud'[i] = baud[i])
      BY <1>4, <2>1, <3>1
    <3> QED
      BY <2>1, <3>1, <3>2 DEF Bridge!BaudFirst
  <2>4. CASE ~(is_first_time_recv /\ item[3])
    <3>1. ~(item[2] = 1 /\ item[3]) /\ baud' = baud /\ uart' = Append(uart, item)
      BY <1>6, <1>7, <2>4 DEF NumberedFrom, Bridge!ToUart
    <3>2. \A i \in 1..Len(uart') : uart'[i] = item \/ (i \in 1..Len(uart) /\ uart'[i] = uart[i])
      BY <1>4, <2>1, <3>1
    <3> QED
      BY <2>1, <3>1, <3>2 DEF Bridge!BaudFirst
  <2> QED
    BY <2>3, <2>4
<1>10. BridgeTypes'
  <2>1. uartIn' \in 0..MaxUart /\ toClient' \in Bridge!Clients \cup { Bridge!None }
    BY <1>1, WrittenTo DEF BridgeInv
  <2> QED
    BY <1>3, <1>5, <1>8, <2>1 DEF BridgeInv, BridgeTypes
<1>11. SlotsInv'
  <2>1. ASSUME NEW t \in Slots, slotState[t] = "backlog"
        PROVE  Len(slotInbox'[t]) = 0
    BY <1>1, <1>3, <2>1 DEF BridgeInv, SlotsInv
  <2> QED
    BY <2>1 DEF BridgeInv, SlotsInv
<1>12. OneOpen'
  BY <1>1 DEF BridgeInv, OneOpen, Bridge!OneClient
<1>13. EventsInv'
  <2>1. ASSUME NEW t \in Slots
        PROVE  Times(uart_server_events', t) <= IF slotState[t] = "open" THEN Len(slotInbox'[t]) ELSE 0
    <3>1. CASE t = s
      BY <1>1, <1>2, <1>3, <1>5, <3>1 DEF BridgeInv, EventsInv
    <3>2. CASE t # s
      BY <1>3, <1>5, <3>2 DEF BridgeInv, EventsInv
    <3> QED
      BY <3>1, <3>2
  <2> QED
    BY <2>1 DEF EventsInv
<1>14. ChunksInv'
  <2>1. ASSUME NEW t \in Slots, slotState[t] = "open"
        PROVE  t = s
    BY <1>1, <2>1 DEF BridgeInv, OneOpen, Bridge!OneClient
  <2>2. NumberedFrom(s, b + 1)'
    <3>1. ASSUME NEW j \in 1..(n - 1)
          PROVE  IF slotInbox'[s][j] = Bridge!Fin THEN j = n - 1 ELSE slotInbox'[s][j][2] = (b + 1) + j
      <4>1. j + 1 \in 1..n /\ slotInbox'[s][j] = slotInbox[s][j + 1]
        BY <1>3
      <4>2. IF slotInbox[s][j + 1] = Bridge!Fin THEN j + 1 = n ELSE slotInbox[s][j + 1][2] = b + (j + 1)
        BY <1>2, <1>6, <4>1 DEF NumberedFrom
      <4>3. (j + 1 = n => j = n - 1) /\ b + (j + 1) = (b + 1) + j
        OBVIOUS
      <4> QED
        BY <4>1, <4>2, <4>3
    <3>2. ASSUME \A j \in 1..(n - 1) : slotInbox'[s][j] # Bridge!Fin
          PROVE  chunksSent[client[s]] = (b + 1) + (n - 1)
      <4>1. ASSUME NEW j \in 1..n
            PROVE  slotInbox[s][j] # Bridge!Fin
        <5>1. CASE j = 1
          BY <1>3, <5>1
        <5>2. CASE j # 1
          <6>1. j - 1 \in 1..(n - 1) /\ (j - 1) + 1 = j
            BY <5>2
          <6> QED
            BY <1>3, <3>2, <6>1
        <5> QED
          BY <5>1, <5>2
      <4>2. chunksSent[client[s]] = b + n
        BY <1>2, <1>6, <4>1 DEF NumberedFrom
      <4> QED
        BY <4>2
    <3>3. b + 1 \in Nat /\ b + 1 # 0
      OBVIOUS
    <3> QED
      BY <1>3, <1>8, <3>1, <3>2, <3>3 DEF NumberedFrom
  <2>3. b + 1 \in Nat
    OBVIOUS
  <2> QED
    BY <2>1, <2>2, <2>3 DEF ChunksInv
<1> QED
  BY <1>9, <1>10, <1>11, <1>12, <1>13, <1>14 DEF BridgeInv

(* The end is read: it was the last item, and its event the last. *)
LEMMA EndKeeps ==
    ASSUME BridgeInv, Bridge!Take, NEW s \in Slots, s = Head(uart_server_events),
           Head(slotInbox[s]) = Bridge!Fin, Bridge!close_tcp_netconn(s),
           uart_netconn' = Bridge!None, is_conn_valid' = FALSE, Bridge!WriteUartData(s),
           UNCHANGED << slotInbox, uart, baud, is_first_time_recv, backlog, clients, chunksSent >>
    PROVE  BridgeInv'
<1>1. /\ slotState[s] = "open" /\ slotErr[s] = "ok" /\ is_conn_valid /\ uart_netconn = s
      /\ slotInbox[s] \in Seq(Item) /\ slotInbox[s] # << >> /\ client[s] # 0
  BY DataOfClient, BridgeSizes DEF Bridge!Clients
<1>2. /\ slotState' = [ slotState EXCEPT ![s] = "free" ] /\ slotErr' = [ slotErr EXCEPT ![s] = "CLSD" ]
      /\ UNCHANGED client
  BY DEF Bridge!close_tcp_netconn
<1>3. slotState'[s] = "free" /\ \A t \in Slots \ {s} : slotState'[t] = slotState[t] /\ slotErr'[t] = slotErr[t]
  BY <1>2 DEF BridgeInv, BridgeTypes
<1>4. /\ uart_server_events' \in Seq(Events) /\ Len(uart_server_events') <= EVENTS_QUEUE_SIZE
      /\ \A t \in Slots : /\ Times(uart_server_events, t) \in Nat
                          /\ Times(uart_server_events', t) = IF s = t THEN Times(uart_server_events, t) - 1
                                                                      ELSE Times(uart_server_events, t)
  BY EventTaken DEF BridgeInv
<1>5. Len(slotInbox[s]) = 1
  <2>1. PICK b \in Nat : NumberedFrom(s, b)
    BY <1>1 DEF BridgeInv, ChunksInv
  <2>2. 1 \in 1..Len(slotInbox[s]) /\ slotInbox[s][1] = Bridge!Fin
    BY <1>1
  <2> QED
    BY <2>1, <2>2 DEF NumberedFrom
<1>6. \A t \in Slots : slotState'[t] # "open"
  BY <1>1, <1>3 DEF BridgeInv, OneOpen, Bridge!OneClient
<1>7. BridgeTypes'
  <2>1. uartIn' \in 0..MaxUart /\ toClient' \in Bridge!Clients \cup { Bridge!None }
    BY <1>1, WrittenTo DEF BridgeInv
  <2>2. /\ slotState' \in [ Slots -> { "free", "backlog", "open" } ]
        /\ slotErr' \in [ Slots -> { "ok", "CLSD", "RST" } ]
    BY <1>2 DEF BridgeInv, BridgeTypes
  <2>3. is_conn_valid' \in BOOLEAN /\ uart_netconn' \in Slots \cup { Bridge!None }
    OBVIOUS
  <2> QED
    BY <1>2, <1>4, <2>1, <2>2, <2>3 DEF BridgeInv, BridgeTypes
<1>8. SlotsInv'
  <2>1. ASSUME NEW i \in 1..Len(backlog)
        PROVE  slotState'[backlog[i]] = "backlog"
    <3>1. backlog[i] \in Slots /\ slotState[backlog[i]] = "backlog"
      BY DEF BridgeInv, BridgeTypes, SlotsInv
    <3> QED
      BY <1>1, <1>3, <3>1
  <2>2. ASSUME NEW t \in Slots
        PROVE  /\ slotState'[t] # "free" => client[t] # 0 /\ slotErr'[t] = "ok"
               /\ slotState'[t] = "backlog" => Len(slotInbox[t]) = 0 /\ chunksSent[client[t]] = 0
    BY <1>3 DEF BridgeInv, SlotsInv
  <2> QED
    BY <1>2, <2>1, <2>2 DEF BridgeInv, SlotsInv
<1>9. OneOpen'
  BY <1>6 DEF OneOpen, Bridge!OneClient
<1>10. EventsInv'
  <2>1. ASSUME NEW t \in Slots
        PROVE  Times(uart_server_events', t) <= 0
    <3>1. CASE t = s
      <4>1. Times(uart_server_events, s) <= 1
        BY <1>1, <1>5 DEF BridgeInv, EventsInv
      <4> QED
        BY <1>4, <3>1, <4>1
    <3>2. CASE t # s
      BY <1>3, <1>4, <1>6, <3>2 DEF BridgeInv, EventsInv
    <3> QED
      BY <3>1, <3>2
  <2> QED
    BY <1>6, <2>1 DEF EventsInv
<1>11. ChunksInv'
  BY <1>6 DEF ChunksInv
<1>12. Bridge!BaudFirst'
  BY DEF BridgeInv, Bridge!BaudFirst
<1> QED
  BY <1>7, <1>8, <1>9, <1>10, <1>11, <1>12 DEF BridgeInv

LEMMA DataKeeps ==
    ASSUME BridgeInv, Bridge!Data
    PROVE  BridgeInv'
<1>1. PICK s \in Slots : s = Head(uart_server_events)
  BY DEF Bridge!Data
<1>2. PICK item : item = Head(slotInbox[s])
  OBVIOUS
<1>3. /\ Bridge!Take /\ Bridge!WriteUartData(s)
      /\ UNCHANGED << backlog, clients, chunksSent >>
      /\ slotState[s] = "open" /\ slotErr[s] = "ok" /\ slotInbox[s] # << >>
  BY <1>1, DataOfClient DEF Bridge!Data
<1>4. CASE item # Bridge!Fin
  <2>1. /\ slotInbox' = [ slotInbox EXCEPT ![s] = Tail(@) ] /\ uart_netconn' = s /\ Bridge!ToUart(item)
        /\ UNCHANGED << slotState, slotErr, client, is_conn_valid >>
    BY <1>1, <1>2, <1>3, <1>4 DEF Bridge!Data
  <2> QED
    BY <1>1, <1>2, <1>3, <1>4, <2>1, ChunkKeeps
<1>5. CASE item = Bridge!Fin
  <2>1. /\ Bridge!close_tcp_netconn(s) /\ uart_netconn' = Bridge!None /\ is_conn_valid' = FALSE
        /\ UNCHANGED << slotInbox, uart, baud, is_first_time_recv >>
    BY <1>1, <1>2, <1>3, <1>5 DEF Bridge!Data
  <2> QED
    BY <1>1, <1>2, <1>3, <1>5, <2>1, EndKeeps
<1> QED
  BY <1>4, <1>5

LEMMA BridgeStep ==
    ASSUME BridgeInv, Bridge!Next
    PROVE  BridgeInv'
<1>1. CASE \E s \in Slots : Bridge!Connect(s)
  BY <1>1, ConnectKeeps
<1>2. CASE \E s \in Slots : Bridge!Finish(s)
  BY <1>2, FinishKeeps
<1>3. CASE \E s \in Slots : \E b \in BOOLEAN : Bridge!Send(s, b)
  BY <1>3, SendKeeps
<1>4. CASE (\E s \in Slots : Bridge!Reset(s)) \/ Bridge!uart_bridge_close
  BY <1>4 DEF Bridge!Reset, Bridge!uart_bridge_close
<1>5. CASE Bridge!UartReceives \/ Bridge!Timeout
  BY <1>5, OthersKeep
<1>6. CASE Bridge!WifiDisconnected
  <2>1. PICK e : e = Head(uart_server_events)
    OBVIOUS
  <2>2. e = "wifi" /\ e \in Events
    BY <1>6, <2>1, EventTaken DEF Bridge!WifiDisconnected, BridgeInv
  <2> QED
    BY <2>2, BridgeSizes DEF Events
<1>7. CASE Bridge!Accept
  BY <1>7, AcceptKeeps
<1>8. CASE Bridge!Data
  BY <1>8, DataKeeps
<1> QED
  BY <1>1, <1>2, <1>3, <1>4, <1>5, <1>6, <1>7, <1>8 DEF Bridge!Next, Bridge!Lwip, Bridge!uart_bridge_task

LEMMA BridgeFollows ==
    ASSUME BridgeInv
    PROVE  Bridge!EventsFollow /\ Bridge!TypeOK
<1>1. 0..clients \subseteq Bridge!Clients \cup { Bridge!None }
  BY BridgeSizes DEF BridgeInv, BridgeTypes, Bridge!Clients, Bridge!None
<1> QED
  BY <1>1 DEF BridgeInv, BridgeTypes, OneOpen, Bridge!EventsFollow, Bridge!TypeOK

----------------------------------------------------------------------------
(* The server on netconns: each item that a client sent has its event, and *)
(* each client that waits to be accepted has one before those of its items.*)

Conns == Many!Clients
Kinds == { "DEVLIST", "IMPORT", "URB", Many!Fin }
Queue == Conns \cup { Many!Listen }

ServerTypes ==
    /\ xQueue_events \in Seq(Queue) /\ Len(xQueue_events) <= NetconnEvents
    /\ state \in [ Conns -> { "none", "backlog", "open", "closed" } ]
    /\ pending_err \in [ Conns -> { "ok", "RST", "CLSD" } ]
    /\ inbox \in [ Conns -> Seq(Kinds) ] /\ acceptmbox \in Seq(Conns)
    /\ kState \in { "ACCEPTING", "EMULATING" } /\ kNetconn \in Conns \cup { Many!None }
    /\ restarts \in Nat
    /\ requests \in [ Conns -> Seq(Kinds) ] /\ answers \in [ Conns -> Seq(Kinds) ]

LEMMA SameSets ==
    ASSUME NEW S
    PROVE  (OneByOne!IsFiniteSet(S) <=> IsFiniteSet(S)) /\ Many!Cardinality(S) = Cardinality(S)
<1>1. OneByOne!IsFiniteSet(S) <=> IsFiniteSet(S)
  BY DEF OneByOne!IsFiniteSet, IsFiniteSet
<1>2. Many!Cardinality(S) = Cardinality(S)
  BY Zenon DEF Many!Cardinality, Cardinality
<1> QED
  BY <1>1, <1>2

LEMMA ServerSizes ==
    /\ IsFiniteSet(Conns) /\ Many!Listen \notin Conns
    /\ NetconnEvents \in Nat \ {0} /\ RecvMbox \in Nat \ {0}
<1>1. OneByOne!NetconnAssumption
  BY PartsAssumption DEF PartsAssumption
<1>2. /\ OneByOne!IsFiniteSet(OneByOne!Clients) /\ "listen" \notin OneByOne!Clients
      /\ { NetconnEvents, RecvMbox } \subseteq Nat \ {0}
  BY <1>1 DEF OneByOne!NetconnAssumption
<1> QED
  BY <1>2, SameSets DEF OneByOne!Clients, Conns, Many!Clients, Many!Listen

(* What a client sends, with the event that lwIP queues for it. *)
Sends(c, request) ==
    /\ state[c] \in { "backlog", "open" } /\ pending_err[c] = "ok" /\ Len(inbox[c]) < RecvMbox
    /\ requests' = [ requests EXCEPT ![c] = Append(@, request) ]
    /\ inbox' = [ inbox EXCEPT ![c] = Append(@, request) ]
    /\ Many!xQueueSend(c)
    /\ UNCHANGED << state, pending_err, acceptmbox, kState, kNetconn, restarts, answers >>

LEMMA SendIs ==
    ASSUME NEW c \in Conns, Many!Send(c) \/ OneByOne!Send(c)
    PROVE  \E request \in Kinds : Sends(c, request)
<1>1. CASE Many!Send(c)
  <2>1. PICK request \in Many!Requests(c) :
            /\ requests' = [ requests EXCEPT ![c] = Append(@, request) ]
            /\ inbox' = [ inbox EXCEPT ![c] = Append(@, request) ]
    BY <1>1 DEF Many!Send
  <2>2. request \in Kinds
    BY DEF Many!Requests, Kinds
  <2>3. pending_err[c] = "ok"
    BY <1>1 DEF Many!Send, Many!Left
  <2> QED
    BY <1>1, <2>1, <2>2, <2>3 DEF Many!Send, Many!netCallback, Many!server, Sends
<1>2. CASE OneByOne!Send(c)
  <2>1. PICK request \in OneByOne!Requests(c) :
            /\ requests' = [ requests EXCEPT ![c] = Append(@, request) ]
            /\ inbox' = [ inbox EXCEPT ![c] = Append(@, request) ]
    BY <1>2 DEF OneByOne!Send
  <2>2. request \in Kinds
    BY DEF OneByOne!Requests, Kinds, OneByOne!Fin, Many!Fin
  <2>3. pending_err[c] = "ok"
    BY <1>2 DEF OneByOne!Send, OneByOne!Left
  <2> QED
    BY <1>2, <2>1, <2>2, <2>3
    DEF OneByOne!Send, OneByOne!netCallback, OneByOne!server, OneByOne!xQueueSend, Many!xQueueSend, Sends
<1> QED
  BY <1>1, <1>2

(* Clients that come one after the other take no other steps than those    *)
(* that come at once.                                                      *)
LEMMA AloneIsMany ==
    ASSUME OneByOne!Next
    PROVE  Many!Next \/ \E c \in Conns : OneByOne!Send(c)
<1> USE DEF Conns, Many!Clients, OneByOne!Clients, OneByOne!Listen, OneByOne!Fin, OneByOne!None,
            Many!Listen, Many!Fin, Many!None, OneByOne!netconns, Many!netconns, OneByOne!server, Many!server
<1>1. CASE OneByOne!Accept
  BY <1>1 DEF OneByOne!Accept, Many!Accept, OneByOne!Take, Many!Take, Many!Next, Many!tcp_netconn_task
<1>2. ASSUME NEW c \in Conns, OneByOne!Recv(c)
      PROVE  Many!Next
  <2>1. Many!Recv(c)
    BY <1>2 DEF OneByOne!Recv, Many!Recv, OneByOne!Take, Many!Take, OneByOne!Handle, Many!Handle
  <2> QED
    BY <2>1 DEF Many!Next, Many!tcp_netconn_task
<1>3. ASSUME NEW c \in Conns, OneByOne!Close(c)
      PROVE  Many!Next
  <2>1. Many!Close(c)
    BY <1>3 DEF OneByOne!Close, Many!Close, OneByOne!Take, Many!Take
  <2> QED
    BY <2>1 DEF Many!Next, Many!tcp_netconn_task
<1>4. ASSUME NEW c \in Conns, OneByOne!ClosedBefore(c)
      PROVE  Many!Next
  <2>1. Many!ClosedBefore(c)
    BY <1>4 DEF OneByOne!ClosedBefore, Many!ClosedBefore, OneByOne!Take, Many!Take
  <2> QED
    BY <2>1 DEF Many!Next, Many!tcp_netconn_task
<1>5. ASSUME NEW c \in Conns, OneByOne!Connect(c)
      PROVE  Many!Next
  <2>1. Many!Connect(c)
    BY <1>5 DEF OneByOne!Connect, Many!Connect, OneByOne!xQueueSend, Many!xQueueSend
  <2> QED
    BY <2>1 DEF Many!Next, Many!Lwip
<1>6. ASSUME NEW c \in Conns, OneByOne!Reset(c)
      PROVE  Many!Next
  BY <1>6 DEF OneByOne!Reset
<1> QED
  BY <1>1, <1>2, <1>3, <1>4, <1>5, <1>6 DEF OneByOne!Next, OneByOne!Lwip, OneByOne!tcp_netconn_task

(* An event is put in the queue, or dropped. *)
LEMMA QueueSent ==
    ASSUME ServerTypes, NEW e \in Queue, Many!xQueueSend(e)
    PROVE  /\ xQueue_events' \in Seq(Queue) /\ Len(xQueue_events') <= NetconnEvents
           /\ Len(xQueue_events) < NetconnEvents =>
                /\ xQueue_events' = Append(xQueue_events, e)
                /\ \A x \in Queue : Times(xQueue_events', x) = IF e = x THEN Times(xQueue_events, x) + 1
                                                                       ELSE Times(xQueue_events, x)
<1>1. CASE Len(xQueue_events) < NetconnEvents
  <2>1. xQueue_events' = Append(xQueue_events, e)
    BY <1>1 DEF Many!xQueueSend
  <2> QED
    BY <1>1, <2>1, ServerSizes, TimesAppend DEF ServerTypes
<1>2. CASE ~(Len(xQueue_events) < NetconnEvents)
  BY <1>2 DEF Many!xQueueSend, ServerTypes
<1> QED
  BY <1>1, <1>2

(* An event is taken from the queue. *)
LEMMA QueueTaken ==
    ASSUME ServerTypes, NEW e, Many!Take(e)
    PROVE  /\ e \in Queue /\ xQueue_events # << >> /\ xQueue_events[1] = e
           /\ xQueue_events' = Tail(xQueue_events)
           /\ xQueue_events' \in Seq(Queue) /\ Len(xQueue_events') = Len(xQueue_events) - 1
           /\ Len(xQueue_events) \in Nat \ {0} /\ Len(xQueue_events') <= NetconnEvents
           /\ \A i \in 1..Len(xQueue_events') : xQueue_events'[i] = xQueue_events[i + 1]
           /\ \A x \in Queue : Times(xQueue_events', x) = IF e = x THEN Times(xQueue_events, x) - 1
                                                                  ELSE Times(xQueue_events, x)
           /\ Times(xQueue_events, e) > 0
<1>1. /\ xQueue_events \in Seq(Queue) /\ xQueue_events # << >> /\ e = Head(xQueue_events)
      /\ xQueue_events' = Tail(xQueue_events) /\ Len(xQueue_events) <= NetconnEvents
  BY DEF ServerTypes, Many!Take
<1>2. /\ e \in Queue /\ xQueue_events' \in Seq(Queue) /\ Len(xQueue_events') = Len(xQueue_events) - 1
      /\ Len(xQueue_events) \in Nat \ {0} /\ xQueue_events[1] = e
      /\ \A i \in 1..Len(xQueue_events') : xQueue_events'[i] = xQueue_events[i + 1]
  BY <1>1
<1>3. \A x \in Queue : Times(xQueue_events', x) = IF e = x THEN Times(xQueue_events, x) - 1
                                                          ELSE Times(xQueue_events, x)
  BY <1>1, TimesTail
<1>4. Times(xQueue_events, e) > 0
  BY <1>1, TimesHead
<1> QED
  BY <1>1, <1>2, <1>3, <1>4, ServerSizes

LEMMA ServerTypesStep ==
    ASSUME ServerTypes, Many!Next \/ \E c \in Conns : OneByOne!Send(c)
    PROVE  ServerTypes'
<1> USE DEF Many!netconns, Many!server
<1>1. ASSUME NEW c \in Conns, NEW request \in Kinds, Sends(c, request)
      PROVE  ServerTypes'
  <2>1. xQueue_events' \in Seq(Queue) /\ Len(xQueue_events') <= NetconnEvents
    BY <1>1, QueueSent DEF Sends, Queue
  <2>2. /\ Append(requests[c], request) \in Seq(Kinds) /\ Append(inbox[c], request) \in Seq(Kinds)
    BY DEF ServerTypes
  <2>3. requests' \in [ Conns -> Seq(Kinds) ] /\ inbox' \in [ Conns -> Seq(Kinds) ]
    BY <1>1, <2>2 DEF ServerTypes, Sends
  <2> QED
    BY <1>1, <2>1, <2>3 DEF ServerTypes, Sends
<1>2. ASSUME NEW c \in Conns, Many!Connect(c)
      PROVE  ServerTypes'
  <2>1. xQueue_events' \in Seq(Queue) /\ Len(xQueue_events') <= NetconnEvents
    BY <1>2, QueueSent DEF Many!Connect, Queue
  <2>2. acceptmbox' \in Seq(Conns)
    BY <1>2 DEF Many!Connect, ServerTypes
  <2> QED
    BY <1>2, <2>1, <2>2 DEF ServerTypes, Many!Connect
<1>3. ASSUME NEW c \in Conns, Many!Reset(c)
      PROVE  ServerTypes'
  BY <1>3 DEF ServerTypes, Many!Reset
<1>4. CASE Many!Accept
  <2>1. xQueue_events' \in Seq(Queue) /\ Len(xQueue_events') <= NetconnEvents
    BY <1>4, QueueTaken DEF Many!Accept
  <2>2. PICK c : c = Head(acceptmbox)
    OBVIOUS
  <2>3. acceptmbox' \in Seq(Conns)
    BY <1>4 DEF Many!Accept, ServerTypes
  <2>4. state' = [ state EXCEPT ![c] = "open" ]
    BY <1>4, <2>2 DEF Many!Accept
  <2> QED
    BY <1>4, <2>1, <2>3, <2>4 DEF ServerTypes, Many!Accept
<1>5. ASSUME NEW c \in Conns, Many!Recv(c)
      PROVE  ServerTypes'
  <2>1. xQueue_events' \in Seq(Queue) /\ Len(xQueue_events') <= NetconnEvents
    BY <1>5, QueueTaken DEF Many!Recv
  <2>2. inbox[c] \in Seq(Kinds) /\ inbox[c] # << >> /\ answers[c] \in Seq(Kinds)
    BY <1>5 DEF ServerTypes, Many!Recv
  <2>3. Tail(inbox[c]) \in Seq(Kinds) /\ Append(answers[c], Head(inbox[c])) \in Seq(Kinds)
    BY <2>2
  <2>4. inbox' \in [ Conns -> Seq(Kinds) ]
    BY <1>5, <2>3 DEF ServerTypes, Many!Recv
  <2>5. answers' \in [ Conns -> Seq(Kinds) ]
    BY <1>5, <2>3 DEF ServerTypes, Many!Recv, Many!Handle
  <2>6. kState' = "EMULATING" /\ kNetconn' = c
    BY <1>5 DEF Many!Recv, Many!Handle
  <2> QED
    BY <1>5, <2>1, <2>4, <2>5, <2>6 DEF ServerTypes, Many!Recv
<1>6. ASSUME NEW c \in Conns, Many!Close(c)
      PROVE  ServerTypes'
  <2>1. xQueue_events' \in Seq(Queue) /\ Len(xQueue_events') <= NetconnEvents
    BY <1>6, QueueTaken DEF Many!Close
  <2>2. << >> \in Seq(Kinds)
    BY EmptySeq, Zenon
  <2>3. inbox' \in [ Conns -> Seq(Kinds) ]
    BY <1>6, <2>2 DEF ServerTypes, Many!Close
  <2>4. restarts' \in Nat /\ kState' \in { "ACCEPTING", "EMULATING" }
    BY <1>6 DEF ServerTypes, Many!Close
  <2>5. /\ state' \in [ Conns -> { "none", "backlog", "open", "closed" } ]
        /\ pending_err' \in [ Conns -> { "ok", "RST", "CLSD" } ]
    BY <1>6 DEF ServerTypes, Many!Close
  <2> QED
    BY <1>6, <2>1, <2>3, <2>4, <2>5 DEF ServerTypes, Many!Close
<1>7. ASSUME NEW c \in Conns, Many!ClosedBefore(c)
      PROVE  ServerTypes'
  <2>1. xQueue_events' \in Seq(Queue) /\ Len(xQueue_events') <= NetconnEvents
    BY <1>7, QueueTaken DEF Many!ClosedBefore
  <2> QED
    BY <1>7, <2>1 DEF ServerTypes, Many!ClosedBefore
<1>8. ASSUME NEW c \in Conns, Many!Send(c) \/ OneByOne!Send(c)
      PROVE  ServerTypes'
  BY <1>1, <1>8, SendIs
<1> QED
  BY <1>2, <1>3, <1>4, <1>5, <1>6, <1>7, <1>8 DEF Many!Next, Many!Lwip, Many!tcp_netconn_task, Conns

LEMMA ServerTypesInit == OneByOne!Init => ServerTypes
<1> SUFFICES ASSUME OneByOne!Init
             PROVE  ServerTypes
  OBVIOUS
<1>1. << >> \in Seq(Queue) /\ << >> \in Seq(Kinds) /\ << >> \in Seq(Conns) /\ Len(<< >>) = 0
  BY EmptySeq, Zenon
<1> QED
  BY <1>1, ServerSizes DEF ServerTypes, OneByOne!Init, OneByOne!Clients, Conns, Many!Clients, OneByOne!None, Many!None

LEMMA ServerTypesFollow ==
    ASSUME ServerTypes
    PROVE  OneByOne!TypeOK
BY DEF ServerTypes, OneByOne!TypeOK, OneByOne!Clients, Conns, Many!Clients, OneByOne!None, Many!None,
       Queue, OneByOne!Listen, Many!Listen

(* The queue has room for what lwIP keeps for the clients, and for their   *)
(* connections.                                                            *)
EventsFit == NetconnEvents >= Cardinality(Conns) * (RecvMbox + 1)

ConnsInv ==
    /\ \A c \in Conns :
        /\ state[c] = "none" => pending_err[c] = "ok" /\ Len(inbox[c]) = 0
        /\ pending_err[c] = "CLSD" <=> state[c] = "closed"
        /\ Len(inbox[c]) <= RecvMbox
    /\ \A i \in 1..Len(acceptmbox) :
        /\ state[acceptmbox[i]] = "backlog"
        /\ \A j \in 1..Len(acceptmbox) : acceptmbox[i] = acceptmbox[j] => i = j

EachEvent ==
    /\ \A c \in Conns :
        /\ Times(xQueue_events, c) <= RecvMbox
        /\ pending_err[c] = "ok" => Times(xQueue_events, c) = Len(inbox[c])
    /\ Times(xQueue_events, Many!Listen) = Len(acceptmbox)

(* f[k]: the place of the event of the k-th that waits. *)
InTurn(f) ==
    /\ f \in [ 1..Len(acceptmbox) -> 1..Len(xQueue_events) ]
    /\ \A k, l \in 1..Len(acceptmbox) : k < l => f[k] < f[l]
    /\ \A i \in 1..Len(xQueue_events) :
        xQueue_events[i] = Many!Listen <=> \E k \in 1..Len(acceptmbox) : f[k] = i
    /\ \A k \in 1..Len(acceptmbox) : \A i \in 1..Len(xQueue_events) :
        xQueue_events[i] = acceptmbox[k] => f[k] < i

Answers ==
    \A c \in Conns, request \in Kinds :
        Times(answers[c], request) + Times(inbox[c], request) <= Times(requests[c], request)

ServerInv ==
    /\ ServerTypes /\ ConnsInv /\ EachEvent /\ (\E f : InTurn(f)) /\ Answers
    /\ restarts = Cardinality({ c \in Conns : state[c] = "closed" })

LEMMA ServerInit == OneByOne!Init => ServerInv
<1> SUFFICES ASSUME OneByOne!Init
             PROVE  ServerInv
  OBVIOUS
<1>1. /\ xQueue_events = << >> /\ acceptmbox = << >> /\ restarts = 0 /\ Len(<< >>) = 0
      /\ \A c \in Conns : /\ state[c] = "none" /\ pending_err[c] = "ok" /\ inbox[c] = << >>
                          /\ requests[c] = << >> /\ answers[c] = << >>
  BY DEF OneByOne!Init, OneByOne!Clients, Conns, Many!Clients
<1>2. ConnsInv
  BY <1>1, ServerSizes DEF ConnsInv
<1>3. EachEvent
  BY <1>1, TimesEmpty, ServerSizes DEF EachEvent
<1>4. InTurn([ k \in 1..0 |-> 1 ])
  BY <1>1 DEF InTurn
<1>5. Answers
  BY <1>1, TimesEmpty DEF Answers
<1>6. { c \in Conns : state[c] = "closed" } = {}
  BY <1>1
<1>7. restarts = Cardinality({ c \in Conns : state[c] = "closed" })
  BY <1>1, <1>6, FS_EmptySet
<1> QED
  BY <1>2, <1>3, <1>4, <1>5, <1>7, ServerTypesInit DEF ServerInv

LEMMA FewWait ==
    ASSUME ServerTypes, ConnsInv
    PROVE  /\ Cardinality(Conns) \in Nat /\ Len(acceptmbox) \in Nat
           /\ Len(acceptmbox) <= Cardinality(Conns)
           /\ \A c \in Conns : state[c] = "none" => Len(acceptmbox) < Cardinality(Conns)
<1>1. acceptmbox \in Seq(Conns) /\ \A i, j \in 1..Len(acceptmbox) : acceptmbox[i] = acceptmbox[j] => i = j
  BY DEF ServerTypes, ConnsInv
<1>2. Cardinality(Conns) \in Nat
  BY ServerSizes, FS_CardinalityType
<1>3. Len(acceptmbox) <= Cardinality(Conns)
  BY <1>1, ServerSizes, OnceEach
<1>4. ASSUME NEW c \in Conns, state[c] = "none"
      PROVE  Len(acceptmbox) < Cardinality(Conns)
  <2>1. acceptmbox \in Seq(Conns \ {c})
    <3>1. \A i \in 1..Len(acceptmbox) : acceptmbox[i] \in Conns \ {c}
      BY <1>1, <1>4 DEF ConnsInv
    <3> QED
      BY <1>1, <3>1, SeqDef
  <2>2. IsFiniteSet(Conns \ {c}) /\ Cardinality(Conns \ {c}) = Cardinality(Conns) - 1
    BY ServerSizes, FS_RemoveElement
  <2>3. Len(acceptmbox) <= Cardinality(Conns \ {c})
    BY <1>1, <2>1, <2>2, OnceEach
  <2> QED
    BY <1>1, <1>2, <2>2, <2>3
<1> QED
  BY <1>1, <1>2, <1>3, <1>4

LEMMA QueueFits ==
    ASSUME EventsFit, ServerTypes, ConnsInv, EachEvent, NEW e \in Queue,
           \/ e \in Conns /\ Times(xQueue_events, e) < RecvMbox
           \/ e = Many!Listen /\ Len(acceptmbox) < Cardinality(Conns)
    PROVE  Len(xQueue_events) < NetconnEvents
<1>1. xQueue_events \in Seq(Queue) /\ Len(xQueue_events) \in Nat
  BY DEF ServerTypes
<1>2. PICK q : q = Append(xQueue_events, e)
  OBVIOUS
<1>3. q \in Seq(Queue) /\ Len(q) = Len(xQueue_events) + 1
  BY <1>1, <1>2
<1>4. \A x : Times(q, x) = IF e = x THEN Times(xQueue_events, x) + 1 ELSE Times(xQueue_events, x)
  BY <1>1, <1>2, TimesAppend
<1>5. \A x : Times(xQueue_events, x) \in Nat
  BY <1>1, TimesType
<1>6. ASSUME NEW c \in Conns
      PROVE  Times(q, c) <= RecvMbox
  <2>1. c # Many!Listen /\ Times(xQueue_events, c) <= RecvMbox
    BY ServerSizes DEF EachEvent
  <2> QED
    BY <1>4, <1>5, <2>1, ServerSizes
<1>7. Times(q, Many!Listen) <= Cardinality(Conns)
  BY <1>4, <1>5, FewWait, ServerSizes DEF EachEvent
<1>8. Len(q) <= Cardinality(Conns) * RecvMbox + Cardinality(Conns)
  BY <1>3, <1>6, <1>7, FewWait, ServerSizes, Room DEF Queue
<1>9. Cardinality(Conns) * (RecvMbox + 1) = Cardinality(Conns) * RecvMbox + Cardinality(Conns)
  BY FewWait, ServerSizes
<1>10. Cardinality(Conns) * (RecvMbox + 1) \in Nat /\ Cardinality(Conns) * RecvMbox \in Nat
  BY FewWait, ServerSizes
<1> QED
  BY <1>1, <1>3, <1>8, <1>9, <1>10, FewWait, ServerSizes DEF EventsFit

(* An item's event comes after those of all that wait. *)
LEMMA TurnAfterItem ==
    ASSUME ServerTypes, NEW f, InTurn(f), NEW c \in Conns,
           xQueue_events' = Append(xQueue_events, c), acceptmbox' = acceptmbox
    PROVE  InTurn(f)'
<1>1. PICK n \in Nat : n = Len(xQueue_events)
  BY DEF ServerTypes
<1>2. /\ Len(xQueue_events') = n + 1 /\ xQueue_events'[n + 1] = c
      /\ \A i \in 1..n : xQueue_events'[i] = xQueue_events[i]
  BY <1>1 DEF ServerTypes, Queue
<1>3. c # Many!Listen
  BY ServerSizes
<1>4. PICK m \in Nat : m = Len(acceptmbox) /\ m = Len(acceptmbox')
  BY DEF ServerTypes
<1>5. \A k \in 1..m : f[k] \in 1..n
  BY <1>1, <1>4 DEF InTurn
<1>6. f \in [ 1..m -> 1..(n + 1) ]
  BY <1>1, <1>4, <1>5 DEF InTurn
<1>7. ASSUME NEW i \in 1..(n + 1)
      PROVE  /\ xQueue_events'[i] = Many!Listen <=> \E k \in 1..m : f[k] = i
             /\ \A k \in 1..m : xQueue_events'[i] = acceptmbox[k] => f[k] < i
  <2>1. CASE i = n + 1
    BY <1>2, <1>3, <1>5, <2>1
  <2>2. CASE i \in 1..n
    BY <1>1, <1>2, <1>4, <2>2 DEF InTurn
  <2>3. i = n + 1 \/ i \in 1..n
    OBVIOUS
  <2> QED
    BY <2>1, <2>2, <2>3
<1>8. \A k, l \in 1..m : k < l => f[k] < f[l]
  BY <1>4 DEF InTurn
<1> QED
  BY <1>2, <1>4, <1>6, <1>7, <1>8 DEF InTurn

(* An event that was taken was of none that waits, and theirs move up. *)
LEMMA TurnTaken ==
    ASSUME ServerTypes, NEW f, InTurn(f), NEW c \in Conns, Many!Take(c), acceptmbox' = acceptmbox
    PROVE  /\ \A k \in 1..Len(acceptmbox) : acceptmbox[k] # c
           /\ \E g : InTurn(g)'
<1>1. PICK n \in Nat : n = Len(xQueue_events)
  BY DEF ServerTypes
<1>2. /\ Len(xQueue_events') = n - 1 /\ n # 0 /\ xQueue_events[1] = c
      /\ \A i \in 1..(n - 1) : xQueue_events'[i] = xQueue_events[i + 1]
  BY <1>1, QueueTaken
<1>3. PICK m \in Nat : m = Len(acceptmbox) /\ m = Len(acceptmbox')
  BY DEF ServerTypes
<1>4. \A k \in 1..m : f[k] \in 1..n /\ f[k] # 1
  BY <1>1, <1>2, <1>3, ServerSizes DEF InTurn
<1>5. \A k \in 1..m : acceptmbox[k] # c
  <2>1. 1 \in 1..n
    BY <1>2
  <2>2. ASSUME NEW k \in 1..m, acceptmbox[k] = c
        PROVE  FALSE
    <3>1. f[k] < 1
      BY <1>1, <1>2, <1>3, <2>1, <2>2 DEF InTurn
    <3> QED
      BY <1>4, <3>1
  <2> QED
    BY <2>2
<1>6. PICK g : g = [ k \in 1..m |-> f[k] - 1 ]
  OBVIOUS
<1>7. g \in [ 1..m -> 1..(n - 1) ] /\ \A k \in 1..m : g[k] + 1 = f[k] /\ g[k] \in 1..(n - 1)
  BY <1>4, <1>6
<1>8. \A k, l \in 1..m : k < l => g[k] < g[l]
  <2>1. \A k, l \in 1..m : k < l => f[k] < f[l]
    BY <1>3 DEF InTurn
  <2> QED
    BY <1>4, <1>6, <2>1
<1>9. ASSUME NEW i \in 1..(n - 1)
      PROVE  /\ xQueue_events'[i] = Many!Listen <=> \E k \in 1..m : g[k] = i
             /\ \A k \in 1..m : xQueue_events'[i] = acceptmbox[k] => g[k] < i
  <2>1. i + 1 \in 1..n /\ xQueue_events'[i] = xQueue_events[i + 1]
    BY <1>2
  <2>2. /\ xQueue_events[i + 1] = Many!Listen <=> \E k \in 1..m : f[k] = i + 1
        /\ \A k \in 1..m : xQueue_events[i + 1] = acceptmbox[k] => f[k] < i + 1
    BY <1>1, <1>3, <2>1 DEF InTurn
  <2>3. \A k \in 1..m : (f[k] = i + 1 <=> g[k] = i) /\ (f[k] < i + 1 <=> g[k] < i)
    BY <1>7
  <2> QED
    BY <2>1, <2>2, <2>3
<1>10. InTurn(g)'
  BY <1>2, <1>3, <1>7, <1>8, <1>9 DEF InTurn
<1> QED
  BY <1>3, <1>5, <1>10

(* A new one waits with the last event of all; nothing is there of it yet. *)
LEMMA TurnAfterConnect ==
    ASSUME ServerTypes, NEW f, InTurn(f), NEW c \in Conns,
           \A i \in 1..Len(xQueue_events) : xQueue_events[i] # c,
           xQueue_events' = Append(xQueue_events, Many!Listen), acceptmbox' = Append(acceptmbox, c)
    PROVE  \E g : InTurn(g)'
<1>1. PICK n \in Nat : n = Len(xQueue_events)
  BY DEF ServerTypes
<1>2. /\ Len(xQueue_events') = n + 1 /\ xQueue_events'[n + 1] = Many!Listen
      /\ \A i \in 1..n : xQueue_events'[i] = xQueue_events[i] /\ xQueue_events[i] # c
  BY <1>1 DEF ServerTypes, Queue
<1>3. PICK m \in Nat : m = Len(acceptmbox)
  BY DEF ServerTypes
<1>4. /\ Len(acceptmbox') = m + 1 /\ acceptmbox'[m + 1] = c
      /\ \A k \in 1..m : acceptmbox'[k] = acceptmbox[k] /\ acceptmbox[k] \in Conns
  BY <1>3 DEF ServerTypes
<1>5. \A k \in 1..m : f[k] \in 1..n
  BY <1>1, <1>3 DEF InTurn
<1>6. PICK g : g = [ k \in 1..(m + 1) |-> IF k = m + 1 THEN n + 1 ELSE f[k] ]
  OBVIOUS
<1>7. /\ g \in [ 1..(m + 1) -> 1..(n + 1) ] /\ g[m + 1] = n + 1
      /\ \A k \in 1..m : g[k] = f[k]
  BY <1>5, <1>6
<1>8. \A k, l \in 1..(m + 1) : k < l => g[k] < g[l]
  <2>1. SUFFICES ASSUME NEW k \in 1..(m + 1), NEW l \in 1..(m + 1), k < l
                 PROVE  g[k] < g[l]
    OBVIOUS
  <2>2. k \in 1..m
    BY <2>1
  <2>3. CASE l = m + 1
    BY <1>5, <1>7, <2>2, <2>3
  <2>4. CASE l \in 1..m
    BY <1>3, <1>7, <2>1, <2>2, <2>4 DEF InTurn
  <2> QED
    BY <2>3, <2>4
<1>9. ASSUME NEW i \in 1..(n + 1)
      PROVE  /\ xQueue_events'[i] = Many!Listen <=> \E k \in 1..(m + 1) : g[k] = i
             /\ \A k \in 1..(m + 1) : xQueue_events'[i] = acceptmbox'[k] => g[k] < i
  <2>1. CASE i = n + 1
    <3>1. m + 1 \in 1..(m + 1)
      OBVIOUS
    <3>2. \A k \in 1..(m + 1) : acceptmbox'[k] # Many!Listen
      BY <1>4, ServerSizes
    <3> QED
      BY <1>2, <1>7, <2>1, <3>1, <3>2
  <2>2. CASE i \in 1..n
    <3>1. /\ xQueue_events[i] = Many!Listen <=> \E k \in 1..m : f[k] = i
          /\ \A k \in 1..m : xQueue_events[i] = acceptmbox[k] => f[k] < i
      BY <1>1, <1>3, <2>2 DEF InTurn
    <3>2. \A k \in 1..(m + 1) : k = m + 1 \/ k \in 1..m
      OBVIOUS
    <3>3. xQueue_events'[i] = xQueue_events[i] /\ xQueue_events[i] # c /\ g[m + 1] # i
      BY <1>2, <1>7, <2>2
    <3>4. (\E k \in 1..m : f[k] = i) <=> \E k \in 1..(m + 1) : g[k] = i
      <4>1. ASSUME NEW k \in 1..m, f[k] = i
            PROVE  k \in 1..(m + 1) /\ g[k] = i
        BY <1>7, <4>1
      <4>2. ASSUME NEW k \in 1..(m + 1), g[k] = i
            PROVE  k \in 1..m /\ f[k] = i
        <5>1. k \in 1..m
          BY <3>2, <3>3, <4>2
        <5> QED
          BY <1>7, <4>2, <5>1
      <4> QED
        BY <4>1, <4>2
    <3>5. ASSUME NEW k \in 1..(m + 1), xQueue_events'[i] = acceptmbox'[k]
          PROVE  g[k] < i
      <4>1. k # m + 1
        BY <1>4, <3>3, <3>5
      <4>2. k \in 1..m
        BY <4>1
      <4> QED
        BY <1>4, <1>7, <3>1, <3>3, <3>5, <4>2
    <3> QED
      BY <3>1, <3>3, <3>4, <3>5
  <2>3. i = n + 1 \/ i \in 1..n
    OBVIOUS
  <2> QED
    BY <2>1, <2>2, <2>3
<1>10. InTurn(g)'
  BY <1>2, <1>4, <1>7, <1>8, <1>9 DEF InTurn
<1> QED
  BY <1>10

(* The first that waits is accepted at the first of their events. *)
LEMMA TurnAccepted ==
    ASSUME ServerTypes, NEW f, InTurn(f), Many!Take(Many!Listen), acceptmbox # << >>,
           acceptmbox' = Tail(acceptmbox)
    PROVE  \E g : InTurn(g)'
<1>1. PICK n \in Nat : n = Len(xQueue_events)
  BY DEF ServerTypes
<1>2. /\ Len(xQueue_events') = n - 1 /\ n # 0 /\ xQueue_events[1] = Many!Listen
      /\ \A i \in 1..(n - 1) : xQueue_events'[i] = xQueue_events[i + 1]
  BY <1>1, QueueTaken
<1>3. PICK m \in Nat \ {0} : m = Len(acceptmbox)
  BY DEF ServerTypes
<1>4. Len(acceptmbox') = m - 1 /\ \A k \in 1..(m - 1) : acceptmbox'[k] = acceptmbox[k + 1]
  BY <1>3 DEF ServerTypes
<1>5. \A k \in 1..m : f[k] \in 1..n
  BY <1>1, <1>3 DEF InTurn
<1>6. \A k, l \in 1..m : k < l => f[k] < f[l]
  BY <1>3 DEF InTurn
<1>7. f[1] = 1
  <2>1. PICK k \in 1..m : f[k] = 1
    BY <1>1, <1>2, <1>3 DEF InTurn
  <2>2. 1 < k => f[1] < 1
    BY <1>6, <2>1
  <2> QED
    BY <1>5, <2>1, <2>2
<1>8. \A k \in 2..m : f[k] \in 2..n
  BY <1>5, <1>6, <1>7
<1>9. PICK g : g = [ k \in 1..(m - 1) |-> f[k + 1] - 1 ]
  OBVIOUS
<1>10. \A k \in 1..(m - 1) : k + 1 \in 2..m /\ k + 1 \in 1..m /\ f[k + 1] \in 2..n
  BY <1>8
<1>11. g \in [ 1..(m - 1) -> 1..(n - 1) ]
       /\ \A k \in 1..(m - 1) : g[k] + 1 = f[k + 1] /\ g[k] \in 1..(n - 1)
  BY <1>9, <1>10
<1>12. \A k, l \in 1..(m - 1) : k < l => g[k] < g[l]
  <2>1. SUFFICES ASSUME NEW k \in 1..(m - 1), NEW l \in 1..(m - 1), k < l
                 PROVE  g[k] < g[l]
    OBVIOUS
  <2>2. f[k + 1] < f[l + 1]
    BY <1>6, <1>10, <2>1
  <2> QED
    BY <1>10, <1>11, <2>2
<1>13. ASSUME NEW i \in 1..(n - 1)
       PROVE  /\ xQueue_events'[i] = Many!Listen <=> \E k \in 1..(m - 1) : g[k] = i
              /\ \A k \in 1..(m - 1) : xQueue_events'[i] = acceptmbox'[k] => g[k] < i
  <2>1. i + 1 \in 1..n /\ xQueue_events'[i] = xQueue_events[i + 1]
    BY <1>2
  <2>2. /\ xQueue_events[i + 1] = Many!Listen <=> \E k \in 1..m : f[k] = i + 1
        /\ \A k \in 1..m : xQueue_events[i + 1] = acceptmbox[k] => f[k] < i + 1
    BY <1>1, <1>3, <2>1 DEF InTurn
  <2>3. (\E k \in 1..m : f[k] = i + 1) <=> \E k \in 1..(m - 1) : g[k] = i
    <3>1. ASSUME NEW k \in 1..m, f[k] = i + 1
          PROVE  \E l \in 1..(m - 1) : g[l] = i
      <4>1. k # 1
        BY <1>7, <3>1
      <4>2. k - 1 \in 1..(m - 1) /\ (k - 1) + 1 = k
        BY <4>1
      <4>3. g[k - 1] + 1 = f[k] /\ g[k - 1] \in 1..(n - 1)
        BY <1>11, <4>2
      <4>4. g[k - 1] = i
        BY <3>1, <4>3
      <4> QED
        BY <4>2, <4>4
    <3>2. ASSUME NEW k \in 1..(m - 1), g[k] = i
          PROVE  \E l \in 1..m : f[l] = i + 1
      BY <1>10, <1>11, <3>2
    <3> QED
      BY <3>1, <3>2
  <2>4. ASSUME NEW k \in 1..(m - 1), xQueue_events'[i] = acceptmbox'[k]
        PROVE  g[k] < i
    <3>1. k + 1 \in 1..m /\ xQueue_events[i + 1] = acceptmbox[k + 1]
      BY <1>4, <1>10, <2>1, <2>4
    <3>2. f[k + 1] < i + 1
      BY <2>2, <3>1
    <3>3. g[k] + 1 = f[k + 1] /\ g[k] \in 1..(n - 1)
      BY <1>11
    <3> QED
      BY <3>2, <3>3
  <2> QED
    BY <2>1, <2>2, <2>3, <2>4
<1>14. InTurn(g)'
  BY <1>2, <1>4, <1>11, <1>12, <1>13 DEF InTurn
<1> QED
  BY <1>14

LEMMA ServerSends ==
    ASSUME EventsFit, ServerInv, NEW c \in Conns, NEW request \in Kinds, Sends(c, request)
    PROVE  ServerInv'
<1>1. ServerTypes /\ ConnsInv /\ EachEvent /\ Answers
  BY DEF ServerInv
<1>2. ServerTypes'
  <2>1. xQueue_events' \in Seq(Queue) /\ Len(xQueue_events') <= NetconnEvents
    BY <1>1, QueueSent DEF Sends, Queue
  <2>2. /\ Append(requests[c], request) \in Seq(Kinds) /\ Append(inbox[c], request) \in Seq(Kinds)
    BY <1>1 DEF ServerTypes
  <2>3. requests' \in [ Conns -> Seq(Kinds) ] /\ inbox' \in [ Conns -> Seq(Kinds) ]
    BY <1>1, <2>2 DEF ServerTypes, Sends
  <2> QED
    BY <1>1, <2>1, <2>3 DEF ServerTypes, Sends
<1>3. /\ Times(xQueue_events, c) = Len(inbox[c]) /\ Len(inbox[c]) < RecvMbox /\ Len(inbox[c]) \in Nat
      /\ state[c] \in { "backlog", "open" } /\ pending_err[c] = "ok" /\ c \in Queue /\ c # Many!Listen
  BY <1>1, ServerSizes DEF EachEvent, Sends, ServerTypes, Queue
<1>4. Len(xQueue_events) < NetconnEvents
  BY <1>1, <1>3, QueueFits
<1>5. /\ xQueue_events' = Append(xQueue_events, c)
      /\ \A x \in Queue : Times(xQueue_events', x) = IF c = x THEN Times(xQueue_events, x) + 1
                                                             ELSE Times(xQueue_events, x)
  BY <1>1, <1>3, <1>4, QueueSent DEF Sends
<1>6. /\ inbox'[c] = Append(inbox[c], request) /\ Len(inbox'[c]) = Len(inbox[c]) + 1
      /\ requests'[c] = Append(requests[c], request)
      /\ \A d \in Conns \ {c} : inbox'[d] = inbox[d] /\ requests'[d] = requests[d]
      /\ UNCHANGED << state, pending_err, acceptmbox, restarts, answers >>
  BY <1>1 DEF Sends, ServerTypes
<1>7. ConnsInv'
  <2>1. ASSUME NEW d \in Conns
        PROVE  (state[d] = "none" => Len(inbox'[d]) = 0) /\ Len(inbox'[d]) <= RecvMbox
    <3>1. CASE d = c
      BY <1>3, <1>6, <3>1, ServerSizes
    <3>2. CASE d # c
      BY <1>1, <1>6, <3>2 DEF ConnsInv
    <3> QED
      BY <3>1, <3>2
  <2> QED
    BY <1>1, <1>6, <2>1 DEF ConnsInv
<1>8. EachEvent'
  <2>1. ASSUME NEW d \in Conns
        PROVE  /\ Times(xQueue_events', d) <= RecvMbox
               /\ pending_err[d] = "ok" => Times(xQueue_events', d) = Len(inbox'[d])
    <3>1. CASE d = c
      BY <1>3, <1>5, <1>6, <3>1, ServerSizes
    <3>2. CASE d # c
      BY <1>1, <1>5, <1>6, <3>2 DEF EachEvent, Queue
    <3> QED
      BY <3>1, <3>2
  <2>2. Times(xQueue_events', Many!Listen) = Len(acceptmbox)
    BY <1>1, <1>3, <1>5 DEF EachEvent, Queue
  <2> QED
    BY <1>6, <2>1, <2>2 DEF EachEvent
<1>9. \E f : InTurn(f)'
  BY <1>1, <1>5, <1>6, TurnAfterItem DEF ServerInv
<1>10. Answers'
  <2>1. ASSUME NEW d \in Conns, NEW r \in Kinds
        PROVE  Times(answers[d], r) + Times(inbox'[d], r) <= Times(requests'[d], r)
    <3>1. Times(answers[d], r) + Times(inbox[d], r) <= Times(requests[d], r)
      BY <1>1 DEF Answers
    <3>2. CASE d = c
      <4>1. /\ Times(inbox'[c], r) = IF request = r THEN Times(inbox[c], r) + 1 ELSE Times(inbox[c], r)
            /\ Times(requests'[c], r) = IF request = r THEN Times(requests[c], r) + 1 ELSE Times(requests[c], r)
        BY <1>1, <1>6, TimesAppend DEF ServerTypes
      <4>2. Times(answers[c], r) \in Nat /\ Times(inbox[c], r) \in Nat /\ Times(requests[c], r) \in Nat
        BY <1>1, TimesType DEF ServerTypes
      <4> QED
        BY <3>1, <3>2, <4>1, <4>2
    <3>3. CASE d # c
      BY <1>6, <3>1, <3>3
    <3> QED
      BY <3>2, <3>3
  <2> QED
    BY <1>6, <2>1 DEF Answers
<1>11. restarts' = Cardinality({ d \in Conns : state'[d] = "closed" })
  BY <1>6 DEF ServerInv
<1> QED
  BY <1>2, <1>7, <1>8, <1>9, <1>10, <1>11 DEF ServerInv

LEMMA ServerConnects ==
    ASSUME EventsFit, ServerInv, NEW c \in Conns, Many!Connect(c)
    PROVE  ServerInv'
<1>1. ServerTypes /\ ConnsInv /\ EachEvent /\ Answers /\ ServerTypes'
  BY ServerTypesStep DEF ServerInv, Many!Next, Many!Lwip, Conns
<1>2. /\ state[c] = "none" /\ state' = [ state EXCEPT ![c] = "backlog" ]
      /\ acceptmbox' = Append(acceptmbox, c) /\ Many!xQueueSend(Many!Listen)
      /\ UNCHANGED << pending_err, inbox, restarts, answers, requests >>
      /\ Many!Listen \in Queue /\ \A d \in Conns : d # Many!Listen /\ d \in Queue
  BY ServerSizes DEF Many!Connect, Many!server, Queue
<1>3. Len(xQueue_events) < NetconnEvents
  <2>1. Len(acceptmbox) < Cardinality(Conns)
    BY <1>1, <1>2, FewWait
  <2> QED
    BY <1>1, <1>2, <2>1, QueueFits
<1>4. /\ xQueue_events' = Append(xQueue_events, Many!Listen)
      /\ \A x \in Queue : Times(xQueue_events', x) = IF Many!Listen = x THEN Times(xQueue_events, x) + 1
                                                                     ELSE Times(xQueue_events, x)
  BY <1>1, <1>2, <1>3, QueueSent
<1>5. state'[c] = "backlog" /\ \A d \in Conns \ {c} : state'[d] = state[d]
  BY <1>1, <1>2 DEF ServerTypes
<1>6. /\ Len(acceptmbox) \in Nat /\ Len(acceptmbox') = Len(acceptmbox) + 1 /\ acceptmbox'[Len(acceptmbox) + 1] = c
      /\ \A i \in 1..Len(acceptmbox) : acceptmbox'[i] = acceptmbox[i] /\ acceptmbox[i] \in Conns
                                       /\ acceptmbox[i] # c /\ state[acceptmbox[i]] = "backlog"
  <2>1. acceptmbox \in Seq(Conns)
    BY <1>1 DEF ServerTypes
  <2>2. \A i \in 1..Len(acceptmbox) : state[acceptmbox[i]] = "backlog"
    BY <1>1 DEF ConnsInv
  <2> QED
    BY <1>2, <2>1, <2>2
<1>7. ConnsInv'
  <2>1. ASSUME NEW d \in Conns
        PROVE  /\ state'[d] = "none" => pending_err[d] = "ok" /\ Len(inbox[d]) = 0
               /\ pending_err[d] = "CLSD" <=> state'[d] = "closed"
               /\ Len(inbox[d]) <= RecvMbox
    <3>1. CASE d = c
      BY <1>1, <1>2, <1>5, <3>1 DEF ConnsInv
    <3>2. CASE d # c
      BY <1>1, <1>5, <3>2 DEF ConnsInv
    <3> QED
      BY <3>1, <3>2
  <2>2. ASSUME NEW i \in 1..Len(acceptmbox')
        PROVE  /\ state'[acceptmbox'[i]] = "backlog"
               /\ \A j \in 1..Len(acceptmbox') : acceptmbox'[i] = acceptmbox'[j] => i = j
    <3>1. \A j \in 1..Len(acceptmbox') : j = Len(acceptmbox) + 1 \/ j \in 1..Len(acceptmbox)
      BY <1>6
    <3>2. CASE i = Len(acceptmbox) + 1
      BY <1>5, <1>6, <3>1, <3>2
    <3>3. CASE i \in 1..Len(acceptmbox)
      <4>1. \A j \in 1..Len(acceptmbox) : acceptmbox[i] = acceptmbox[j] => i = j
        BY <1>1, <3>3 DEF ConnsInv
      <4> QED
        BY <1>5, <1>6, <3>1, <3>3, <4>1
    <3> QED
      BY <3>1, <3>2, <3>3
  <2> QED
    BY <1>2, <2>1, <2>2 DEF ConnsInv
<1>8. EachEvent'
  BY <1>1, <1>2, <1>4, <1>6 DEF EachEvent
<1>9. \E f : InTurn(f)'
  <2>1. Times(xQueue_events, c) = 0
    BY <1>1, <1>2 DEF ConnsInv, EachEvent
  <2>2. \A i \in 1..Len(xQueue_events) : xQueue_events[i] # c
    BY <1>1, <2>1, TimesType DEF ServerTypes
  <2> QED
    BY <1>1, <1>2, <1>4, <2>2, TurnAfterConnect DEF ServerInv
<1>10. { d \in Conns : state'[d] = "closed" } = { d \in Conns : state[d] = "closed" }
  BY <1>2, <1>5
<1>11. Answers' /\ restarts' = Cardinality({ d \in Conns : state'[d] = "closed" })
  BY <1>1, <1>2, <1>10 DEF Answers, ServerInv
<1> QED
  BY <1>1, <1>7, <1>8, <1>9, <1>11 DEF ServerInv

LEMMA ServerReset ==
    ASSUME ServerInv, NEW c \in Conns, Many!Reset(c)
    PROVE  ServerInv'
<1>1. ServerTypes /\ ConnsInv /\ EachEvent /\ Answers /\ ServerTypes'
  BY ServerTypesStep DEF ServerInv, Many!Next, Many!Lwip, Conns
<1>2. /\ state[c] \in { "backlog", "open" } /\ pending_err[c] = "ok"
      /\ pending_err' = [ pending_err EXCEPT ![c] = "RST" ]
      /\ UNCHANGED << xQueue_events, state, inbox, acceptmbox, restarts, answers, requests >>
  BY DEF Many!Reset, Many!server
<1>3. pending_err'[c] = "RST" /\ \A d \in Conns \ {c} : pending_err'[d] = pending_err[d]
  BY <1>1, <1>2 DEF ServerTypes
<1>4. ConnsInv' /\ EachEvent'
  BY <1>1, <1>2, <1>3 DEF ConnsInv, EachEvent
<1>5. \E f : InTurn(f)'
  <2>1. PICK f : InTurn(f)
    BY DEF ServerInv
  <2>2. InTurn(f)'
    BY <1>2, <2>1 DEF InTurn
  <2> QED
    BY <2>2
<1>6. Answers' /\ restarts' = Cardinality({ d \in Conns : state'[d] = "closed" })
  BY <1>1, <1>2 DEF Answers, ServerInv
<1> QED
  BY <1>1, <1>4, <1>5, <1>6 DEF ServerInv

LEMMA ServerAccepts ==
    ASSUME ServerInv, Many!Accept
    PROVE  ServerInv'
<1>1. ServerTypes /\ ConnsInv /\ EachEvent /\ Answers /\ ServerTypes'
  BY ServerTypesStep DEF ServerInv, Many!Next, Many!tcp_netconn_task, Conns
<1>2. PICK c : c = Head(acceptmbox)
  OBVIOUS
<1>3. /\ Many!Take(Many!Listen) /\ acceptmbox # << >> /\ acceptmbox' = Tail(acceptmbox)
      /\ state' = [ state EXCEPT ![c] = "open" ]
      /\ UNCHANGED << pending_err, inbox, restarts, answers, requests >>
  BY <1>2 DEF Many!Accept, Many!server
<1>4. /\ Len(acceptmbox) \in Nat \ {0} /\ acceptmbox[1] = c /\ c \in Conns
      /\ Len(acceptmbox') = Len(acceptmbox) - 1
      /\ \A i \in 1..Len(acceptmbox') : i + 1 \in 1..Len(acceptmbox) /\ acceptmbox'[i] = acceptmbox[i + 1]
      /\ \A i \in 1..Len(acceptmbox') : acceptmbox'[i] \in Conns
  BY <1>1, <1>2, <1>3 DEF ServerTypes
<1>5. state[c] = "backlog" /\ \A i \in 1..Len(acceptmbox') : acceptmbox'[i] # c
  BY <1>1, <1>4 DEF ConnsInv
<1>6. state'[c] = "open" /\ \A d \in Conns \ {c} : state'[d] = state[d]
  BY <1>1, <1>3, <1>4 DEF ServerTypes
<1>7. \A x \in Queue : Times(xQueue_events', x) = IF Many!Listen = x THEN Times(xQueue_events, x) - 1
                                                                  ELSE Times(xQueue_events, x)
  BY <1>1, <1>3, QueueTaken
<1>8. ConnsInv'
  <2>1. ASSUME NEW d \in Conns
        PROVE  /\ state'[d] = "none" => pending_err[d] = "ok" /\ Len(inbox[d]) = 0
               /\ pending_err[d] = "CLSD" <=> state'[d] = "closed"
               /\ Len(inbox[d]) <= RecvMbox
    <3>1. CASE d = c
      BY <1>1, <1>5, <1>6, <3>1 DEF ConnsInv
    <3>2. CASE d # c
      BY <1>1, <1>6, <3>2 DEF ConnsInv
    <3> QED
      BY <3>1, <3>2
  <2>2. ASSUME NEW i \in 1..Len(acceptmbox')
        PROVE  /\ state'[acceptmbox'[i]] = "backlog"
               /\ \A j \in 1..Len(acceptmbox') : acceptmbox'[i] = acceptmbox'[j] => i = j
    <3>1. state[acceptmbox[i + 1]] = "backlog"
      BY <1>1, <1>4 DEF ConnsInv
    <3>2. ASSUME NEW j \in 1..Len(acceptmbox'), acceptmbox'[i] = acceptmbox'[j]
          PROVE  i = j
      <4>1. i + 1 = j + 1
        BY <1>1, <1>4, <3>2 DEF ConnsInv
      <4> QED
        BY <4>1
    <3> QED
      BY <1>4, <1>5, <1>6, <3>1, <3>2
  <2> QED
    BY <1>3, <2>1, <2>2 DEF ConnsInv
<1>9. EachEvent'
  <2>1. \A d \in Conns : d # Many!Listen /\ d \in Queue
    BY ServerSizes DEF Queue
  <2>2. Times(xQueue_events', Many!Listen) = Len(acceptmbox')
    BY <1>1, <1>4, <1>7 DEF EachEvent, Queue
  <2> QED
    BY <1>1, <1>3, <1>7, <2>1, <2>2 DEF EachEvent
<1>10. \E f : InTurn(f)'
  BY <1>1, <1>3, TurnAccepted DEF ServerInv
<1>11. { d \in Conns : state'[d] = "closed" } = { d \in Conns : state[d] = "closed" }
  BY <1>5, <1>6
<1>12. Answers' /\ restarts' = Cardinality({ d \in Conns : state'[d] = "closed" })
  BY <1>1, <1>3, <1>11 DEF Answers, ServerInv
<1> QED
  BY <1>1, <1>8, <1>9, <1>10, <1>12 DEF ServerInv

LEMMA ServerReads ==
    ASSUME ServerInv, NEW c \in Conns, Many!Recv(c)
    PROVE  ServerInv'
<1>1. ServerTypes /\ ConnsInv /\ EachEvent /\ Answers /\ ServerTypes'
  BY ServerTypesStep DEF ServerInv, Many!Next, Many!tcp_netconn_task, Conns
<1>2. PICK request : request = Head(inbox[c])
  OBVIOUS
<1>3. /\ Many!Take(c) /\ pending_err[c] = "ok" /\ inbox[c] # << >>
      /\ inbox' = [ inbox EXCEPT ![c] = Tail(@) ]
      /\ answers' = answers \/ answers' = [ answers EXCEPT ![c] = Append(@, request) ]
      /\ UNCHANGED << state, pending_err, acceptmbox, restarts, requests >>
  BY <1>2 DEF Many!Recv, Many!Handle
<1>4. /\ inbox[c] \in Seq(Kinds) /\ inbox'[c] = Tail(inbox[c]) /\ Len(inbox[c]) \in Nat \ {0}
      /\ Len(inbox'[c]) = Len(inbox[c]) - 1 /\ request \in Kinds
      /\ \A d \in Conns \ {c} : inbox'[d] = inbox[d]
  BY <1>1, <1>2, <1>3 DEF ServerTypes
<1>5. \A x \in Queue : Times(xQueue_events', x) = IF c = x THEN Times(xQueue_events, x) - 1
                                                          ELSE Times(xQueue_events, x)
  BY <1>1, <1>3, QueueTaken
<1>6. ConnsInv'
  <2>1. ASSUME NEW d \in Conns
        PROVE  (state[d] = "none" => Len(inbox'[d]) = 0) /\ Len(inbox'[d]) <= RecvMbox
    <3>1. CASE d = c
      <4>1. Len(inbox[c]) <= RecvMbox /\ state[c] # "none"
        BY <1>1, <1>4 DEF ConnsInv
      <4>2. PICK n \in Nat \ {0} : n = Len(inbox[c])
        BY <1>4
      <4>3. Len(inbox'[c]) = n - 1 /\ n <= RecvMbox
        BY <1>4, <4>1, <4>2
      <4>4. Len(inbox'[c]) <= RecvMbox
        BY <4>2, <4>3, ServerSizes
      <4> QED
        BY <3>1, <4>1, <4>4
    <3>2. CASE d # c
      BY <1>1, <1>4, <3>2 DEF ConnsInv
    <3> QED
      BY <3>1, <3>2
  <2> QED
    BY <1>1, <1>3, <2>1 DEF ConnsInv
<1>7. EachEvent'
  <2>1. ASSUME NEW d \in Conns
        PROVE  /\ Times(xQueue_events', d) <= RecvMbox
               /\ pending_err[d] = "ok" => Times(xQueue_events', d) = Len(inbox'[d])
    <3>1. CASE d = c
      BY <1>1, <1>3, <1>4, <1>5, <3>1, ServerSizes DEF EachEvent, Queue
    <3>2. CASE d # c
      BY <1>1, <1>4, <1>5, <3>2 DEF EachEvent, Queue
    <3> QED
      BY <3>1, <3>2
  <2>2. Times(xQueue_events', Many!Listen) = Len(acceptmbox)
    BY <1>1, <1>5, ServerSizes DEF EachEvent, Queue
  <2> QED
    BY <1>3, <2>1, <2>2 DEF EachEvent
<1>8. \E f : InTurn(f)'
  BY <1>1, <1>3, TurnTaken DEF ServerInv
<1>9. Answers'
  <2>1. ASSUME NEW d \in Conns, NEW r \in Kinds
        PROVE  Times(answers'[d], r) + Times(inbox'[d], r) <= Times(requests[d], r)
    <3>1. Times(answers[d], r) + Times(inbox[d], r) <= Times(requests[d], r)
      BY <1>1 DEF Answers
    <3>2. CASE d = c
      <4>1. Times(inbox'[c], r) = IF request = r THEN Times(inbox[c], r) - 1 ELSE Times(inbox[c], r)
        BY <1>2, <1>3, <1>4, TimesTail
      <4>2. \/ Times(answers'[c], r) = Times(answers[c], r)
            \/ request = r /\ Times(answers'[c], r) = Times(answers[c], r) + 1
        <5>1. answers[c] \in Seq(Kinds)
          BY <1>1 DEF ServerTypes
        <5>2. answers'[c] = Append(answers[c], request) \/ answers' = answers
          BY <1>1, <1>3 DEF ServerTypes
        <5>3. Times(Append(answers[c], request), r) = IF request = r THEN Times(answers[c], r) + 1
                                                                     ELSE Times(answers[c], r)
          BY <1>4, <5>1, TimesAppend
        <5> QED
          BY <5>2, <5>3
      <4>3. Times(answers[c], r) \in Nat /\ Times(inbox[c], r) \in Nat /\ Times(requests[c], r) \in Nat
        BY <1>1, TimesType DEF ServerTypes
      <4> QED
        BY <3>1, <3>2, <4>1, <4>2, <4>3
    <3>3. CASE d # c
      <4>1. answers'[d] = answers[d]
        BY <1>1, <1>3, <3>3 DEF ServerTypes
      <4> QED
        BY <1>4, <3>1, <3>3, <4>1
    <3> QED
      BY <3>2, <3>3
  <2> QED
    BY <1>3, <2>1 DEF Answers
<1>10. restarts' = Cardinality({ d \in Conns : state'[d] = "closed" })
  BY <1>3 DEF ServerInv
<1> QED
  BY <1>1, <1>6, <1>7, <1>8, <1>9, <1>10 DEF ServerInv

LEMMA ServerCloses ==
    ASSUME ServerInv, NEW c \in Conns, Many!Close(c)
    PROVE  ServerInv'
<1>1. ServerTypes /\ ConnsInv /\ EachEvent /\ Answers /\ ServerTypes'
  BY ServerTypesStep DEF ServerInv, Many!Next, Many!tcp_netconn_task, Conns
<1>2. /\ Many!Take(c) /\ pending_err[c] # "CLSD"
      /\ pending_err' = [ pending_err EXCEPT ![c] = "CLSD" ]
      /\ state' = [ state EXCEPT ![c] = "closed" ]
      /\ inbox' = [ inbox EXCEPT ![c] = << >> ]
      /\ restarts' = restarts + 1
      /\ UNCHANGED << acceptmbox, answers, requests >>
  BY DEF Many!Close
<1>3. /\ state'[c] = "closed" /\ pending_err'[c] = "CLSD" /\ inbox'[c] = << >>
      /\ \A d \in Conns \ {c} : state'[d] = state[d] /\ pending_err'[d] = pending_err[d] /\ inbox'[d] = inbox[d]
  BY <1>1, <1>2 DEF ServerTypes
<1>4. \A x \in Queue : Times(xQueue_events', x) = IF c = x THEN Times(xQueue_events, x) - 1
                                                          ELSE Times(xQueue_events, x)
  BY <1>1, <1>2, QueueTaken
<1>5. PICK f : InTurn(f)
  BY DEF ServerInv
<1>6. (\A k \in 1..Len(acceptmbox) : acceptmbox[k] # c) /\ \E g : InTurn(g)'
  BY <1>1, <1>2, <1>5, TurnTaken
<1>7. ConnsInv'
  <2>1. ASSUME NEW d \in Conns
        PROVE  /\ state'[d] = "none" => pending_err'[d] = "ok" /\ Len(inbox'[d]) = 0
               /\ pending_err'[d] = "CLSD" <=> state'[d] = "closed"
               /\ Len(inbox'[d]) <= RecvMbox
    <3>1. CASE d = c
      <4>1. Len(<< >>) = 0
        OBVIOUS
      <4> QED
        BY <1>3, <3>1, <4>1, ServerSizes
    <3>2. CASE d # c
      BY <1>1, <1>3, <3>2 DEF ConnsInv
    <3> QED
      BY <3>1, <3>2
  <2>2. ASSUME NEW i \in 1..Len(acceptmbox)
        PROVE  /\ state'[acceptmbox[i]] = "backlog"
               /\ \A j \in 1..Len(acceptmbox) : acceptmbox[i] = acceptmbox[j] => i = j
    <3>1. acceptmbox[i] \in Conns \ {c}
      <4>1. acceptmbox \in Seq(Conns)
        BY <1>1 DEF ServerTypes
      <4>2. acceptmbox[i] \in Conns
        BY <4>1
      <4> QED
        BY <1>6, <4>2
    <3> QED
      BY <1>1, <1>3, <3>1 DEF ConnsInv
  <2> QED
    BY <1>2, <2>1, <2>2 DEF ConnsInv
<1>8. EachEvent'
  <2>1. ASSUME NEW d \in Conns
        PROVE  /\ Times(xQueue_events', d) <= RecvMbox
               /\ pending_err'[d] = "ok" => Times(xQueue_events', d) = Len(inbox'[d])
    <3>1. CASE d = c
      <4>1. Times(xQueue_events, c) \in Nat /\ Times(xQueue_events, c) <= RecvMbox
        BY <1>1, TimesType DEF ServerTypes, EachEvent
      <4>2. Times(xQueue_events', c) = Times(xQueue_events, c) - 1
        BY <1>4 DEF Queue
      <4> QED
        BY <1>3, <3>1, <4>1, <4>2, ServerSizes
    <3>2. CASE d # c
      BY <1>1, <1>3, <1>4, <3>2 DEF EachEvent, Queue
    <3> QED
      BY <3>1, <3>2
  <2>2. Times(xQueue_events', Many!Listen) = Len(acceptmbox)
    BY <1>1, <1>4, ServerSizes DEF EachEvent, Queue
  <2> QED
    BY <1>2, <2>1, <2>2 DEF EachEvent
<1>9. Answers'
  <2>1. ASSUME NEW d \in Conns, NEW r \in Kinds
        PROVE  Times(answers[d], r) + Times(inbox'[d], r) <= Times(requests[d], r)
    <3>1. Times(answers[d], r) + Times(inbox[d], r) <= Times(requests[d], r)
      BY <1>1 DEF Answers
    <3>2. CASE d = c
      <4>1. /\ Times(inbox'[c], r) = 0
            /\ Times(answers[c], r) \in Nat /\ Times(inbox[c], r) \in Nat /\ Times(requests[c], r) \in Nat
        BY <1>1, <1>3, TimesEmpty, TimesType DEF ServerTypes
      <4> QED
        BY <3>1, <3>2, <4>1
    <3>3. CASE d # c
      BY <1>3, <3>1, <3>3
    <3> QED
      BY <3>2, <3>3
  <2> QED
    BY <1>2, <2>1 DEF Answers
<1>10. restarts' = Cardinality({ d \in Conns : state'[d] = "closed" })
  <2>1. { d \in Conns : state'[d] = "closed" } = { d \in Conns : state[d] = "closed" } \cup {c}
    BY <1>3
  <2>2. c \notin { d \in Conns : state[d] = "closed" }
    BY <1>1, <1>2 DEF ConnsInv
  <2>3. IsFiniteSet({ d \in Conns : state[d] = "closed" })
    BY ServerSizes, FS_Subset
  <2>4. restarts = Cardinality({ d \in Conns : state[d] = "closed" })
    BY DEF ServerInv
  <2> QED
    BY <1>2, <2>1, <2>2, <2>3, <2>4, FS_AddElement
<1> QED
  BY <1>1, <1>6, <1>7, <1>8, <1>9, <1>10 DEF ServerInv

LEMMA ServerPassesOver ==
    ASSUME ServerInv, NEW c \in Conns, Many!ClosedBefore(c)
    PROVE  ServerInv'
<1>1. ServerTypes /\ ConnsInv /\ EachEvent /\ Answers /\ ServerTypes'
  BY ServerTypesStep DEF ServerInv, Many!Next, Many!tcp_netconn_task, Conns
<1>2. /\ Many!Take(c) /\ pending_err[c] = "CLSD"
      /\ UNCHANGED << state, pending_err, inbox, acceptmbox, restarts, answers, requests >>
  BY DEF Many!ClosedBefore, Many!netconns, Many!server
<1>3. \A x \in Queue : Times(xQueue_events', x) = IF c = x THEN Times(xQueue_events, x) - 1
                                                          ELSE Times(xQueue_events, x)
  BY <1>1, <1>2, QueueTaken
<1>4. ConnsInv' /\ Answers'
  BY <1>1, <1>2 DEF ConnsInv, Answers
<1>5. EachEvent'
  <2>1. ASSUME NEW d \in Conns
        PROVE  /\ Times(xQueue_events', d) <= RecvMbox
               /\ pending_err[d] = "ok" => Times(xQueue_events', d) = Len(inbox[d])
    <3>1. CASE d = c
      <4>1. Times(xQueue_events, c) \in Nat /\ Times(xQueue_events, c) <= RecvMbox
        BY <1>1, TimesType DEF ServerTypes, EachEvent
      <4>2. Times(xQueue_events', c) = Times(xQueue_events, c) - 1
        BY <1>3 DEF Queue
      <4> QED
        BY <1>2, <3>1, <4>1, <4>2, ServerSizes
    <3>2. CASE d # c
      BY <1>1, <1>3, <3>2 DEF EachEvent, Queue
    <3> QED
      BY <3>1, <3>2
  <2>2. Times(xQueue_events', Many!Listen) = Len(acceptmbox)
    BY <1>1, <1>3, ServerSizes DEF EachEvent, Queue
  <2> QED
    BY <1>2, <2>1, <2>2 DEF EachEvent
<1>6. \E f : InTurn(f)'
  BY <1>1, <1>2, TurnTaken DEF ServerInv
<1>7. restarts' = Cardinality({ d \in Conns : state'[d] = "closed" })
  BY <1>2 DEF ServerInv
<1> QED
  BY <1>1, <1>4, <1>5, <1>6, <1>7 DEF ServerInv

LEMMA ServerStep ==
    ASSUME EventsFit, ServerInv, Many!Next
    PROVE  ServerInv'
<1>1. ASSUME NEW c \in Conns, Many!Send(c)
      PROVE  ServerInv'
  BY <1>1, SendIs, ServerSends
<1>2. ASSUME NEW c \in Conns, Many!Connect(c) \/ Many!Reset(c) \/ Many!Recv(c) \/ Many!Close(c) \/ Many!ClosedBefore(c)
      PROVE  ServerInv'
  BY <1>2, ServerConnects, ServerReset, ServerReads, ServerCloses, ServerPassesOver
<1>3. CASE Many!Accept
  BY <1>3, ServerAccepts
<1> QED
  BY <1>1, <1>2, <1>3 DEF Many!Next, Many!Lwip, Many!tcp_netconn_task, Conns

LEMMA ServerFollows ==
    ASSUME ServerInv
    PROVE  Many!EventsFollow
<1>1. Many!OwnAnswers
  <2>1. ASSUME NEW c \in Many!Clients, NEW request \in { "DEVLIST", "IMPORT", "URB" }
        PROVE  Many!Count(answers[c], request) <= Many!Count(requests[c], request)
    <3>1. /\ Times(answers[c], request) + Times(inbox[c], request) <= Times(requests[c], request)
          /\ Times(answers[c], request) \in Nat /\ Times(inbox[c], request) \in Nat
          /\ Times(requests[c], request) \in Nat
      BY TimesType DEF ServerInv, ServerTypes, Answers, Conns, Kinds
    <3>2. Times(answers[c], request) <= Times(requests[c], request)
      BY <3>1
    <3> QED
      BY <3>2, SameSets DEF Many!Count, Times, Places
  <2> QED
    BY <2>1 DEF Many!OwnAnswers
<1>2. Many!EventPerItem
  BY SameSets DEF ServerInv, EachEvent, Many!EventPerItem, Many!Count, Times, Places, Conns
<1>3. Many!RestartPerClient
  BY SameSets DEF ServerInv, Many!RestartPerClient, Conns
<1> QED
  BY <1>1, <1>2, <1>3 DEF Many!EventsFollow

----------------------------------------------------------------------------
(* The control endpoint: the host reads a stream of headers and parts, in  *)
(* which each return is as long as its header says.                        *)

Headers == {"RET_SUBMIT"} \X Nat \X Nat
Names == { "DEVICE", "CONFIG", "LANGUAGES", "PRODUCT", "BOS", "DEVICE_QUALIFIER", "MS_OS_20_DESCRIPTOR_INDEX" }
Parts == Headers \cup ({"DATA"} \X Names \X Nat)
Longest == 9 + InterfaceLength + 162

LEMMA UsbSizes ==
    /\ InterfaceLength \in Nat \ {0} /\ MaxRequests \in Nat \ {0} /\ 9 + InterfaceLength <= 255
<1>1. Usb!ControlAssumption /\ 9 + InterfaceLength <= 255
  BY PartsAssumption DEF PartsAssumption
<1> QED
  BY <1>1 DEF Usb!ControlAssumption

(* A header alone, or with one part, or with two. *)
Whole1(a, n) == a = << << "RET_SUBMIT", n, 0 >> >>
Whole2(a, n, d, l) == a = << << "RET_SUBMIT", n, l >> >> \o << << "DATA", d, l >> >>
Whole3(a, n, k, l) ==
    a = << << "RET_SUBMIT", n, k + l >> >> \o << << "DATA", "CONFIG", k >>, << "DATA", "CONFIG", l >> >>

Asks ==
    { << "00", "SET_ADDRESS" >>, << "00", "SET_CONFIGURATION" >>, << "01", "SET_INTERFACE" >>,
      << "02", "CLEAR_FEATURE" >>, << "21", "SET_IDLE" >>, << "82", "GET_STATUS" >> }
Gets(r, descriptors) == r[1] = "80" /\ r[2] = "GET_DESCRIPTOR" /\ r[3] \in descriptors
Vendor == << "C0", "VENDOR", "MS_OS_20_DESCRIPTOR_INDEX", 162 >>

(* The requests of the enumeration, by what is answered. *)
LEMMA Enumerated ==
    ASSUME NEW r \in Enumeration
    PROVE  \/ << r[1], r[2] >> \in Asks /\ r[3] = ""
           \/ Gets(r, { "DEVICE", "LANGUAGES", "PRODUCT", "DEVICE_QUALIFIER" })
           \/ Gets(r, { "BOS" }) /\ r[4] \in { 5, 255 }
           \/ Gets(r, { "INTERFACE", "STRING_EE" })
           \/ Gets(r, { "CONFIG" }) /\ r[4] \in { 9, 9 + InterfaceLength, 255 }
           \/ r = Vendor
<1>1. \/ r \in { Get("DEVICE", 18), Get("LANGUAGES", 255), Get("PRODUCT", 255), Get("DEVICE_QUALIFIER", 10) }
      \/ r \in { Get("BOS", 5), Get("BOS", 255) }
      \/ r \in { Get("INTERFACE", 9), Get("STRING_EE", 18) }
      \/ r \in { Get("CONFIG", 9), Get("CONFIG", 9 + InterfaceLength), Get("CONFIG", 255) }
      \/ r \in { Ask("00", "SET_ADDRESS"), Ask("00", "SET_CONFIGURATION"), Ask("01", "SET_INTERFACE") }
      \/ r \in { Ask("02", "CLEAR_FEATURE"), Ask("21", "SET_IDLE"), << "82", "GET_STATUS", "", 2 >> }
      \/ r = Vendor
  BY DEF Enumeration, Vendor
<1>2. ASSUME NEW d, NEW l, r = Get(d, l)
      PROVE  r[1] = "80" /\ r[2] = "GET_DESCRIPTOR" /\ r[3] = d /\ r[4] = l
  BY <1>2 DEF Get
<1>3. ASSUME NEW type, NEW request, NEW l, r = << type, request, "", l >>, << type, request >> \in Asks
      PROVE  << r[1], r[2] >> \in Asks /\ r[3] = ""
  BY <1>3
<1>4. /\ { << "00", "SET_ADDRESS" >>, << "00", "SET_CONFIGURATION" >>, << "01", "SET_INTERFACE" >> } \subseteq Asks
       /\ { << "02", "CLEAR_FEATURE" >>, << "21", "SET_IDLE" >>, << "82", "GET_STATUS" >> } \subseteq Asks
  BY DEF Asks
<1>5. CASE r \in { Get("DEVICE", 18), Get("LANGUAGES", 255), Get("PRODUCT", 255), Get("DEVICE_QUALIFIER", 10) }
  <2>1. CASE r = Get("DEVICE", 18)
    <3>1. r[1] = "80" /\ r[2] = "GET_DESCRIPTOR" /\ r[3] = "DEVICE"
      BY <1>2, <2>1
    <3> QED
      BY <3>1 DEF Gets
  <2>2. CASE r = Get("LANGUAGES", 255)
    <3>1. r[1] = "80" /\ r[2] = "GET_DESCRIPTOR" /\ r[3] = "LANGUAGES"
      BY <1>2, <2>2
    <3> QED
      BY <3>1 DEF Gets
  <2>3. CASE r = Get("PRODUCT", 255)
    <3>1. r[1] = "80" /\ r[2] = "GET_DESCRIPTOR" /\ r[3] = "PRODUCT"
      BY <1>2, <2>3
    <3> QED
      BY <3>1 DEF Gets
  <2>4. CASE r = Get("DEVICE_QUALIFIER", 10)
    <3>1. r[1] = "80" /\ r[2] = "GET_DESCRIPTOR" /\ r[3] = "DEVICE_QUALIFIER"
      BY <1>2, <2>4
    <3> QED
      BY <3>1 DEF Gets
  <2> QED
    BY <1>5, <2>1, <2>2, <2>3, <2>4
<1>6. CASE r \in { Get("BOS", 5), Get("BOS", 255) }
  <2>1. PICK l \in { 5, 255 } : r = Get("BOS", l)
    BY <1>6, Zenon
  <2>2. r[1] = "80" /\ r[2] = "GET_DESCRIPTOR" /\ r[3] = "BOS" /\ r[4] = l
    BY <1>2, <2>1
  <2> QED
    BY <2>2 DEF Gets
<1>7. CASE r \in { Get("INTERFACE", 9), Get("STRING_EE", 18) }
  BY <1>2, <1>7 DEF Gets
<1>8. CASE r \in { Get("CONFIG", 9), Get("CONFIG", 9 + InterfaceLength), Get("CONFIG", 255) }
  <2>1. PICK l \in { 9, 9 + InterfaceLength, 255 } : r = Get("CONFIG", l)
    BY <1>8, Zenon
  <2>2. r[1] = "80" /\ r[2] = "GET_DESCRIPTOR" /\ r[3] = "CONFIG" /\ r[4] = l
    BY <1>2, <2>1
  <2> QED
    BY <2>2 DEF Gets
<1>9. CASE r \in { Ask("00", "SET_ADDRESS"), Ask("00", "SET_CONFIGURATION"), Ask("01", "SET_INTERFACE") }
  <2>1. CASE r = Ask("00", "SET_ADDRESS")
    BY <1>3, <1>4, <2>1 DEF Ask
  <2>2. CASE r = Ask("00", "SET_CONFIGURATION")
    BY <1>3, <1>4, <2>2 DEF Ask
  <2>3. CASE r = Ask("01", "SET_INTERFACE")
    BY <1>3, <1>4, <2>3 DEF Ask
  <2> QED
    BY <1>9, <2>1, <2>2, <2>3
<1>10. CASE r \in { Ask("02", "CLEAR_FEATURE"), Ask("21", "SET_IDLE"), << "82", "GET_STATUS", "", 2 >> }
  <2>1. CASE r = Ask("02", "CLEAR_FEATURE")
    BY <1>3, <1>4, <2>1 DEF Ask
  <2>2. CASE r = Ask("21", "SET_IDLE")
    BY <1>3, <1>4, <2>2 DEF Ask
  <2>3. CASE r = << "82", "GET_STATUS", "", 2 >>
    BY <1>3, <1>4, <2>3
  <2> QED
    BY <1>10, <2>1, <2>2, <2>3
<1> QED
  BY <1>1, <1>5, <1>6, <1>7, <1>8, <1>9, <1>10

LEMMA AnswerIs ==
    ASSUME NEW n \in Nat, NEW r \in Enumeration, NEW a, a = Usb!handleUSBControlRequest(n, r)
    PROVE  \/ r[3] # "CONFIG" /\ Whole1(a, n)
           \/ r[3] # "CONFIG" /\ \E d \in Names : \E l \in 1..162 : Whole2(a, n, d, l)
           \/ r[3] = "CONFIG" /\ r[4] = 9 /\ Whole2(a, n, "CONFIG", 9)
           \/ r[3] = "CONFIG" /\ r[4] \in Nat /\ r[4] >= 9 + InterfaceLength /\ Whole3(a, n, 9, InterfaceLength)
<1> USE DEF Usb!handleUSBControlRequest, Usb!handleGetDescriptor, Usb!Configuration, Usb!send_stage2_submit,
            Usb!send_stage2_submit_data, Usb!Smaller
<1> DEFINE Sent == \E d \in Names : \E l \in 1..162 : Whole2(a, n, d, l)
<1>1. ASSUME << r[1], r[2] >> \in Asks
      PROVE  Whole1(a, n)
  <2>1. Asks \subseteq Usb!Acknowledged
    BY DEF Asks, Usb!Acknowledged
  <2> QED
    BY <1>1, <2>1 DEF Whole1
<1>2. ASSUME NEW d \in { "DEVICE", "LANGUAGES", "PRODUCT", "DEVICE_QUALIFIER" }, r[1] = "80",
             r[2] = "GET_DESCRIPTOR", r[3] = d
      PROVE  r[3] # "CONFIG" /\ Sent
  <2>1. << r[1], r[2] >> \notin Usb!Acknowledged
    BY <1>2 DEF Usb!Acknowledged
  <2>2. d \in DOMAIN Usb!Whole /\ Usb!Whole[d] \in 1..162
    <3>1. CASE d = "DEVICE"
      BY <3>1 DEF Usb!Whole
    <3>2. CASE d = "LANGUAGES"
      BY <3>2 DEF Usb!Whole
    <3>3. CASE d = "PRODUCT"
      BY <3>3 DEF Usb!Whole
    <3>4. CASE d = "DEVICE_QUALIFIER"
      BY <3>4 DEF Usb!Whole
    <3> QED
      BY <3>1, <3>2, <3>3, <3>4
  <2>3. Whole2(a, n, d, Usb!Whole[d])
    BY <1>2, <2>1, <2>2 DEF Whole2
  <2>4. d \in Names /\ d # "CONFIG"
    BY DEF Names
  <2> QED
    BY <1>2, <2>2, <2>3, <2>4
<1>3. ASSUME NEW l \in Nat \ {0}, r[1] = "80", r[2] = "GET_DESCRIPTOR", r[3] = "BOS", r[4] = l
      PROVE  r[3] # "CONFIG" /\ Sent
  <2>1. << r[1], r[2] >> \notin Usb!Acknowledged
    BY <1>3 DEF Usb!Acknowledged
  <2>2. "BOS" \notin DOMAIN Usb!Whole
    BY DEF Usb!Whole
  <2>3. PICK k \in 1..162 : k = Usb!Smaller(33, l)
    OBVIOUS
  <2>4. Whole2(a, n, "BOS", k)
    BY <1>3, <2>1, <2>2, <2>3 DEF Whole2
  <2>5. "BOS" \in Names
    BY DEF Names
  <2> QED
    BY <1>3, <2>3, <2>4, <2>5
<1>4. ASSUME NEW d \in { "INTERFACE", "STRING_EE" }, r[1] = "80", r[2] = "GET_DESCRIPTOR", r[3] = d
      PROVE  r[3] # "CONFIG" /\ Whole1(a, n)
  <2>1. << r[1], r[2] >> \notin Usb!Acknowledged
    BY <1>4 DEF Usb!Acknowledged
  <2>2. d \notin DOMAIN Usb!Whole /\ d \in Usb!Unimplemented
    BY <1>4 DEF Usb!Whole, Usb!Unimplemented
  <2> QED
    BY <1>4, <2>1, <2>2 DEF Whole1
<1>5. CASE r = Vendor
  <2>1. << r[1], r[2] >> \notin Usb!Acknowledged
    BY <1>5 DEF Vendor, Usb!Acknowledged
  <2>2. Whole2(a, n, "MS_OS_20_DESCRIPTOR_INDEX", 162)
    BY <1>5, <2>1 DEF Vendor, Whole2
  <2>3. r[3] # "CONFIG" /\ "MS_OS_20_DESCRIPTOR_INDEX" \in Names /\ 162 \in 1..162
    BY <1>5 DEF Names, Vendor
  <2> QED
    BY <2>2, <2>3
<1>6. ASSUME NEW l \in Nat, r[1] = "80", r[2] = "GET_DESCRIPTOR", r[3] = "CONFIG", r[4] = l
      PROVE  IF l = 9 THEN Whole2(a, n, "CONFIG", 9) ELSE Whole3(a, n, 9, InterfaceLength)
  <2>1. << r[1], r[2] >> \notin Usb!Acknowledged
    BY <1>6 DEF Usb!Acknowledged
  <2>2. "CONFIG" \notin DOMAIN Usb!Whole
    BY DEF Usb!Whole
  <2> QED
    BY <1>6, <2>1, <2>2 DEF Whole2, Whole3
<1> HIDE DEF Usb!handleUSBControlRequest, Usb!handleGetDescriptor, Usb!Configuration, Usb!send_stage2_submit,
             Usb!send_stage2_submit_data, Usb!Smaller, Sent
<1>7. CASE Gets(r, { "CONFIG" }) /\ r[4] \in { 9, 9 + InterfaceLength, 255 }
  <2>1. r[4] \in Nat /\ (r[4] # 9 => r[4] >= 9 + InterfaceLength)
    BY <1>7, UsbSizes
  <2> QED
    BY <1>6, <1>7, <2>1 DEF Gets
<1>8. CASE Gets(r, { "BOS" }) /\ r[4] \in { 5, 255 }
  <2>1. r[4] \in Nat \ {0}
    BY <1>8
  <2> QED
    BY <1>3, <1>8, <2>1 DEF Gets, Sent
<1>9. CASE Gets(r, { "DEVICE", "LANGUAGES", "PRODUCT", "DEVICE_QUALIFIER" })
  BY <1>2, <1>9 DEF Gets, Sent
<1>10. CASE Gets(r, { "INTERFACE", "STRING_EE" })
  BY <1>4, <1>10 DEF Gets
<1>11. CASE << r[1], r[2] >> \in Asks /\ r[3] = ""
  BY <1>1, <1>11
<1>12. CASE r = Vendor
  BY <1>5, <1>12 DEF Sent
<1> QED
  BY <1>7, <1>8, <1>9, <1>10, <1>11, <1>12, Enumerated

(* A stream of headers and parts of which f[i] bytes are announced before  *)
(* the i-th, and none after the last.                                      *)
Announced(s, f) ==
    /\ f \in [ 1..(Len(s) + 1) -> 0..Longest ] /\ f[Len(s) + 1] = 0
    /\ \A i \in 1..Len(s) :
        IF f[i] = 0 THEN s[i][1] = "RET_SUBMIT" /\ f[i + 1] = s[i][3]
        ELSE s[i][1] = "DATA" /\ f[i + 1] = f[i] - s[i][3]

(* A header that belongs to its request. *)
Good(h, requested) ==
    /\ h[1] = "RET_SUBMIT" /\ h[2] \in 1..Len(requested)
    /\ requested[h[2]][3] = "CONFIG" => h[3] = Usb!Smaller(requested[h[2]][4], 9 + InterfaceLength)

(* What is sent for a request. *)
Return(a, n, r) ==
    /\ a \in Seq(Parts) /\ Len(a) \in 1..3 /\ a[1][1] = "RET_SUBMIT" /\ a[1][2] = n
    /\ \A i \in 2..Len(a) : a[i][1] = "DATA"
    /\ r[3] = "CONFIG" => a[1][3] = Usb!Smaller(r[4], 9 + InterfaceLength)
    /\ \E f : Announced(a, f)

LEMMA ThreeParts ==
    ASSUME NEW x, NEW y, NEW z
    PROVE  /\ Len(<< x >> \o << y >>) = 2 /\ (<< x >> \o << y >>)[1] = x /\ (<< x >> \o << y >>)[2] = y
           /\ Len(<< x >> \o << y, z >>) = 3 /\ (<< x >> \o << y, z >>)[1] = x
           /\ (<< x >> \o << y, z >>)[2] = y /\ (<< x >> \o << y, z >>)[3] = z
<1> DEFINE S == { x, y, z }
<1>1. << x >> \in Seq(S) /\ << y >> \in Seq(S) /\ << y, z >> \in Seq(S)
  OBVIOUS
<1>2. Len(<< x >>) = 1 /\ Len(<< y >>) = 1 /\ Len(<< y, z >>) = 2
  OBVIOUS
<1> HIDE DEF S
<1>3. /\ Len(<< x >> \o << y >>) = 1 + 1
      /\ \A i \in 1..(1 + 1) : (<< x >> \o << y >>)[i] = IF i <= 1 THEN << x >>[i] ELSE << y >>[i - 1]
  BY <1>1, <1>2, ConcatProperties
<1>4. /\ Len(<< x >> \o << y, z >>) = 1 + 2
      /\ \A i \in 1..(1 + 2) : (<< x >> \o << y, z >>)[i] = IF i <= 1 THEN << x >>[i] ELSE << y, z >>[i - 1]
  BY <1>1, <1>2, ConcatProperties
<1> QED
  BY <1>3, <1>4

(* What is answered is as long as announced, and of the request. *)
LEMMA AnswerAnnounced ==
    ASSUME NEW n \in Nat, NEW r \in Enumeration, NEW a, a = Usb!handleUSBControlRequest(n, r)
    PROVE  Return(a, n, r)
<1> USE DEF Return
<1>1. CASE r[3] # "CONFIG" /\ Whole1(a, n)
  <2>1. Len(a) = 1 /\ a[1] = << "RET_SUBMIT", n, 0 >> /\ a \in Seq(Parts)
    BY <1>1 DEF Whole1, Parts, Headers
  <2>2. Announced(a, [ i \in 1..2 |-> 0 ])
    BY <2>1, UsbSizes DEF Announced, Longest
  <2> QED
    BY <1>1, <2>1, <2>2
<1>2. ASSUME NEW d \in Names, NEW l \in 1..162, Whole2(a, n, d, l),
             r[3] = "CONFIG" => l = Usb!Smaller(r[4], 9 + InterfaceLength)
      PROVE  Return(a, n, r)
  <2>1. Len(a) = 2 /\ a[1] = << "RET_SUBMIT", n, l >> /\ a[2] = << "DATA", d, l >>
    BY <1>2, ThreeParts DEF Whole2
  <2>2. a \in Seq(Parts)
    <3>1. << << "RET_SUBMIT", n, l >> >> \in Seq(Parts) /\ << << "DATA", d, l >> >> \in Seq(Parts)
      BY DEF Parts, Headers
    <3> QED
      BY <1>2, <3>1, ConcatProperties DEF Whole2
  <2>3. PICK f : f = [ i \in 1..3 |-> IF i = 2 THEN l ELSE 0 ]
    OBVIOUS
  <2>4. Announced(a, f)
    <3>1. f \in [ 1..3 -> 0..Longest ] /\ f[1] = 0 /\ f[2] = l /\ f[3] = 0
      BY <2>3, UsbSizes DEF Longest
    <3> QED
      BY <2>1, <3>1 DEF Announced
  <2> QED
    BY <1>2, <2>1, <2>2, <2>4
<1>3. CASE r[3] = "CONFIG" /\ r[4] \in Nat /\ r[4] >= 9 + InterfaceLength /\ Whole3(a, n, 9, InterfaceLength)
  <2>1. /\ Len(a) = 3 /\ a[1] = << "RET_SUBMIT", n, 9 + InterfaceLength >>
        /\ a[2] = << "DATA", "CONFIG", 9 >> /\ a[3] = << "DATA", "CONFIG", InterfaceLength >>
    BY <1>3, ThreeParts DEF Whole3
  <2>2. a \in Seq(Parts)
    <3>1. << << "RET_SUBMIT", n, 9 + InterfaceLength >> >> \in Seq(Parts)
      BY UsbSizes DEF Parts, Headers
    <3>2. << << "DATA", "CONFIG", 9 >>, << "DATA", "CONFIG", InterfaceLength >> >> \in Seq(Parts)
      BY UsbSizes DEF Parts, Names
    <3> QED
      BY <1>3, <3>1, <3>2, ConcatProperties DEF Whole3
  <2>3. PICK f : f = [ i \in 1..4 |-> IF i = 2 THEN 9 + InterfaceLength ELSE IF i = 3 THEN InterfaceLength ELSE 0 ]
    OBVIOUS
  <2>4. Announced(a, f)
    <3>1. f \in [ 1..4 -> 0..Longest ] /\ f[1] = 0 /\ f[2] = 9 + InterfaceLength /\ f[3] = InterfaceLength /\ f[4] = 0
      BY <2>3, UsbSizes DEF Longest
    <3> QED
      BY <2>1, <3>1, UsbSizes DEF Announced
  <2>5. Usb!Smaller(r[4], 9 + InterfaceLength) = 9 + InterfaceLength
    BY <1>3, UsbSizes DEF Usb!Smaller
  <2> QED
    BY <2>1, <2>2, <2>4, <2>5
<1>4. CASE r[3] = "CONFIG" /\ r[4] = 9 /\ Whole2(a, n, "CONFIG", 9)
  <2>1. Usb!Smaller(r[4], 9 + InterfaceLength) = 9 /\ "CONFIG" \in Names /\ 9 \in 1..162
    BY <1>4, UsbSizes DEF Usb!Smaller, Names
  <2> QED
    BY <1>2, <1>4, <2>1
<1> QED
  BY <1>1, <1>2, <1>3, <1>4, AnswerIs

Numbers(h, k) == h[1] = "RET_SUBMIT" /\ k[1] = "RET_SUBMIT" => h[2] < k[2]

UsbTypes ==
    /\ submitted \in Seq(Enumeration) /\ Len(submitted) <= MaxRequests
    /\ toServer \in Seq(1..Len(submitted)) /\ toHost \in Seq(Parts)
    /\ returned \in Seq(Parts) /\ left \in 0..Longest

UsbInv ==
    /\ UsbTypes
    /\ \E f : Announced(toHost, f) /\ f[1] = left
    /\ \A i \in 1..Len(returned) : Good(returned[i], submitted)
    /\ \A i \in 1..Len(toHost) : toHost[i][1] = "RET_SUBMIT" => Good(toHost[i], submitted)
    (* the numbers are in the order of the requests *)
    /\ \A i, j \in 1..Len(returned) : i < j => Numbers(returned[i], returned[j])
    /\ \A i \in 1..Len(returned), j \in 1..Len(toHost) : Numbers(returned[i], toHost[j])
    /\ \A i, j \in 1..Len(toHost) : i < j => Numbers(toHost[i], toHost[j])
    /\ \A j \in 1..Len(toServer) :
        /\ \A i \in 1..Len(returned) : returned[i][2] < toServer[j]
        /\ \A i \in 1..Len(toHost) : toHost[i][1] = "RET_SUBMIT" => toHost[i][2] < toServer[j]
        /\ \A i \in 1..Len(toServer) : i < j => toServer[i] < toServer[j]

LEMMA UsbInit == Usb!Init => UsbInv
<1> SUFFICES ASSUME Usb!Init
             PROVE  UsbInv
  OBVIOUS
<1>1. toServer = << >> /\ toHost = << >> /\ submitted = << >> /\ returned = << >> /\ left = 0
  BY DEF Usb!Init
<1>2. << >> \in Seq(Enumeration) /\ << >> \in Seq(1..0) /\ << >> \in Seq(Parts) /\ Len(<< >>) = 0
  BY EmptySeq, Zenon
<1>3. UsbTypes
  BY <1>1, <1>2, UsbSizes DEF UsbTypes, Longest
<1>4. PICK f : f = [ i \in 1..1 |-> 0 ]
  OBVIOUS
<1>5. Announced(toHost, f) /\ f[1] = left
  BY <1>1, <1>2, <1>4, UsbSizes DEF Announced, Longest
<1> QED
  BY <1>1, <1>2, <1>3, <1>5 DEF UsbInv

LEMMA HostSubmits ==
    ASSUME UsbInv, Usb!Submit
    PROVE  UsbInv'
<1>1. PICK n \in Nat : n = Len(submitted)
  BY DEF UsbInv, UsbTypes
<1>2. PICK r \in Enumeration : submitted' = Append(submitted, r)
  BY DEF Usb!Submit
<1>3. /\ n < MaxRequests /\ toServer' = Append(toServer, Len(submitted'))
      /\ UNCHANGED << toHost, returned, left >>
  BY <1>1 DEF Usb!Submit
<1>4. /\ submitted' \in Seq(Enumeration) /\ Len(submitted') = n + 1 /\ submitted'[n + 1] = r
      /\ \A i \in 1..n : submitted'[i] = submitted[i]
  BY <1>1, <1>2 DEF UsbInv, UsbTypes
<1>5. PICK k \in Nat : k = Len(toServer)
  BY DEF UsbInv, UsbTypes
<1>6. /\ Len(toServer') = k + 1 /\ toServer'[k + 1] = n + 1
      /\ \A i \in 1..k : toServer'[i] = toServer[i] /\ toServer[i] \in 1..n
      /\ toServer' \in Seq(1..(n + 1))
  <2>1. toServer \in Seq(1..n)
    BY <1>1 DEF UsbInv, UsbTypes
  <2>2. toServer \in Seq(1..(n + 1))
    <3>1. \A i \in 1..Len(toServer) : toServer[i] \in 1..(n + 1)
      BY <2>1
    <3> QED
      BY <2>1, <3>1, SeqDef
  <2>3. n + 1 \in 1..(n + 1)
    OBVIOUS
  <2> QED
    BY <1>3, <1>4, <1>5, <2>1, <2>2, <2>3
<1>7. UsbTypes'
  BY <1>1, <1>3, <1>4, <1>6, UsbSizes DEF UsbInv, UsbTypes
<1>8. ASSUME NEW h, Good(h, submitted)
      PROVE  Good(h, submitted') /\ h[2] < n + 1
  BY <1>1, <1>4, <1>8 DEF Good
<1>9. ASSUME NEW j \in 1..(k + 1)
      PROVE  /\ \A i \in 1..Len(returned) : returned[i][2] < toServer'[j]
             /\ \A i \in 1..Len(toHost) : toHost[i][1] = "RET_SUBMIT" => toHost[i][2] < toServer'[j]
             /\ \A i \in 1..(k + 1) : i < j => toServer'[i] < toServer'[j]
  <2>1. CASE j = k + 1
    <3>1. \A i \in 1..(k + 1) : i < j => i \in 1..k
      BY <2>1
    <3>2. \A i \in 1..Len(returned) : returned[i][2] < toServer'[j]
      BY <1>6, <1>8, <2>1 DEF UsbInv
    <3>3. \A i \in 1..Len(toHost) : toHost[i][1] = "RET_SUBMIT" => toHost[i][2] < toServer'[j]
      BY <1>6, <1>8, <2>1 DEF UsbInv
    <3>4. \A i \in 1..k : toServer'[i] < n + 1
      BY <1>6
    <3> QED
      BY <1>6, <2>1, <3>1, <3>2, <3>3, <3>4
  <2>2. CASE j \in 1..k
    <3>1. \A i \in 1..(k + 1) : i < j => i \in 1..k
      BY <2>2
    <3> QED
      BY <1>5, <1>6, <2>2, <3>1 DEF UsbInv
  <2>3. j = k + 1 \/ j \in 1..k
    OBVIOUS
  <2> QED
    BY <2>1, <2>2, <2>3
<1>10. /\ \A i \in 1..Len(returned) : Good(returned[i], submitted')
       /\ \A i \in 1..Len(toHost) : toHost[i][1] = "RET_SUBMIT" => Good(toHost[i], submitted')
  BY <1>8 DEF UsbInv
<1> QED
  BY <1>3, <1>6, <1>7, <1>9, <1>10 DEF UsbInv

LEMMA HostReads ==
    ASSUME UsbInv, Usb!Read
    PROVE  UsbInv'
<1>1. PICK n \in Nat \ {0} : n = Len(toHost)
  BY DEF UsbInv, UsbTypes, Usb!Read
<1>2. PICK x : x = toHost[1]
  OBVIOUS
<1>3. /\ toHost' \in Seq(Parts) /\ Len(toHost') = n - 1 /\ x \in Parts /\ Head(toHost) = x
      /\ \A i \in 1..(n - 1) : i + 1 \in 1..n /\ toHost'[i] = toHost[i + 1]
  BY <1>1, <1>2 DEF UsbInv, UsbTypes, Usb!Read
<1>4. UNCHANGED << toServer, submitted >>
  BY DEF Usb!Read
<1>5. PICK f : Announced(toHost, f) /\ f[1] = left
  BY DEF UsbInv
<1>6. /\ f \in [ 1..(n + 1) -> 0..Longest ] /\ f[n + 1] = 0
      /\ \A i \in 1..n : IF f[i] = 0 THEN toHost[i][1] = "RET_SUBMIT" /\ f[i + 1] = toHost[i][3]
                                    ELSE toHost[i][1] = "DATA" /\ f[i + 1] = f[i] - toHost[i][3]
  BY <1>1, <1>5 DEF Announced
<1>7. left' = f[2] /\ 2 \in 1..(n + 1)
  <2>1. 1 \in 1..n /\ IF left = 0 THEN f[2] = x[3] ELSE f[2] = left - x[3]
    BY <1>2, <1>5, <1>6
  <2> QED
    BY <1>3, <2>1 DEF Usb!Read
<1>8. PICK g : g = [ i \in 1..n |-> f[i + 1] ]
  OBVIOUS
<1>9. Announced(toHost', g) /\ g[1] = left'
  <2>1. \A i \in 1..n : i + 1 \in 1..(n + 1) /\ g[i] = f[i + 1]
    BY <1>8
  <2>2. g \in [ 1..n -> 0..Longest ] /\ g[n] = 0
    BY <1>6, <1>8, <2>1
  <2>3. ASSUME NEW i \in 1..(n - 1)
        PROVE  IF g[i] = 0 THEN toHost'[i][1] = "RET_SUBMIT" /\ g[i + 1] = toHost'[i][3]
               ELSE toHost'[i][1] = "DATA" /\ g[i + 1] = g[i] - toHost'[i][3]
    <3>1. i \in 1..n /\ i + 1 \in 1..n /\ toHost'[i] = toHost[i + 1] /\ g[i] = f[i + 1] /\ g[i + 1] = f[(i + 1) + 1]
      BY <1>3, <2>1
    <3> QED
      BY <1>6, <3>1
  <2>4. (n - 1) + 1 = n
    OBVIOUS
  <2> QED
    BY <1>3, <1>7, <2>1, <2>2, <2>3, <2>4 DEF Announced
<1>10. /\ \A i \in 1..(n - 1) : toHost'[i][1] = "RET_SUBMIT" => Good(toHost'[i], submitted)
       /\ \A i, j \in 1..(n - 1) : i < j => Numbers(toHost'[i], toHost'[j])
  <2>1. ASSUME NEW i \in 1..(n - 1), NEW j \in 1..(n - 1), i < j
        PROVE  Numbers(toHost'[i], toHost'[j])
    <3>1. i + 1 \in 1..n /\ j + 1 \in 1..n /\ i + 1 < j + 1
      BY <2>1
    <3> QED
      BY <1>1, <1>3, <3>1 DEF UsbInv
  <2> QED
    BY <1>1, <1>3, <2>1 DEF UsbInv
<1>11. \A j \in 1..Len(toServer) : \A i \in 1..(n - 1) : toHost'[i][1] = "RET_SUBMIT" => toHost'[i][2] < toServer[j]
  BY <1>1, <1>3 DEF UsbInv
<1>12. left' \in 0..Longest
  BY <1>6, <1>7
<1>13. CASE left = 0
  <2>1. returned' = Append(returned, x) /\ x[1] = "RET_SUBMIT"
    BY <1>1, <1>2, <1>3, <1>5, <1>6, <1>13 DEF Usb!Read
  <2>2. PICK m \in Nat : m = Len(returned)
    BY DEF UsbInv, UsbTypes
  <2>3. /\ returned' \in Seq(Parts) /\ Len(returned') = m + 1 /\ returned'[m + 1] = x
        /\ \A i \in 1..m : returned'[i] = returned[i]
    BY <1>3, <2>1, <2>2 DEF UsbInv, UsbTypes
  <2>4. UsbTypes'
    BY <1>3, <1>4, <1>12, <2>3 DEF UsbInv, UsbTypes
  <2>5. /\ Good(x, submitted)
        /\ \A i \in 1..m : Numbers(returned[i], x)
        /\ \A i \in 1..(n - 1) : Numbers(x, toHost'[i])
        /\ \A j \in 1..Len(toServer) : x[2] < toServer[j]
    <3>1. 1 \in 1..n /\ \A i \in 1..(n - 1) : 1 < i + 1
      OBVIOUS
    <3> QED
      BY <1>1, <1>2, <1>3, <2>1, <2>2, <3>1 DEF UsbInv
  <2>6. ASSUME NEW i \in 1..(m + 1)
        PROVE  /\ Good(returned'[i], submitted)
               /\ \A j \in 1..(m + 1) : i < j => Numbers(returned'[i], returned'[j])
               /\ \A j \in 1..(n - 1) : Numbers(returned'[i], toHost'[j])
               /\ \A j \in 1..Len(toServer) : returned'[i][2] < toServer[j]
    <3>1. CASE i = m + 1
      <4>1. \A j \in 1..(m + 1) : ~(i < j)
        BY <3>1
      <4> QED
        BY <2>3, <2>5, <3>1, <4>1
    <3>2. CASE i \in 1..m
      <4>1. \A j \in 1..(m + 1) : j = m + 1 \/ j \in 1..m
        OBVIOUS
      <4>2. /\ Good(returned[i], submitted) /\ \A j \in 1..m : i < j => Numbers(returned[i], returned[j])
            /\ \A j \in 1..n : Numbers(returned[i], toHost[j])
            /\ \A j \in 1..Len(toServer) : returned[i][2] < toServer[j]
        BY <1>1, <2>2, <3>2 DEF UsbInv
      <4> QED
        BY <1>3, <2>3, <2>5, <3>2, <4>1, <4>2
    <3>3. i = m + 1 \/ i \in 1..m
      OBVIOUS
    <3> QED
      BY <3>1, <3>2, <3>3
  <2>7. \A i, j \in 1..Len(toServer) : i < j => toServer[i] < toServer[j]
    BY DEF UsbInv
  <2> QED
    BY <1>3, <1>4, <1>9, <1>10, <1>11, <2>3, <2>4, <2>6, <2>7 DEF UsbInv
<1>14. CASE left # 0
  <2>1. returned' = returned
    BY <1>14 DEF Usb!Read
  <2>2. UsbTypes'
    BY <1>3, <1>4, <1>12, <2>1 DEF UsbInv, UsbTypes
  <2>3. \A i \in 1..Len(returned), j \in 1..(n - 1) : Numbers(returned[i], toHost'[j])
    BY <1>1, <1>3 DEF UsbInv
  <2> QED
    BY <1>3, <1>4, <1>9, <1>10, <1>11, <2>1, <2>2, <2>3 DEF UsbInv
<1> QED
  BY <1>13, <1>14

LEMMA DeviceAnswers ==
    ASSUME UsbInv, Usb!Recv
    PROVE  UsbInv'
<1>1. PICK k \in Nat \ {0} : k = Len(toServer)
  BY DEF UsbInv, UsbTypes, Usb!Recv
<1>2. PICK v : v = toServer[1]
  OBVIOUS
<1>3. /\ toServer' = SubSeq(toServer, 1 + 1, Len(toServer)) /\ Head(toServer) = v
      /\ UNCHANGED << submitted, returned, left >>
  <2>1. PICK j \in 1..1 : toServer' = SubSeq(toServer, j + 1, Len(toServer))
    BY DEF Usb!Recv
  <2> QED
    BY <1>2, <2>1 DEF UsbInv, UsbTypes, Usb!Recv
<1>4. /\ toServer' \in Seq(1..Len(submitted)) /\ Len(toServer') = k - 1
      /\ \A i \in 1..(k - 1) : i + 1 \in 1..k /\ toServer'[i] = toServer[i + 1]
  <2>1. toServer \in Seq(1..Len(submitted))
    BY DEF UsbInv, UsbTypes
  <2>2. \A i \in 2..k : toServer[i] \in 1..Len(submitted)
    BY <1>1, <2>1
  <2>3. toServer' = SubSeq(toServer, 2, k)
    BY <1>1, <1>3
  <2>4. /\ toServer' \in Seq(1..Len(submitted)) /\ Len(toServer') = IF 2 <= k THEN k - 2 + 1 ELSE 0
        /\ \A i \in 1..(k - 2 + 1) : toServer'[i] = toServer[2 + i - 1]
    BY <2>2, <2>3, SubSeqProperties
  <2>5. \A i \in 1..(k - 1) : i + 1 \in 1..k /\ 2 + i - 1 = i + 1 /\ i \in 1..(k - 2 + 1)
    OBVIOUS
  <2>6. (IF 2 <= k THEN k - 2 + 1 ELSE 0) = k - 1
    OBVIOUS
  <2> QED
    BY <2>4, <2>5, <2>6
<1>5. v \in 1..Len(submitted) /\ v \in Nat /\ \A i \in 2..k : v < toServer[i]
  <2>1. 1 \in 1..k /\ \A i \in 2..k : i \in 1..k /\ 1 < i
    OBVIOUS
  <2>2. toServer \in Seq(1..Len(submitted))
    BY DEF UsbInv, UsbTypes
  <2>3. v \in 1..Len(submitted)
    BY <1>1, <1>2, <2>1, <2>2
  <2> QED
    BY <1>1, <1>2, <2>1, <2>3 DEF UsbInv
<1>6. PICK r : r = submitted[v] /\ r \in Enumeration
  BY <1>5 DEF UsbInv, UsbTypes
<1>7. PICK a : a = Usb!handleUSBControlRequest(v, r) /\ toHost' = toHost \o a
  BY <1>3, <1>6 DEF Usb!Recv
<1>8. /\ a \in Seq(Parts) /\ Len(a) \in 1..3 /\ a[1][1] = "RET_SUBMIT" /\ a[1][2] = v
      /\ \A i \in 2..Len(a) : a[i][1] = "DATA"
      /\ r[3] = "CONFIG" => a[1][3] = Usb!Smaller(r[4], 9 + InterfaceLength)
      /\ \E g : Announced(a, g)
  <2>1. v \in Nat
    BY <1>5
  <2>2. r \in Enumeration
    BY <1>6
  <2>3. a = Usb!handleUSBControlRequest(v, r)
    BY <1>7
  <2>4. Return(a, v, r)
    BY <2>1, <2>2, <2>3, AnswerAnnounced
  <2> QED
    BY <2>4 DEF Return
<1>9. PICK m \in 1..3 : m = Len(a)
  BY <1>8
<1>10. PICK n \in Nat : n = Len(toHost)
  BY DEF UsbInv, UsbTypes
<1>11. /\ toHost' \in Seq(Parts) /\ Len(toHost') = n + m
       /\ \A i \in 1..n : toHost'[i] = toHost[i]
       /\ \A i \in (n + 1)..(n + m) : i - n \in 1..m /\ toHost'[i] = a[i - n]
  <2>1. toHost \in Seq(Parts)
    BY DEF UsbInv, UsbTypes
  <2>2. /\ toHost' \in Seq(Parts) /\ Len(toHost') = n + m
        /\ \A i \in 1..(n + m) : toHost'[i] = IF i <= n THEN toHost[i] ELSE a[i - n]
    BY <1>7, <1>8, <1>9, <1>10, <2>1, ConcatProperties
  <2>3. \A i \in 1..n : i \in 1..(n + m) /\ i <= n
    OBVIOUS
  <2>4. \A i \in (n + 1)..(n + m) : i \in 1..(n + m) /\ ~(i <= n) /\ i - n \in 1..m
    OBVIOUS
  <2> QED
    BY <2>2, <2>3, <2>4
<1>12. Good(a[1], submitted)
  BY <1>5, <1>6, <1>8 DEF Good
<1>13. \A i \in (n + 1)..(n + m) : IF i = n + 1 THEN toHost'[i] = a[1] ELSE toHost'[i][1] = "DATA"
  <2>1. \A i \in (n + 1)..(n + m) : i # n + 1 => i - n \in 2..m
    OBVIOUS
  <2>2. (n + 1) - n = 1 /\ n + 1 \in (n + 1)..(n + m)
    OBVIOUS
  <2> QED
    BY <1>8, <1>9, <1>11, <2>1, <2>2
<1>14. \A i \in 1..(n + m) : i \in 1..n \/ i \in (n + 1)..(n + m)
  OBVIOUS
<1>15. \E h : Announced(toHost', h) /\ h[1] = left
  <2>1. PICK f : Announced(toHost, f) /\ f[1] = left
    BY DEF UsbInv
  <2>2. PICK g : Announced(a, g)
    BY <1>8
  <2>3. /\ f \in [ 1..(n + 1) -> 0..Longest ] /\ f[n + 1] = 0
        /\ \A i \in 1..n : IF f[i] = 0 THEN toHost[i][1] = "RET_SUBMIT" /\ f[i + 1] = toHost[i][3]
                                      ELSE toHost[i][1] = "DATA" /\ f[i + 1] = f[i] - toHost[i][3]
    BY <1>10, <2>1 DEF Announced
  <2>4. /\ g \in [ 1..(m + 1) -> 0..Longest ] /\ g[m + 1] = 0
        /\ \A i \in 1..m : IF g[i] = 0 THEN a[i][1] = "RET_SUBMIT" /\ g[i + 1] = a[i][3]
                                      ELSE a[i][1] = "DATA" /\ g[i + 1] = g[i] - a[i][3]
    BY <1>9, <2>2 DEF Announced
  <2>5. g[1] = 0
    BY <1>8, <2>4
  <2>6. PICK h : h = [ i \in 1..(n + m + 1) |-> IF i <= n THEN f[i] ELSE g[i - n] ]
    OBVIOUS
  <2>7. \A i \in 1..(n + 1) : i \in 1..(n + m + 1) /\ h[i] = f[i]
    <3>1. ASSUME NEW i \in 1..(n + 1)
          PROVE  i \in 1..(n + m + 1) /\ h[i] = f[i]
      <4>1. i \in 1..(n + m + 1) /\ (i <= n \/ i = n + 1)
        OBVIOUS
      <4>2. (n + 1) - n = 1 /\ ~(n + 1 <= n)
        OBVIOUS
      <4> QED
        BY <2>3, <2>5, <2>6, <4>1, <4>2
    <3> QED
      BY <3>1
  <2>8. \A i \in 1..(m + 1) : n + i \in 1..(n + m + 1) /\ h[n + i] = g[i]
    <3>1. ASSUME NEW i \in 1..(m + 1)
          PROVE  n + i \in 1..(n + m + 1) /\ h[n + i] = g[i]
      <4>1. n + i \in 1..(n + m + 1) /\ ~(n + i <= n) /\ (n + i) - n = i
        OBVIOUS
      <4> QED
        BY <2>6, <4>1
    <3> QED
      BY <3>1
  <2>9. h \in [ 1..(n + m + 1) -> 0..Longest ]
    <3>1. \A i \in 1..(n + m + 1) : i <= n => i \in 1..(n + 1)
      OBVIOUS
    <3>2. \A i \in 1..(n + m + 1) : ~(i <= n) => i - n \in 1..(m + 1)
      OBVIOUS
    <3> QED
      BY <2>3, <2>4, <2>6, <3>1, <3>2
  <2>10. h[1] = left /\ h[n + m + 1] = 0
    <3>1. 1 \in 1..(n + 1) /\ m + 1 \in 1..(m + 1) /\ n + (m + 1) = n + m + 1
      OBVIOUS
    <3> QED
      BY <2>1, <2>4, <2>7, <2>8, <3>1
  <2>11. ASSUME NEW i \in 1..(n + m)
         PROVE  IF h[i] = 0 THEN toHost'[i][1] = "RET_SUBMIT" /\ h[i + 1] = toHost'[i][3]
                ELSE toHost'[i][1] = "DATA" /\ h[i + 1] = h[i] - toHost'[i][3]
    <3>1. CASE i \in 1..n
      <4>1. h[i] = f[i] /\ h[i + 1] = f[i + 1] /\ toHost'[i] = toHost[i]
        BY <1>11, <2>7, <3>1
      <4> QED
        BY <2>3, <3>1, <4>1
    <3>2. CASE i \in (n + 1)..(n + m)
      <4>1. PICK j \in 1..m : i = n + j /\ i + 1 = n + (j + 1) /\ j = i - n
        BY <3>2
      <4>2. h[i] = g[j] /\ h[i + 1] = g[j + 1] /\ toHost'[i] = a[j]
        BY <1>11, <2>8, <3>2, <4>1
      <4> QED
        BY <2>4, <4>1, <4>2
    <3> QED
      BY <1>14, <3>1, <3>2
  <2>12. Announced(toHost', h)
    BY <1>11, <2>9, <2>10, <2>11 DEF Announced
  <2> QED
    BY <2>10, <2>12
<1>16. UsbTypes'
  BY <1>3, <1>4, <1>11 DEF UsbInv, UsbTypes
<1>17. ASSUME NEW i \in 1..(n + m), toHost'[i][1] = "RET_SUBMIT"
       PROVE  (i \in 1..n /\ toHost'[i] = toHost[i]) \/ (i = n + 1 /\ toHost'[i] = a[1])
  BY <1>11, <1>13, <1>14, <1>17
<1>18. \A i \in 1..(n + m) : toHost'[i][1] = "RET_SUBMIT" => Good(toHost'[i], submitted)
  BY <1>10, <1>12, <1>17 DEF UsbInv
<1>19. /\ \A i \in 1..Len(returned) : Numbers(returned[i], a[1])
       /\ \A i \in 1..n : Numbers(toHost[i], a[1])
  <2>1. 1 \in 1..k
    OBVIOUS
  <2> QED
    BY <1>1, <1>2, <1>8, <1>10, <2>1 DEF UsbInv, Numbers
<1>20. \A i \in 1..Len(returned), j \in 1..(n + m) : Numbers(returned[i], toHost'[j])
  <2>1. ASSUME NEW i \in 1..Len(returned), NEW j \in 1..(n + m), toHost'[j][1] = "RET_SUBMIT"
        PROVE  Numbers(returned[i], toHost'[j])
    BY <1>10, <1>17, <1>19, <2>1 DEF UsbInv
  <2> QED
    BY <2>1 DEF Numbers
<1>21. ASSUME NEW i \in 1..(n + m), NEW j \in 1..(n + m), i < j
       PROVE  Numbers(toHost'[i], toHost'[j])
  <2>1. SUFFICES ASSUME toHost'[i][1] = "RET_SUBMIT", toHost'[j][1] = "RET_SUBMIT"
                 PROVE  Numbers(toHost'[i], toHost'[j])
    BY DEF Numbers
  <2>2. (i \in 1..n /\ toHost'[i] = toHost[i]) \/ i = n + 1
    BY <1>17, <2>1
  <2>3. (j \in 1..n /\ toHost'[j] = toHost[j]) \/ (j = n + 1 /\ toHost'[j] = a[1])
    BY <1>17, <2>1
  <2>4. i \in 1..n /\ toHost'[i] = toHost[i]
    <3>1. i # n + 1
      BY <1>21, <2>3
    <3> QED
      BY <2>2, <3>1
  <2>5. CASE j \in 1..n /\ toHost'[j] = toHost[j]
    BY <1>10, <1>21, <2>4, <2>5 DEF UsbInv
  <2>6. CASE toHost'[j] = a[1]
    BY <1>19, <2>4, <2>6
  <2> QED
    BY <2>3, <2>5, <2>6
<1>22. ASSUME NEW j \in 1..(k - 1)
       PROVE  /\ \A i \in 1..Len(returned) : returned[i][2] < toServer'[j]
              /\ \A i \in 1..(n + m) : toHost'[i][1] = "RET_SUBMIT" => toHost'[i][2] < toServer'[j]
              /\ \A i \in 1..(k - 1) : i < j => toServer'[i] < toServer'[j]
  <2>1. toServer'[j] = toServer[j + 1] /\ j + 1 \in 1..k /\ j + 1 \in 2..k
    BY <1>4
  <2>2. \A i \in 1..Len(returned) : returned[i][2] < toServer'[j]
    BY <1>1, <2>1 DEF UsbInv
  <2>3. ASSUME NEW i \in 1..(n + m), toHost'[i][1] = "RET_SUBMIT"
        PROVE  toHost'[i][2] < toServer'[j]
    <3>1. (i \in 1..n /\ toHost'[i] = toHost[i]) \/ toHost'[i] = a[1]
      BY <1>17, <2>3
    <3>2. CASE i \in 1..n /\ toHost'[i] = toHost[i]
      BY <1>1, <1>10, <2>1, <2>3, <3>2 DEF UsbInv
    <3>3. CASE toHost'[i] = a[1]
      BY <1>5, <1>8, <2>1, <3>3
    <3> QED
      BY <3>1, <3>2, <3>3
  <2>4. ASSUME NEW i \in 1..(k - 1), i < j
        PROVE  toServer'[i] < toServer'[j]
    <3>1. i + 1 \in 1..k /\ i + 1 < j + 1 /\ toServer'[i] = toServer[i + 1]
      BY <1>4, <2>4
    <3> QED
      BY <1>1, <2>1, <3>1 DEF UsbInv
  <2> QED
    BY <2>2, <2>3, <2>4
<1> QED
  BY <1>3, <1>4, <1>11, <1>15, <1>16, <1>18, <1>20, <1>21, <1>22 DEF UsbInv

LEMMA UsbStep ==
    ASSUME UsbInv, Usb!Next
    PROVE  UsbInv'
BY HostSubmits, HostReads, DeviceAnswers DEF Usb!Next

LEMMA UsbFollows ==
    ASSUME UsbInv
    PROVE  Usb!ReturnsInStep /\ Usb!TypeOK
<1>1. Usb!InStep
  <2>1. SUFFICES ASSUME toHost # << >>
                 PROVE  left = 0 <=> Head(toHost)[1] = "RET_SUBMIT"
    BY DEF Usb!InStep
  <2>2. toHost \in Seq(Parts) /\ 1 \in 1..Len(toHost) /\ Head(toHost) = toHost[1]
    BY <2>1 DEF UsbInv, UsbTypes
  <2>3. PICK f : Announced(toHost, f) /\ f[1] = left
    BY DEF UsbInv
  <2> QED
    BY <2>2, <2>3 DEF Announced
<1>2. DOMAIN returned = 1..Len(returned)
  BY DEF UsbInv, UsbTypes
<1>3. Usb!Numbered
  <2>1. ASSUME NEW i \in 1..Len(returned), NEW j \in 1..Len(returned), i < j
        PROVE  returned[i][2] < returned[j][2]
    BY <2>1 DEF UsbInv, Numbers, Good
  <2> QED
    BY <1>2, <2>1 DEF Usb!Numbered
<1>4. Usb!ConfigurationWhole
  BY <1>2 DEF UsbInv, Good, Usb!ConfigurationWhole
<1>5. Usb!TypeOK
  <2>1. 1..Len(submitted) \subseteq 1..MaxRequests /\ toServer \in Seq(1..Len(submitted))
    BY UsbSizes DEF UsbInv, UsbTypes
  <2>2. toServer \in Seq(1..MaxRequests)
    BY <2>1, SeqMonotonic
  <2> QED
    BY <2>2 DEF UsbInv, UsbTypes, Usb!TypeOK, Longest
<1> QED
  BY <1>1, <1>3, <1>4, <1>5 DEF Usb!ReturnsInStep

----------------------------------------------------------------------------
(* The parts together: what is not the part keeps its state.               *)

LEMMA UsbKept ==
    ASSUME UsbInv, UNCHANGED usb
    PROVE  UsbInv'
BY DEF UsbInv, UsbTypes, usb

LEMMA ServerTypesKept ==
    ASSUME ServerTypes, UNCHANGED server
    PROVE  ServerTypes'
BY DEF ServerTypes, server

LEMMA ServerKept ==
    ASSUME ServerInv, UNCHANGED server
    PROVE  ServerInv'
<1>1. ConnsInv' /\ EachEvent' /\ Answers'
  BY DEF ServerInv, ConnsInv, EachEvent, Answers, server
<1>2. (\E f : InTurn(f))'
  BY DEF ServerInv, InTurn, server
<1> QED
  BY <1>1, <1>2, ServerTypesKept DEF ServerInv, server

LEMMA WifiKept ==
    ASSUME WifiInv, UNCHANGED wifi
    PROVE  WifiInv'
BY DEF WifiInv, Queued, Told, wifi

LEMMA BridgeKept ==
    ASSUME BridgeInv, UNCHANGED bridge
    PROVE  BridgeInv'
<1>1. BridgeTypes' /\ SlotsInv' /\ OneOpen'
  BY DEF BridgeInv, BridgeTypes, SlotsInv, OneOpen, Bridge!OneClient, bridge
<1>2. EventsInv' /\ ChunksInv' /\ (Bridge!BaudFirst)'
  BY DEF BridgeInv, EventsInv, ChunksInv, NumberedFrom, Bridge!BaudFirst, bridge
<1> QED
  BY <1>1, <1>2 DEF BridgeInv

(* Each part has its invariant; that of the server says more when several  *)
(* clients come at once, and needs their events to fit.                    *)
NetworkInv == UsbInv /\ ServerTypes /\ WifiInv /\ BridgeInv
ManyInv == part = "many" => ServerInv

LEMMA NetworkInit == Init => NetworkInv /\ ManyInv
BY UsbInit, ServerTypesInit, ServerInit, WifiInit, BridgeInit DEF Init, NetworkInv, ManyInv

LEMMA NetworkStep ==
    ASSUME NetworkInv, [Next]_vars
    PROVE  NetworkInv'
<1>1. CASE UNCHANGED << usb, server, wifi, bridge >>
  BY <1>1, UsbKept, ServerTypesKept, WifiKept, BridgeKept DEF NetworkInv
<1>2. CASE Usb!Next /\ UNCHANGED << server, wifi, bridge >>
  BY <1>2, UsbStep, ServerTypesKept, WifiKept, BridgeKept DEF NetworkInv
<1>3. CASE (OneByOne!Next \/ Many!Next) /\ UNCHANGED << usb, wifi, bridge >>
  BY <1>3, UsbKept, AloneIsMany, ServerTypesStep, WifiKept, BridgeKept DEF NetworkInv
<1>4. CASE Wifi!Next /\ UNCHANGED << usb, server, bridge >>
  BY <1>4, UsbKept, ServerTypesKept, WifiStep, BridgeKept DEF NetworkInv
<1>5. CASE Bridge!Next /\ UNCHANGED << usb, server, wifi >>
  BY <1>5, UsbKept, ServerTypesKept, WifiKept, BridgeStep DEF NetworkInv
<1> QED
  BY <1>1, <1>2, <1>3, <1>4, <1>5 DEF Next, vars

LEMMA ManyStep ==
    ASSUME EventsFit, ManyInv, [Next]_vars
    PROVE  ManyInv'
<1>1. CASE UNCHANGED << part, server >>
  BY <1>1, ServerKept DEF ManyInv
<1>2. CASE UNCHANGED part /\ part = "alone"
  BY <1>2 DEF ManyInv
<1>3. CASE part = "many" /\ Many!Next
  BY <1>3, ServerStep DEF ManyInv
<1> QED
  BY <1>1, <1>2, <1>3 DEF Next, vars

LEMMA NetworkHolds == Spec => []NetworkInv
<1>1. Init => NetworkInv
  BY NetworkInit
<1>2. NetworkInv /\ [Next]_vars => NetworkInv'
  BY NetworkStep
<1> QED
  BY <1>1, <1>2, PTL DEF Spec

(* Every variable of the servers and the network has its type, whoever     *)
(* connects, asks and leaves: the queues of events stay within their size, *)
(* the host never counts more than a descriptor, and index and access      *)
(* point stay within wifi_list.                                            *)
THEOREM NetworkTyped == Spec => []TypeOK
<1>1. NetworkInv => TypeOK
  BY UsbFollows, ServerTypesFollow, WifiFollows, BridgeFollows DEF NetworkInv, TypeOK
<1> QED
  BY <1>1, NetworkHolds, PTL

(* The control endpoint: whatever a host asks in whatever order while it   *)
(* enumerates the device, the stream it reads begins each return where the *)
(* one before it ends, the returns come in the order of the requests, and  *)
(* one for the configuration is as long as was asked for, or as all of it. *)
THEOREM ReturnsAreInStep == Spec => []ReturnsInStep
<1>1. NetworkInv => ReturnsInStep
  BY UsbFollows DEF NetworkInv, ReturnsInStep
<1> QED
  BY <1>1, NetworkHolds, PTL

(* As long as the queue of events has room for all that lwIP keeps for the *)
(* clients, each event that the tasks handle belongs to what its client    *)
(* did: the server's answers are to requests of the client they go to, the *)
(* bridge has the client that is connected, and the LED shows whether the  *)
(* adapter has an address.                                                 *)
THEOREM EventsAreFollowed ==
    ASSUME EventsFit
    PROVE  Spec => []EventsFollow
<1>1. NetworkInv /\ ManyInv => EventsFollow
  BY ServerFollows, WifiFollows, BridgeFollows DEF NetworkInv, ManyInv, EventsFollow
<1>2. Init => ManyInv
  BY NetworkInit
<1>3. ManyInv /\ [Next]_vars => ManyInv'
  BY ManyStep
<1>4. Spec => []ManyInv
  BY <1>2, <1>3, PTL DEF Spec
<1> QED
  BY <1>1, <1>4, NetworkHolds, PTL

==============================================================================
