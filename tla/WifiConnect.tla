---------------------------- MODULE WifiConnect ----------------------------
(***************************************************************************)
(* The WiFi connection (main/wifi_handle.c): the driver tries the access   *)
(* point it is configured for and queues events; the handler of the event  *)
(* task takes the next of wifi_list at every disconnect, and connects      *)
(* again.  wifi_init waits for the first address.                          *)
(***************************************************************************)
EXTENDS Integers, Sequences

CONSTANTS
    WIFI_LIST_SIZE,
    MaxEvents    \* in the queue of the event task: a bound

WifiAssumption == {WIFI_LIST_SIZE, MaxEvents} \subseteq Nat \ {0}

APs == 0..WIFI_LIST_SIZE - 1

VARIABLES
    ssid_index, config,    \* the next of wifi_list, and the one configured
    driver, events,        \* of the WiFi driver
    available,             \* access points in reach
    IPV4_GOTIP_BIT, LED_WIFI_STATUS,
    handled,               \* where the handler is in a disconnect
    pc                     \* of wifi_init

flags == << IPV4_GOTIP_BIT, LED_WIFI_STATUS >>
vars == << ssid_index, config, driver, events, available, flags, handled, pc >>

(* wifi_init configures the first and starts the driver.                   *)
Init ==
    /\ ssid_index = 1 /\ config = 0
    /\ driver = "idle" /\ events = << "STA_START" >> /\ available \in SUBSET APs
    /\ IPV4_GOTIP_BIT = FALSE /\ LED_WIFI_STATUS = FALSE
    /\ handled = "no" /\ pc = "wait_for_ip"

----------------------------------------------------------------------------
(* The driver                                                              *)

Queue(event) == Len(events) < MaxEvents /\ events' = Append(events, event)

esp_wifi_connect == driver' = "connecting"

Associate ==
    /\ driver = "connecting" /\ config \in available
    /\ driver' = "associated" /\ Queue("STA_CONNECTED")
    /\ UNCHANGED << ssid_index, config, available, flags, handled, pc >>

GotIp ==
    /\ driver = "associated" /\ config \in available
    /\ driver' = "ip" /\ Queue("STA_GOT_IP")
    /\ UNCHANGED << ssid_index, config, available, flags, handled, pc >>

(* The access point is not found, or lost.                                 *)
Lose ==
    /\ driver \in {"connecting", "associated", "ip"} /\ config \notin available
    /\ driver' = "idle" /\ Queue("STA_DISCONNECTED")
    /\ UNCHANGED << ssid_index, config, available, flags, handled, pc >>

Move ==
    /\ available' \in SUBSET APs
    /\ UNCHANGED << ssid_index, config, driver, events, flags, handled, pc >>

----------------------------------------------------------------------------
(* The handler                                                             *)

Take(event) == handled = "no" /\ events # << >> /\ Head(events) = event /\ events' = Tail(events)

Start ==
    /\ Take("STA_START") /\ esp_wifi_connect
    /\ UNCHANGED << ssid_index, config, available, flags, handled, pc >>

Connected ==
    /\ Take("STA_CONNECTED")
    /\ UNCHANGED << ssid_index, config, driver, available, flags, handled, pc >>

GotIpHandled ==
    /\ Take("STA_GOT_IP") /\ IPV4_GOTIP_BIT' = TRUE /\ LED_WIFI_STATUS' = TRUE
    /\ UNCHANGED << ssid_index, config, driver, available, handled, pc >>

(* Mutant: the index wraps one early.                                      *)
ssid_change_early ==
    LET index == IF ssid_index >= WIFI_LIST_SIZE - 1 THEN 0 ELSE ssid_index
    IN config' = index /\ ssid_index' = index + 1

(* Mutant: the index wraps one late.                                       *)
ssid_change_late ==
    LET index == IF ssid_index > WIFI_LIST_SIZE THEN 0 ELSE ssid_index
    IN config' = index /\ ssid_index' = index + 1

ssid_change ==
    LET index == IF ssid_index > WIFI_LIST_SIZE - 1 THEN 0 ELSE ssid_index
    IN config' = index /\ ssid_index' = index + 1

(* The driver tries again before the rest of the handler has run.          *)
Disconnected ==
    /\ Take("STA_DISCONNECTED") /\ LED_WIFI_STATUS' = FALSE
    /\ ssid_change /\ esp_wifi_connect /\ handled' = "clear"
    /\ UNCHANGED << available, IPV4_GOTIP_BIT, pc >>

(* Mutant: the bit is left as it is.                                      *)
ClearNothing ==
    /\ handled = "clear" /\ handled' = "no"
    /\ UNCHANGED << ssid_index, config, driver, events, available, flags, pc >>

Clear ==
    /\ handled = "clear" /\ handled' = "no" /\ IPV4_GOTIP_BIT' = FALSE
    /\ UNCHANGED << ssid_index, config, driver, events, available, LED_WIFI_STATUS, pc >>

wait_for_ip ==
    /\ pc = "wait_for_ip" /\ IPV4_GOTIP_BIT /\ pc' = "done"
    /\ UNCHANGED << ssid_index, config, driver, events, available, flags, handled >>

----------------------------------------------------------------------------

event_handler == Start \/ Connected \/ GotIpHandled \/ Disconnected \/ Clear
Driver == Associate \/ GotIp \/ Lose

Next == Driver \/ Move \/ event_handler \/ wait_for_ip

(* The driver comes to an end with every attempt, and the event task and   *)
(* the one that waits are not starved.                                     *)
Spec ==
    /\ Init /\ [][Next]_vars
    /\ WF_vars(Driver) /\ WF_vars(event_handler) /\ WF_vars(wait_for_ip)

----------------------------------------------------------------------------

(* Every variable has its type; the index is in the list of access points. *)
TypeOK ==
    /\ ssid_index \in 1..WIFI_LIST_SIZE /\ config \in APs
    /\ driver \in {"idle", "connecting", "associated", "ip"}
    /\ events \in Seq({"STA_START", "STA_CONNECTED", "STA_GOT_IP", "STA_DISCONNECTED"}) /\ Len(events) <= MaxEvents

(* Once the events are handled, bit and LED say whether there is an        *)
(* address, whatever the driver did between an event and its handling.     *)
FlagsFollow == events = << >> /\ handled = "no" => IPV4_GOTIP_BIT = (driver = "ip") /\ LED_WIFI_STATUS = IPV4_GOTIP_BIT

(* As long as one of the access points stays in reach, the adapter is      *)
(* connected again and again, whichever it is and whatever the others do.  *)
EachIsTried == \A ap \in APs: <>[](ap \in available) => []<>(driver = "ip")

=============================================================================
