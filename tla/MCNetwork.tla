------------------------------ MODULE MCNetwork ------------------------------
(***************************************************************************)
(* The servers and the network on small instances: the control endpoint    *)
(* (UsbControl), the USBIP server on netconns, with clients one after the  *)
(* other and with several at once (Netconn), the WiFi connection           *)
(* (WifiConnect), and the bridge with clients that wait until they are     *)
(* accepted (UartBridge).                                                  *)
(*                                                                         *)
(* Each behaviour is one of a single part, the others staying as they      *)
(* began, as in MCDap.                                                     *)
(***************************************************************************)
EXTENDS Integers, Sequences, FiniteSets

CONSTANTS
    InterfaceLength, MaxRequests, InFlight,       \* of UsbControl
    Listers, Attachers, RecvMbox, NetconnEvents,  \* of Netconn
    UrbsAlone, UrbsMany,
    WIFI_LIST_SIZE, MaxEvents,                    \* of WifiConnect
    Slots, EVENTS_QUEUE_SIZE, MaxClients, MaxChunks, MaxUart   \* of UartBridge

VARIABLES
    part,    \* the part of the probe that this behaviour is about
    \* UsbControl
    toServer, toHost, submitted, returned, left,
    \* Netconn
    xQueue_events, state, pending_err, inbox, acceptmbox, kState, kNetconn,
    restarts, requests, answers,
    \* WifiConnect
    ssid_index, config, driver, events, available, IPV4_GOTIP_BIT,
    LED_WIFI_STATUS, handled, pc,
    \* UartBridge
    uart_server_events, slotState, slotErr, slotInbox, client, backlog,
    uart_netconn, is_conn_valid, is_first_time_recv, uart, baud, uartIn,
    toClient, clients, chunksSent

usb ==
    << toServer, toHost, submitted, returned, left >>
server ==
    << xQueue_events, state, pending_err, inbox, acceptmbox, kState, kNetconn,
       restarts, requests, answers >>
wifi ==
    << ssid_index, config, driver, events, available, IPV4_GOTIP_BIT,
       LED_WIFI_STATUS, handled, pc >>
bridge ==
    << uart_server_events, slotState, slotErr, slotInbox, client, backlog,
       uart_netconn, is_conn_valid, is_first_time_recv, uart, baud, uartIn,
       toClient, clients, chunksSent >>
vars == << part, usb, server, wifi, bridge >>

(* Requests to the control endpoint                                        *)
Get(descriptor, length) == << "80", "GET_DESCRIPTOR", descriptor, length >>
Ask(type, request) == << type, request, "", 0 >>

(* Those that have a return, as a host sends them to enumerate the device  *)
Enumeration ==
    { Get("DEVICE", 18), Get("CONFIG", 9), Get("CONFIG", 9 + InterfaceLength), Get("CONFIG", 255), Get("LANGUAGES", 255), Get("PRODUCT", 255),
      Get("BOS", 5), Get("BOS", 255), Get("DEVICE_QUALIFIER", 10), Get("INTERFACE", 9), Get("STRING_EE", 18),
      << "C0", "VENDOR", "MS_OS_20_DESCRIPTOR_INDEX", 162 >>, Ask("00", "SET_ADDRESS"), Ask("00", "SET_CONFIGURATION"),
      Ask("01", "SET_INTERFACE"), Ask("02", "CLEAR_FEATURE"), Ask("21", "SET_IDLE"), << "82", "GET_STATUS", "", 2 >> }

----------------------------------------------------------------------------

Usb == INSTANCE UsbControl WITH
    Requests <- Enumeration, Joined <- FALSE
OneByOne == INSTANCE Netconn WITH
    EVENTS_QUEUE_SIZE <- NetconnEvents, MaxUrbs <- UrbsAlone, Alone <- TRUE,
    Resets <- FALSE, sent <- requests
Many == INSTANCE Netconn WITH
    EVENTS_QUEUE_SIZE <- NetconnEvents, MaxUrbs <- UrbsMany, Alone <- FALSE,
    Resets <- TRUE, sent <- requests
Wifi == INSTANCE WifiConnect
Bridge == INSTANCE UartBridge WITH
    Rude <- FALSE, sent <- chunksSent, state <- slotState,
    pending_err <- slotErr, inbox <- slotInbox

ASSUME PartsAssumption ==
    /\ Usb!ControlAssumption /\ OneByOne!NetconnAssumption
    /\ Wifi!WifiAssumption /\ Bridge!BridgeAssumption
    /\ 9 + InterfaceLength <= 255   \* all of the configuration comes for the longest request

(* What is not the part begins in one of its initial states.               *)
Init ==
    /\ part \in { "usb", "alone", "many", "wifi", "bridge" }
    /\ Usb!Init /\ OneByOne!Init /\ Bridge!Init
    /\ Wifi!Init /\ (part # "wifi" => available = {})

Next ==
    \/ part = "usb" /\ Usb!Next
       /\ UNCHANGED << part, server, wifi, bridge >>
    \/ part = "alone" /\ OneByOne!Next
       /\ UNCHANGED << part, usb, wifi, bridge >>
    \/ part = "many" /\ Many!Next
       /\ UNCHANGED << part, usb, wifi, bridge >>
    \/ part = "wifi" /\ Wifi!Next
       /\ UNCHANGED << part, usb, server, bridge >>
    \/ part = "bridge" /\ Bridge!Next
       /\ UNCHANGED << part, usb, server, wifi >>

(* The fairness of the modules: the tasks go on with what there is to do,  *)
(* and the driver of the WiFi comes to an end with every attempt.          *)
Task(p, Step, others) == part = p /\ Step /\ UNCHANGED << part, others >>
Spec ==
    /\ Init /\ [][Next]_vars
    /\ WF_vars(Task("usb", Usb!Recv, << server, wifi, bridge >>))
    /\ WF_vars(Task("usb", Usb!Read, << server, wifi, bridge >>))
    /\ WF_vars(Task("alone", OneByOne!tcp_netconn_task, << usb, wifi, bridge >>))
    /\ WF_vars(Task("wifi", Wifi!Driver, << usb, server, bridge >>))
    /\ WF_vars(Task("wifi", Wifi!event_handler, << usb, server, bridge >>))
    /\ WF_vars(Task("bridge", Bridge!uart_bridge_task, << usb, server, wifi >>))

----------------------------------------------------------------------------

(* Every variable has its type.                                            *)
TypeOK == Usb!TypeOK /\ OneByOne!TypeOK /\ Wifi!TypeOK /\ Bridge!TypeOK

(* The control endpoint: a host that enumerates the device finds each      *)
(* return where it begins, and that of the configuration with the length   *)
(* that was asked for.                                                     *)
ReturnsInStep == part = "usb" => Usb!ReturnsInStep

(* Whatever the order in which events come and are handled, they belong to *)
(* what the clients did, or the access point; and so do the server's       *)
(* answers, the client of the bridge, and what is shown of the connection. *)
(* Each client of the server has a netconn of its own; those of the bridge *)
(* wait until they are accepted.                                           *)
EventsFollow ==
    /\ part = "many" => Many!EventsFollow
    /\ part = "bridge" => Bridge!EventsFollow
    /\ part = "wifi" => Wifi!FlagsFollow

(* What is asked is answered: every request to the control endpoint, if it *)
(* has a return and comes in a segment of its own, and every request of    *)
(* clients that come one after the other, each of which finds the server   *)
(* as the first did, even when it connects before the end of the last is   *)
(* handled.                                                                *)
Answered == []<>(part = "usb" => Usb!AllReturned) /\ []<>(part = "alone" => OneByOne!AllAnswered)

(* The bridge: what the UART received goes to the client that was accepted *)
(* in turn, early or late in its stay, and does not stay in the UART for   *)
(* as long as it is there.  No client is rude here, so that no event is of *)
(* a netconn that is gone.                                                 *)
UartIsSent == Bridge!UartIsSent

(* The WiFi: as long as one of the access points stays in reach, the       *)
(* adapter is connected again and again, whatever the others do.           *)
EachIsTried == \A ap \in Wifi!APs: <>[](part = "wifi" /\ ap \in available) => []<>(driver = "ip")

=============================================================================
