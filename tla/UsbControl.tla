----------------------------- MODULE UsbControl -----------------------------
(***************************************************************************)
(* The control endpoint (usb_handle.c) of the emulated device: the host    *)
(* sends URBs over a stream, recv takes what has come for one message      *)
(* (tcp_server.c), and the handler sends a header that says how many bytes *)
(* follow, and the bytes.  A request is                                    *)
(*   << bmRequestType, bRequest, what it is about, data_length >>.         *)
(***************************************************************************)
EXTENDS Integers, Sequences, FiniteSets, SequencesExt

CONSTANTS
    Requests,
    InterfaceLength,   \* of kUSBd0InterfaceDescriptor, with its endpoints
    MaxRequests,       \* a bound
    InFlight,          \* URBs that wait for their return at a time
    Joined             \* recv may take more than one message

ControlAssumption ==
    /\ IsFiniteSet(Requests) /\ {InterfaceLength, MaxRequests, InFlight} \subseteq Nat \ {0} /\ Joined \in BOOLEAN

VARIABLES
    toServer, toHost,   \* the streams: numbered requests; headers, and parts of descriptors
    submitted,          \* the request of each number
    returned,           \* what the host has read: the header of each number, and the bytes it counts
    left                \* of the return that the host reads

vars == << toServer, toHost, submitted, returned, left >>

Init == toServer = << >> /\ toHost = << >> /\ submitted = << >> /\ returned = << >> /\ left = 0

----------------------------------------------------------------------------
(* The device                                                              *)

(* Requests whose return has no data.                                      *)
Acknowledged ==
    ({"00"} \X {"CLEAR_FEATURE", "SET_FEATURE", "SET_ADDRESS", "SET_DESCRIPTOR", "SET_CONFIGURATION"})
    \union ({"01"} \X {"CLEAR_FEATURE", "SET_FEATURE", "SET_INTERFACE"})
    \union ({"02"} \X {"CLEAR_FEATURE", "SET_FEATURE"})
    \union ({"80"} \X {"GET_CONFIGURATION", "GET_STATUS"})
    \union ({"81"} \X {"GET_INTERFACE", "SET_SYNCH_FRAME", "GET_STATUS"})
    \union { << "82", "GET_STATUS" >>, << "21", "SET_IDLE" >> }

(* Those of GET_DESCRIPTOR that are sent as they are, with their lengths,  *)
(* and those that are not implemented.                                     *)
Whole == [DEVICE |-> 18, LANGUAGES |-> 4, MANUFACTURER |-> 22, PRODUCT |-> 46, SERIAL |-> 10, DEVICE_QUALIFIER |-> 10]
Unimplemented == {"INTERFACE", "ENDPOINT", "OTHER_SPEED_CONFIGURATION", "INTERFACE_POWER", "STRING_EE"}

send_stage2_submit(n, length) == << << "RET_SUBMIT", n, length >> >>
send_stage2_submit_data(n, data, length) ==
    IF length = 0 THEN send_stage2_submit(n, 0) ELSE send_stage2_submit(n, length) \o << << "DATA", data, length >> >>

Smaller(a, b) == IF a < b THEN a ELSE b

(* Mutant: the first part is announced, and all is sent.                   *)
ConfigurationAnnounced(n, length) ==
    send_stage2_submit(n, IF length = 9 THEN 9 ELSE 9 + InterfaceLength)
        \o << << "DATA", "CONFIG", 9 >>, << "DATA", "CONFIG", InterfaceLength >> >>

(* Mutant: the rest of it is what is announced.                            *)
ConfigurationRest(n, length) ==
    IF length = 9 THEN send_stage2_submit(n, 9) \o << << "DATA", "CONFIG", 9 >> >>
    ELSE send_stage2_submit(n, InterfaceLength) \o << << "DATA", "CONFIG", InterfaceLength >> >>

(* The host asks for the first 9 bytes, and then for all of it.            *)
Configuration(n, length) ==
    IF length = 9 THEN send_stage2_submit(n, 9) \o << << "DATA", "CONFIG", 9 >> >>
    ELSE send_stage2_submit(n, 9 + InterfaceLength) \o << << "DATA", "CONFIG", 9 >>, << "DATA", "CONFIG", InterfaceLength >> >>

(* Mutant: the BOS descriptor is as long as the host asks.                 *)
handleGetBosAsked(n, descriptor, length) ==
    IF descriptor \in DOMAIN Whole THEN send_stage2_submit_data(n, descriptor, Whole[descriptor])
    ELSE IF descriptor = "CONFIG" THEN Configuration(n, length)
    ELSE IF descriptor = "BOS" THEN send_stage2_submit_data(n, "BOS", length)
    ELSE IF descriptor \in Unimplemented THEN send_stage2_submit(n, 0)
    ELSE << >>

handleGetDescriptor(n, descriptor, length) ==
    IF descriptor \in DOMAIN Whole THEN send_stage2_submit_data(n, descriptor, Whole[descriptor])
    ELSE IF descriptor = "CONFIG" THEN Configuration(n, length)
    ELSE IF descriptor = "BOS" THEN send_stage2_submit_data(n, "BOS", Smaller(33, length))
    ELSE IF descriptor \in Unimplemented THEN send_stage2_submit(n, 0)
    ELSE << >>

(* Mutant: the requests that are ignored have no return either.            *)
handleIgnores(n, r) ==
    IF r[1] = "80" /\ r[2] = "GET_DESCRIPTOR" THEN handleGetDescriptor(n, r[3], r[4])
    ELSE IF r[1] = "C0" /\ r[3] = "MS_OS_20_DESCRIPTOR_INDEX" THEN send_stage2_submit_data(n, r[3], 162)
    ELSE << >>

(* What is sent; nothing for a request that is not known.                  *)
handleUSBControlRequest(n, r) ==
    IF << r[1], r[2] >> \in Acknowledged THEN send_stage2_submit(n, 0)
    ELSE IF r[1] = "80" /\ r[2] = "GET_DESCRIPTOR" THEN handleGetDescriptor(n, r[3], r[4])
    ELSE IF r[1] = "C0" /\ r[3] = "MS_OS_20_DESCRIPTOR_INDEX" THEN send_stage2_submit_data(n, r[3], 162)
    ELSE << >>

(* Mutant: what recv took is handled, and handled once more.               *)
RecvAgain ==
    /\ toServer # << >>
    /\ \E k \in 1..(IF Joined THEN Len(toServer) ELSE 1): toServer' = SubSeq(toServer, k + 1, Len(toServer))
    /\ LET answer == handleUSBControlRequest(Head(toServer), submitted[Head(toServer)]) IN toHost' = toHost \o answer \o answer
    /\ UNCHANGED << submitted, returned, left >>

(* Only the first message of what recv took is handled.                    *)
Recv ==
    /\ toServer # << >>
    /\ \E k \in 1..(IF Joined THEN Len(toServer) ELSE 1): toServer' = SubSeq(toServer, k + 1, Len(toServer))
    /\ toHost' = toHost \o handleUSBControlRequest(Head(toServer), submitted[Head(toServer)])
    /\ UNCHANGED << submitted, returned, left >>

----------------------------------------------------------------------------
(* The host                                                                *)

Submit ==
    /\ Len(submitted) < MaxRequests /\ Len(submitted) - Len(returned) < InFlight
    /\ \E r \in Requests: submitted' = Append(submitted, r)
    /\ toServer' = Append(toServer, Len(submitted'))
    /\ UNCHANGED << toHost, returned, left >>

(* The next of the stream is a header, or what the last header announced.  *)
Read ==
    /\ toHost # << >> /\ toHost' = Tail(toHost)
    /\ IF left = 0 THEN returned' = Append(returned, Head(toHost)) /\ left' = Head(toHost)[3]
       ELSE left' = left - Head(toHost)[3] /\ UNCHANGED returned
    /\ UNCHANGED << toServer, submitted >>

----------------------------------------------------------------------------

Next == Submit \/ Recv \/ Read

(* The server's task and the network go on.                                *)
Spec == Init /\ [][Next]_vars /\ WF_vars(Recv) /\ WF_vars(Read)

----------------------------------------------------------------------------

(* Every variable has its type; what is left of a return is no longer than *)
(* the longest descriptor.                                                 *)
TypeOK ==
    /\ submitted \in Seq(Requests) /\ toServer \in Seq(1..MaxRequests)
    /\ left \in 0..9 + InterfaceLength + 162

(* The host reads headers and data as they were sent: no return is longer  *)
(* or shorter than its header says.                                        *)
InStep == toHost # << >> => (left = 0 <=> Head(toHost)[1] = "RET_SUBMIT")

(* A return is that of the request with its number: the numbers come in    *)
(* the order of the requests, and none comes twice.                        *)
Numbered == \A i, j \in DOMAIN returned: i < j => returned[i][2] < returned[j][2]

(* What the configuration says of its length is what the host gets when it *)
(* asks for all of it; and the first part is as long as was asked.         *)
ConfigurationWhole ==
    \A i \in DOMAIN returned:
        LET r == submitted[returned[i][2]] IN r[3] = "CONFIG" => returned[i][3] = Smaller(r[4], 9 + InterfaceLength)

(* Every request that the program knows is returned, if it does not come   *)
(* together with the one before it.                                        *)
AllReturned == Len(returned) = Len(submitted)
Answered == []<>AllReturned

(* Each return is found where it begins, is that of the next request, and  *)
(* for the configuration as long as was asked or as all of it. The lengths *)
(* of other descriptors are not compared: the program sends them whole,    *)
(* and the requests ask for that much.                                     *)
ReturnsInStep == InStep /\ Numbered /\ ConfigurationWhole

=============================================================================
