------------------------------ MODULE DapProbe ------------------------------
(***************************************************************************)
(* The command path of the probe: the server task and the DAP task over    *)
(* the two ring buffers, from power-on through any number of connections.  *)
(***************************************************************************)
EXTENDS DapThread, UsbipSession

Init ==
    /\ inH = FALSE /\ outH = FALSE
    /\ in = << >> /\ out = << >>
    /\ dap_respond = 0
    /\ notify = 0
    /\ kRestart = "NO_SIGNAL"
    /\ fault = "none"
    /\ dpc = "start" /\ item = NoPacket
    /\ tpc = "accept" /\ kState = "ACCEPTING" /\ elBuf = FALSE
    /\ sess = 0 /\ sent = 0 /\ owed = 0 /\ cut = 0
    /\ lastExec = NoPacket /\ lastReply = NoPacket

(* After the use of a NULL or a freed buffer nothing is said of the device *)
Faulted == fault # "none" /\ UNCHANGED vars

(* The server waits in accept(), or is gone; no further client is served. *)
NoClient == tpc \in {"accept", "dead"} /\ UNCHANGED vars

Next ==
    \/ fault = "none" /\ ClientNext
    \/ fault = "none" /\ TcpNext
    \/ fault = "none" /\ DapNext
    \/ Faulted
    \/ NoClient

Spec == Init /\ [][Next]_vars

(* A task that is ready is eventually scheduled, and the time-outs of the  *)
(* ring buffer calls expire.  Clients are under no obligation.             *)
FairSpec ==
    /\ Spec
    /\ WF_vars(fault = "none" /\ TcpNext)
    /\ WF_vars(fault = "none" /\ DapNext)

----------------------------------------------------------------------------

One(b) == IF b THEN 1 ELSE 0

(* Every variable has its type; the ring buffers are never over-full.      *)
TypeOK ==
    /\ inH \in BOOLEAN /\ outH \in BOOLEAN
    /\ in \in Seq(Packet) /\ Len(in) <= BufferNum
    /\ out \in Seq(Packet) /\ Len(out) <= BufferNum
    /\ dap_respond \in Int
    /\ notify \in Nat
    /\ kRestart \in RestartSignal
    /\ fault \in {"none", "null", "freed"}
    /\ dpc \in DapPC /\ item \in Packet
    /\ tpc \in TcpPC /\ kState \in ConnState /\ elBuf \in BOOLEAN
    /\ sess \in Nat /\ sent \in Nat /\ owed \in Int /\ cut \in Nat
    /\ lastExec \in Packet /\ lastReply \in Packet

(* fast_reply() and handle_dap_unlink() read dataOUT only while            *)
(* dap_respond > 0.  However the tasks interleave and whatever a           *)
(* disconnection resets, no response stays in dataOUT without being        *)
(* counted or about to be, and the count is never negative: a response can *)
(* always be fetched.                                                      *)
ResponsesCounted ==
    /\ dap_respond >= 0
    /\ Len(out) <= dap_respond + One(dpc = "incr")
                     + One(tpc \in {"poll_ret", "unlink_ret"})

(* DAP_Thread sleeps until it is notified and takes one packet for each    *)
(* notification: a packet in dataIN always has a notification of its own,  *)
(* pending or about to be given, so no command is left unseen.             *)
CommandsNotified ==
    inH /\ outH =>
        Len(in) - One(dpc = "process")
            <= notify + One(tpc = "notify") + One(dpc = "wait_in")

(* The commands reach the target in the order in which they were received, *)
(* and none twice, over all connections and resets.                        *)
ExecutedInOrder ==
    [][dpc = "process" /\ dpc' = "out_send" => Before(lastExec, item)]_vars

(* The responses are sent in the order of their commands, none twice.      *)
RepliedInOrder ==
    [][tpc = "poll_wait" /\ tpc' = "poll_dec" => Before(lastReply, lastReply')]_vars

(* On the first connection a poll that found dap_respond > 0 always finds  *)
(* the response: it is answered with data, never left without an answer.   *)
(* Later connections may lose answers: the reset does not clear            *)
(* dap_respond.                                                            *)
PollsAnswered == sess = 1 /\ tpc = "poll_wait" => out # << >>

(* The two tasks are never blocked on each other, the server task on a     *)
(* full dataIN and the DAP task on a full dataOUT.                         *)
NoMutualBlock ==
    ~ /\ tpc = "in_blocked" /\ Len(in) = BufferNum
      /\ dpc = "out_blocked" /\ Len(out) = BufferNum

(* No ring buffer is used when it is NULL or after it was deleted, as long *)
(* as clients wait for the reset (HostWaits).                              *)
NoFault == fault = "none"

(* A client that is attached has both buffers, whatever kind of client the *)
(* ones before it were, if it connected after the reset for the last of    *)
(* them (HostWaits; the signal of a hasty one may be lost).                *)
BuffersWhileEmulating == kState = "EMULATING" => inH /\ outH

(* A command of an elaphureLink client runs in the server task: the DAP    *)
(* task is not driving the pins then, and its buffers are freed. So it is  *)
(* when the client connected after the reset for the one before it         *)
(* (HostWaits); a hasty client may find the last command of that one still *)
(* running.                                                                *)
ElOwnsTarget == tpc = "el_exec" => dpc # "process" /\ ~inH /\ ~outH

(* A client reads the responses to its own commands only.                  *)
OwnResponses == tpc \in {"poll_dec", "poll_ret"} => lastReply.s = sess

(* handle_dap_unlink() is there to remove the lagging response of a        *)
(* transfer that was unlinked: no response to a command received before an *)
(* unlink is sent after it.                                                *)
NoLaggingResponse == tpc = "poll_dec" => cut < lastReply.n

(* After a connection closed, the DAP task has its buffers anew and sleeps.*)
ResetDone == kRestart = "RESET_HANDLE" ~> Quiet

(* An acknowledged command is executed unless the connection is closed.    *)
CommandsExecuted ==
    \A s \in 1..MaxSession, n \in 1..MaxRequest :
        (sess = s /\ sent = n /\ kState = "EMULATING")
            ~> (~Before(lastExec, [s |-> s, n |-> n]) \/ tpc = "close_notify")

----------------------------------------------------------------------------
(* The probe as a pipe of responses.                                       *)

(* The commands that are neither answered nor discarded, oldest first.     *)
Unread == IF tpc \in {"poll_dec", "poll_ret", "unlink_dec", "unlink_ret"}
          THEN Tail(out) ELSE out
InHand == IF dpc \in {"out_send", "out_blocked"} THEN <<item>> ELSE << >>
Unsent == IF tpc \in {"in_send", "in_blocked"} THEN <<Received>> ELSE << >>

Pending == IF tpc \in {"accept", "close_notify", "dead"} THEN << >>
           ELSE Unread \o InHand \o in \o Unsent

Pipe == INSTANCE ResponsePipe WITH pending <- Pending

(* The probe implements the pipe.                                          *)
ImplementsPipe == Pipe!Spec

=============================================================================
