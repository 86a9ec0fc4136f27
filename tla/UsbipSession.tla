---------------------------- MODULE UsbipSession ----------------------------
(***************************************************************************)
(* tcp_server_task (main/tcp_server.c) with what it calls for a message:   *)
(* attach() and emulate() (main/usbip_server.c), fast_reply(),             *)
(* handle_dap_data_request() and handle_dap_unlink() (main/DAP_handle.c),  *)
(* and the elaphureLink handshake and data phase.                          *)
(*                                                                         *)
(* The client is part of the receive actions: each takes one message that  *)
(* a client may have sent.  One recv() returns one message.                *)
(***************************************************************************)
EXTENDS DapBuffers

----------------------------------------------------------------------------
(* Connections *)

Accept ==
    /\ tpc = "accept"
    /\ sess < MaxSession
    /\ HostWaits => Quiet
    /\ sess' = sess + 1
    /\ sent' = 0 /\ owed' = 0 /\ cut' = 0
    /\ tpc' = "recv"
    /\ UNCHANGED <<handles, rings, dap_respond, notify, kRestart, fault, dapLocal,
                   kState, elBuf, lastExec, lastReply>>

(* accept() fails for want of memory.  The loop opens a new socket and     *)
(* binds it to the port the old one still listens on; that fails too, and  *)
(* the task deletes itself.                                                *)
AcceptFail ==
    /\ tpc = "accept"
    /\ AllocMayFail
    /\ tpc' = "dead"
    /\ UNCHANGED <<handles, rings, dap_respond, notify, kRestart, fault, dapLocal,
                   kState, elBuf, history>>

(* Mutant: the state of the connection survives it. *)
CloseKeepsState ==
    /\ tpc = "recv"
    /\ elBuf' = FALSE
    /\ kRestart' = "RESET_HANDLE"
    /\ tpc' = "close_notify"
    /\ UNCHANGED <<handles, rings, dap_respond, notify, fault, dapLocal, kState, history>>

(* recv() returned 0 or an error: the connection is closed and the DAP     *)
(* task told to reset.                                                     *)
Close ==
    /\ tpc = "recv"
    /\ kState' = IF kState \in {"EMULATING", "EL_DATA_PHASE"} THEN "ACCEPTING" ELSE kState
    /\ elBuf' = FALSE
    /\ kRestart' = "RESET_HANDLE"
    /\ tpc' = "close_notify"
    /\ UNCHANGED <<handles, rings, dap_respond, notify, fault, dapLocal, history>>

(* Mutant: nobody wakes the DAP task. *)
CloseNoNotify ==
    /\ tpc = "close_notify"
    /\ tpc' = "accept"
    /\ UNCHANGED <<handles, rings, dap_respond, notify, kRestart, fault, dapLocal,
                   kState, elBuf, history>>

(* xTaskNotifyGive(kDAPTaskHandle); the handle outlives the task. *)
CloseNotify ==
    /\ tpc = "close_notify"
    /\ \/ /\ dpc = "dead"
          /\ fault' = "freed"
          /\ UNCHANGED <<notify, tpc>>
       \/ /\ dpc # "dead"
          /\ notify' = notify + 1
          /\ tpc' = "accept"
          /\ UNCHANGED fault
    /\ UNCHANGED <<handles, rings, dap_respond, kRestart, dapLocal, kState, elBuf, history>>

----------------------------------------------------------------------------
(* elaphureLink: el_handshake_process, el_process_buffer_malloc and        *)
(* el_dap_data_process                                                     *)

(* Mutant: the DAP task is woken at the handshake, as it is at the close. *)
RecvHandshakeNotify ==
    /\ tpc = "recv"
    /\ kState \in {"ACCEPTING", "ATTACHING"}
    /\ kState' = "EL_DATA_PHASE"
    /\ kRestart' = "DELETE_HANDLE"
    /\ notify' = notify + 1
    /\ tpc' = IF elBuf THEN "recv" ELSE "el_malloc"
    /\ UNCHANGED <<handles, rings, dap_respond, fault, dapLocal, elBuf, history>>

(* A handshake is answered, and the DAP task told to delete its buffers.   *)
RecvHandshake ==
    /\ tpc = "recv"
    /\ kState \in {"ACCEPTING", "ATTACHING"}
    /\ kState' = "EL_DATA_PHASE"
    /\ kRestart' = "DELETE_HANDLE"
    /\ tpc' = IF elBuf THEN "recv" ELSE "el_malloc"
    /\ UNCHANGED <<handles, rings, dap_respond, notify, fault, dapLocal, elBuf, history>>

(* Mutant: the ring buffers are not freed. *)
ElProcessBufferMallocOnly ==
    /\ tpc = "el_malloc"
    /\ elBuf' \in Alloc
    /\ tpc' = "recv"
    /\ UNCHANGED <<handles, rings, dap_respond, notify, kRestart, fault, dapLocal,
                   kState, history>>

(* The ring buffers are freed, by this task, and the buffer allocated. *)
ElProcessBufferMalloc ==
    /\ tpc = "el_malloc"
    /\ FreeRings(DapInsideRing)
    /\ elBuf' \in Alloc
    /\ tpc' = "recv"
    /\ UNCHANGED <<dap_respond, notify, kRestart, dapLocal, kState, history>>

(* The command runs in this task: el_exec lasts while it drives the pins. *)
RecvElCommand ==
    /\ tpc = "recv"
    /\ kState = "EL_DATA_PHASE"
    /\ \/ elBuf /\ tpc' = "el_exec" /\ UNCHANGED fault
       \/ ~elBuf /\ fault' = "null" /\ UNCHANGED tpc
    /\ UNCHANGED <<handles, rings, dap_respond, notify, kRestart, dapLocal, kState, elBuf, history>>

ElCommandDone ==
    /\ tpc = "el_exec"
    /\ tpc' = "recv"
    /\ UNCHANGED <<handles, rings, dap_respond, notify, kRestart, fault, dapLocal,
                   kState, elBuf, history>>

----------------------------------------------------------------------------
(* USBIP: attach() *)

RecvImport ==
    /\ tpc = "recv"
    /\ kState \in {"ACCEPTING", "ATTACHING"}
    /\ kState' = "EMULATING"
    /\ UNCHANGED <<handles, rings, dap_respond, notify, kRestart, fault, dapLocal,
                   tpc, elBuf, history>>

(* A message that is answered, or dropped, with no effect on the buffers:  *)
(* a device list or an unknown command while attaching, a control transfer *)
(* or a transfer on endpoint 2 while emulating, and a poll for a response  *)
(* when none is announced, which fast_reply() answers with no data.        *)
RecvOther ==
    /\ tpc = "recv"
    /\ kState # "EL_DATA_PHASE"
    /\ kState' = IF kState = "ACCEPTING" THEN "ATTACHING" ELSE kState
    /\ UNCHANGED <<handles, rings, dap_respond, notify, kRestart, fault, dapLocal,
                   tpc, elBuf, history>>

----------------------------------------------------------------------------
(* USBIP: a command, endpoint 1 OUT (handle_dap_data_request) *)

(* send_stage2_submit() acknowledges the transfer first. *)
RecvCommand ==
    /\ tpc = "recv"
    /\ kState = "EMULATING"
    /\ sent < MaxRequest /\ owed < Window
    /\ sent' = sent + 1
    /\ owed' = owed + 1
    /\ tpc' = "in_send"
    /\ UNCHANGED <<handles, rings, dap_respond, notify, kRestart, fault, dapLocal,
                   kState, elBuf, sess, cut, lastExec, lastReply>>

(* xRingbufferSend(dataIN, portMAX_DELAY) *)
InSend ==
    /\ tpc = "in_send"
    /\ \/ /\ ~inH
          /\ fault' = "null"
          /\ UNCHANGED <<in, tpc>>
       \/ /\ inH /\ Len(in) < BufferNum
          /\ in' = Append(in, Received)
          /\ tpc' = "notify"
          /\ UNCHANGED fault
       \/ /\ inH /\ Len(in) >= BufferNum
          /\ tpc' = "in_blocked"
          /\ UNCHANGED <<in, fault>>
    /\ UNCHANGED <<handles, out, dap_respond, notify, kRestart, dapLocal,
                   kState, elBuf, history>>

(* The blocked xRingbufferSend(dataIN) gets its room. *)
InUnblock ==
    /\ tpc = "in_blocked"
    /\ Len(in) < BufferNum
    /\ in' = Append(in, Received)
    /\ tpc' = "notify"
    /\ UNCHANGED <<handles, out, dap_respond, notify, kRestart, fault, dapLocal,
                   kState, elBuf, history>>

(* Mutant: the notification is set to 1 instead of counted. *)
NotifyOnce ==
    /\ tpc = "notify"
    /\ notify' = 1
    /\ tpc' = "recv"
    /\ UNCHANGED <<handles, rings, dap_respond, kRestart, fault, dapLocal,
                   kState, elBuf, history>>

(* xTaskNotifyGive(kDAPTaskHandle) *)
Notify ==
    /\ tpc = "notify"
    /\ \/ /\ dpc = "dead"
          /\ fault' = "freed"
          /\ UNCHANGED <<notify, tpc>>
       \/ /\ dpc # "dead"
          /\ notify' = notify + 1
          /\ tpc' = "recv"
          /\ UNCHANGED fault
    /\ UNCHANGED <<handles, rings, dap_respond, kRestart, dapLocal, kState, elBuf, history>>

----------------------------------------------------------------------------
(* USBIP: a poll for a response, endpoint 1 IN (fast_reply), and an unlink *)
(* (handle_unlink).  Both look at dap_respond without the mutex and, when  *)
(* it is positive, wait up to 10 ms for an item of dataOUT.                *)

(* xRingbufferReceiveUpTo(dataOUT) is called ... *)
OutWait(pc) ==
    \/ outH /\ tpc' = pc /\ UNCHANGED fault
    \/ ~outH /\ fault' = "null" /\ UNCHANGED tpc

(* ... and gets an item, which stays in the buffer until it is returned. *)
OutGet(pc, next) ==
    /\ tpc = pc
    /\ out # << >>
    /\ owed' = owed - 1
    /\ tpc' = next

(* ... or nothing in time. *)
OutTimeout(pc, next) ==
    /\ tpc = pc
    /\ out = << >>
    /\ tpc' = next
    /\ UNCHANGED <<handles, rings, dap_respond, notify, kRestart, fault, dapLocal,
                   kState, elBuf, history>>

(* --dap_respond under the mutex *)
OutCount(pc, next) ==
    /\ tpc = pc
    /\ dap_respond' = dap_respond - 1
    /\ tpc' = next
    /\ UNCHANGED <<handles, rings, notify, kRestart, fault, dapLocal, kState, elBuf, history>>

(* vRingbufferReturnItem(dataOUT) *)
OutReturn(pc, next) ==
    /\ tpc = pc
    /\ out' = Tail(out)
    /\ tpc' = next
    /\ UNCHANGED <<handles, in, dap_respond, notify, kRestart, fault, dapLocal,
                   kState, elBuf, history>>

RecvPoll ==
    /\ tpc = "recv"
    /\ kState = "EMULATING"
    /\ dap_respond > 0
    /\ OutWait("poll_wait")
    /\ UNCHANGED <<handles, rings, dap_respond, notify, kRestart, dapLocal,
                   kState, elBuf, history>>

(* Mutant: the newest response is sent. *)
PollReplyNewest ==
    /\ OutGet("poll_wait", "poll_dec")
    /\ lastReply' = out[Len(out)]
    /\ UNCHANGED <<handles, rings, dap_respond, notify, kRestart, fault, dapLocal,
                   kState, elBuf, sess, sent, cut, lastExec>>

(* send_stage2_submit_data_fast() sends the item. *)
PollReply ==
    /\ OutGet("poll_wait", "poll_dec")
    /\ lastReply' = Head(out)
    /\ UNCHANGED <<handles, rings, dap_respond, notify, kRestart, fault, dapLocal,
                   kState, elBuf, sess, sent, cut, lastExec>>

(* fast_reply() returns 0, and handle_dap_data_response() does nothing:    *)
(* this poll is never answered.                                            *)
PollUnanswered == OutTimeout("poll_wait", "recv")

(* Mutant: the reply path forgets the decrement. *)
PollNoCount ==
    /\ tpc = "poll_dec"
    /\ tpc' = "poll_ret"
    /\ UNCHANGED <<handles, rings, dap_respond, notify, kRestart, fault, dapLocal,
                   kState, elBuf, history>>

PollCount == OutCount("poll_dec", "poll_ret")

(* Mutant: the item is not returned. *)
PollNoReturn ==
    /\ tpc = "poll_ret"
    /\ tpc' = "recv"
    /\ UNCHANGED <<handles, rings, dap_respond, notify, kRestart, fault, dapLocal,
                   kState, elBuf, history>>

PollReturn == OutReturn("poll_ret", "recv")

RecvUnlink ==
    /\ tpc = "recv"
    /\ kState = "EMULATING"
    /\ \/ dap_respond > 0 /\ OutWait("unlink_wait")
       \/ dap_respond <= 0 /\ tpc' = "unlink_reply" /\ UNCHANGED fault
    /\ UNCHANGED <<handles, rings, dap_respond, notify, kRestart, dapLocal,
                   kState, elBuf, history>>

UnlinkDrop ==
    /\ OutGet("unlink_wait", "unlink_dec")
    /\ UNCHANGED <<handles, rings, dap_respond, notify, kRestart, fault, dapLocal,
                   kState, elBuf, sess, sent, cut, lastExec, lastReply>>

UnlinkNothing == OutTimeout("unlink_wait", "unlink_reply")

UnlinkCount == OutCount("unlink_dec", "unlink_ret")

UnlinkReturn == OutReturn("unlink_ret", "unlink_reply")

(* send_stage2_unlink() *)
UnlinkReply ==
    /\ tpc = "unlink_reply"
    /\ cut' = sent
    /\ tpc' = "recv"
    /\ UNCHANGED <<handles, rings, dap_respond, notify, kRestart, fault, dapLocal,
                   kState, elBuf, sess, sent, owed, lastExec, lastReply>>

----------------------------------------------------------------------------

(* What a client decides. *)
ClientNext ==
    \/ Accept \/ Close
    \/ RecvHandshake \/ RecvElCommand
    \/ RecvImport \/ RecvOther
    \/ RecvCommand \/ RecvPoll \/ RecvUnlink

(* What the task does by itself afterwards. *)
TcpNext ==
    \/ AcceptFail \/ CloseNotify
    \/ ElProcessBufferMalloc \/ ElCommandDone
    \/ InSend \/ InUnblock \/ Notify
    \/ PollReply \/ PollUnanswered \/ PollCount \/ PollReturn
    \/ UnlinkDrop \/ UnlinkNothing \/ UnlinkCount \/ UnlinkReturn \/ UnlinkReply

=============================================================================
