----------------------------- MODULE DapBuffers -----------------------------
(***************************************************************************)
(* The state that the USBIP/elaphureLink server task and the DAP task      *)
(* share: the two ring buffers of main/DAP_handle.c, the counter           *)
(* dap_respond, the task notification of the DAP task and the restart      *)
(* signal kRestartDAPHandle.                                               *)
(*                                                                         *)
(* A ring buffer is the sequence of the DapPacket_t it stores, oldest      *)
(* first.  An item that was received but not yet returned is still in the  *)
(* sequence, because FreeRTOS frees its space at vRingbufferReturnItem.    *)
(* A packet is abstracted to the connection it came on and its number in   *)
(* that connection.                                                        *)
(***************************************************************************)
EXTENDS Integers, Sequences

CONSTANTS
    BufferNum,      \* DAP_BUFFER_NUM: packets a ring buffer holds
    Window,         \* commands a client has unanswered at most
    HostWaits,      \* TRUE: a client connects only when the DAP task is Quiet
    AllocMayFail,   \* TRUE: the allocations made after start-up may fail
    MaxSession,     \* bound: connections accepted
    MaxRequest      \* bound: commands sent on one connection

ASSUME ConstantAssumption ==
    /\ BufferNum \in Nat \ {0}
    /\ Window \in Nat
    /\ MaxSession \in Nat
    /\ MaxRequest \in Nat
    /\ HostWaits \in BOOLEAN
    /\ AllocMayFail \in BOOLEAN

VARIABLES
    (* Shared between the tasks. *)
    inH, outH,      \* dap_dataIN_handle, dap_dataOUT_handle are not NULL
    in, out,        \* what the two ring buffers hold
    dap_respond,    \* responses announced to the server task
    notify,         \* the notification value of kDAPTaskHandle
    kRestart,       \* kRestartDAPHandle
    fault,          \* a NULL or a freed ring buffer was used
    (* Of the DAP task. *)
    dpc,            \* where DAP_Thread is
    item,           \* the packet it works on
    (* Of the server task. *)
    tpc,            \* where tcp_server_task is
    kState,         \* state of the connection
    elBuf,          \* el_process_buffer is not NULL
    (* History, read only by guards on the client and by the properties. *)
    sess,           \* connections accepted
    sent,           \* commands received on this connection
    owed,           \* of these, neither answered with data nor unlinked
    cut,            \* of these, received before the last unlink was answered
    lastExec,       \* the last command executed by the DAP task
    lastReply       \* the last command whose response was sent

handles == <<inH, outH>>
rings == <<in, out>>
dapLocal == <<dpc, item>>
tcpLocal == <<tpc, kState, elBuf>>
history == <<sess, sent, owed, cut, lastExec, lastReply>>
vars == <<handles, rings, dap_respond, notify, kRestart, fault,
          dapLocal, tcpLocal, history>>

----------------------------------------------------------------------------

Packet == [s : Nat, n : Nat]
NoPacket == [s |-> 0, n |-> 0]

(* The command the server task has just received. *)
Received == [s |-> sess, n |-> sent]

(* Packet a was received before packet b. *)
Before(a, b) == a.s < b.s \/ (a.s = b.s /\ a.n < b.n)

RestartSignal == {"NO_SIGNAL", "RESET_HANDLE", "DELETE_HANDLE"}
ConnState == {"ACCEPTING", "ATTACHING", "EMULATING", "EL_DATA_PHASE"}

DapPC == {"start", "check", "free", "recheck", "malloc", "clear", "take",
          "wait_in", "process", "out_send", "out_blocked", "incr", "dead"}
TcpPC == {"accept", "recv", "el_malloc", "el_exec", "in_send", "in_blocked",
          "notify", "poll_wait", "poll_dec", "poll_ret", "unlink_wait",
          "unlink_dec", "unlink_ret", "unlink_reply", "close_notify", "dead"}

(* The result of an allocation. *)
Alloc == IF AllocMayFail THEN BOOLEAN ELSE {TRUE}

(* Places where a task is inside a ring buffer call that blocks, or holds  *)
(* an item that it has not returned: deleting the ring buffer there frees  *)
(* memory that the task goes on to use.                                    *)
DapInsideRing == dpc \in {"wait_in", "process", "out_blocked"}
TcpInsideRing == tpc \in {"in_blocked", "poll_wait", "poll_dec", "poll_ret",
                          "unlink_wait", "unlink_dec", "unlink_ret"}

(* free_dap_ringbuf(), called by the task of which the other is inside a   *)
(* ring buffer iff inUse.  It does nothing before the mutex exists.        *)
FreeRings(inUse) ==
    \/ /\ dpc # "start" /\ ~inUse
       /\ inH' = FALSE /\ outH' = FALSE
       /\ in' = << >> /\ out' = << >>
       /\ UNCHANGED fault
    \/ /\ dpc # "start" /\ inUse
       /\ fault' = "freed"
       /\ UNCHANGED <<handles, rings>>
    \/ /\ dpc = "start"
       /\ UNCHANGED <<handles, rings, fault>>

(* The DAP task sleeps with nothing left to do and both buffers exist. *)
Quiet ==
    /\ dpc = "take" /\ notify = 0
    /\ kRestart = "NO_SIGNAL"
    /\ inH /\ outH

=============================================================================
