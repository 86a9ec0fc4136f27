------------------------------ MODULE DapThread ------------------------------
(***************************************************************************)
(* DAP_Thread (main/DAP_handle.c): one pass of its loop looks at the       *)
(* restart signal, sleeps on the task notification, takes one packet of    *)
(* dataIN, executes it, puts the response in dataOUT and counts it.        *)
(*                                                                         *)
(* A step of the model ends where the server task can see a difference.    *)
(***************************************************************************)
EXTENDS DapBuffers

(* The task creates the buffers and the mutex. *)
DapStart ==
    /\ dpc = "start"
    /\ inH' = TRUE /\ outH' = TRUE
    /\ dpc' = "check"
    /\ UNCHANGED <<rings, dap_respond, notify, kRestart, fault, item, tcpLocal, history>>

(* if (kRestartDAPHandle) *)
DapCheck ==
    /\ dpc = "check"
    /\ dpc' = IF kRestart = "NO_SIGNAL" THEN "take" ELSE "free"
    /\ UNCHANGED <<handles, rings, dap_respond, notify, kRestart, fault, item, tcpLocal, history>>

(* Mutant: dataOUT survives the reset. *)
DapFreeKeepsOut ==
    /\ dpc = "free"
    /\ inH' = FALSE
    /\ in' = << >>
    /\ dpc' = "recheck"
    /\ UNCHANGED <<outH, out, dap_respond, notify, kRestart, fault, item, tcpLocal, history>>

(* free_dap_ringbuf() *)
DapFree ==
    /\ dpc = "free"
    /\ FreeRings(TcpInsideRing)
    /\ dpc' = "recheck"
    /\ UNCHANGED <<dap_respond, notify, kRestart, item, tcpLocal, history>>

(* if (kRestartDAPHandle == RESET_HANDLE), read again after the free *)
DapRecheck ==
    /\ dpc = "recheck"
    /\ dpc' = IF kRestart = "RESET_HANDLE" THEN "malloc" ELSE "clear"
    /\ UNCHANGED <<handles, rings, dap_respond, notify, kRestart, fault, item, tcpLocal, history>>

(* malloc_dap_ringbuf() and the check after it, which tests dataIN twice   *)
(* and dataOUT never: the task deletes itself only when dataIN is NULL.    *)
DapMalloc ==
    /\ dpc = "malloc"
    /\ \E okIn \in Alloc, okOut \in Alloc :
          /\ inH' = (inH \/ okIn)
          /\ outH' = (outH \/ okOut)
    /\ dpc' = IF inH' THEN "clear" ELSE "dead"
    /\ UNCHANGED <<rings, dap_respond, notify, kRestart, fault, item, tcpLocal, history>>

(* kRestartDAPHandle = NO_SIGNAL, whatever it has become meanwhile *)
DapClear ==
    /\ dpc = "clear"
    /\ kRestart' = "NO_SIGNAL"
    /\ dpc' = "take"
    /\ UNCHANGED <<handles, rings, dap_respond, notify, fault, item, tcpLocal, history>>

(* Mutant: ulTaskNotifyTake(pdTRUE, ...) clears the count. *)
DapTakeAll ==
    /\ dpc = "take"
    /\ notify > 0
    /\ notify' = 0
    /\ dpc' = IF inH /\ outH THEN "wait_in" ELSE "check"
    /\ UNCHANGED <<handles, rings, dap_respond, kRestart, fault, item, tcpLocal, history>>

(* ulTaskNotifyTake(pdFALSE, portMAX_DELAY) and the test of the handles *)
DapTake ==
    /\ dpc = "take"
    /\ notify > 0
    /\ notify' = notify - 1
    /\ dpc' = IF inH /\ outH THEN "wait_in" ELSE "check"
    /\ UNCHANGED <<handles, rings, dap_respond, kRestart, fault, item, tcpLocal, history>>

(* xRingbufferReceiveUpTo(dataIN) returns a packet ... *)
DapReceive ==
    /\ dpc = "wait_in"
    /\ in # << >>
    /\ item' = Head(in)
    /\ dpc' = "process"
    /\ UNCHANGED <<handles, rings, dap_respond, notify, kRestart, fault, tcpLocal, history>>

(* ... or nothing within its millisecond. *)
DapReceiveEmpty ==
    /\ dpc = "wait_in"
    /\ in = << >>
    /\ dpc' = "check"
    /\ UNCHANGED <<handles, rings, dap_respond, notify, kRestart, fault, item, tcpLocal, history>>

(* Mutant: the item is not returned, so that it is received again. *)
DapProcessNoReturn ==
    /\ dpc = "process"
    /\ lastExec' = item
    /\ dpc' = "out_send"
    /\ UNCHANGED <<handles, rings, dap_respond, notify, kRestart, fault, item, tcpLocal,
                   sess, sent, owed, cut, lastReply>>

(* DAP_ProcessCommand() and vRingbufferReturnItem(dataIN) *)
DapProcess ==
    /\ dpc = "process"
    /\ lastExec' = item
    /\ in' = Tail(in)
    /\ dpc' = "out_send"
    /\ UNCHANGED <<handles, out, dap_respond, notify, kRestart, fault, item, tcpLocal,
                   sess, sent, owed, cut, lastReply>>

(* xRingbufferSend(dataOUT, portMAX_DELAY): the handle is read when the    *)
(* call is made; a full buffer blocks the task inside the call.            *)
DapOutSend ==
    /\ dpc = "out_send"
    /\ \/ /\ ~outH
          /\ fault' = "null"
          /\ UNCHANGED <<out, dpc>>
       \/ /\ outH /\ Len(out) < BufferNum
          /\ out' = Append(out, item)
          /\ dpc' = "incr"
          /\ UNCHANGED fault
       \/ /\ outH /\ Len(out) >= BufferNum
          /\ dpc' = "out_blocked"
          /\ UNCHANGED <<out, fault>>
    /\ UNCHANGED <<handles, in, dap_respond, notify, kRestart, item, tcpLocal, history>>

(* Mutant: the response is written before there is room. *)
DapOutUnblockEarly ==
    /\ dpc = "out_blocked"
    /\ out' = Append(out, item)
    /\ dpc' = "incr"
    /\ UNCHANGED <<handles, in, dap_respond, notify, kRestart, fault, item, tcpLocal, history>>

(* The blocked xRingbufferSend(dataOUT) gets its room. *)
DapOutUnblock ==
    /\ dpc = "out_blocked"
    /\ Len(out) < BufferNum
    /\ out' = Append(out, item)
    /\ dpc' = "incr"
    /\ UNCHANGED <<handles, in, dap_respond, notify, kRestart, fault, item, tcpLocal, history>>

(* Mutant: the increment is lost. *)
DapIncrLost ==
    /\ dpc = "incr"
    /\ dpc' = "check"
    /\ UNCHANGED <<handles, rings, dap_respond, notify, kRestart, fault, item, tcpLocal, history>>

(* ++dap_respond under the mutex *)
DapIncr ==
    /\ dpc = "incr"
    /\ dap_respond' = dap_respond + 1
    /\ dpc' = "check"
    /\ UNCHANGED <<handles, rings, notify, kRestart, fault, item, tcpLocal, history>>

DapNext ==
    \/ DapStart \/ DapCheck \/ DapFree \/ DapRecheck \/ DapMalloc \/ DapClear
    \/ DapTake \/ DapReceive \/ DapReceiveEmpty \/ DapProcess
    \/ DapOutSend \/ DapOutUnblock \/ DapIncr

=============================================================================
