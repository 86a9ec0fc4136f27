---------------------------- MODULE DapProbeProofs ----------------------------
(***************************************************************************)
(* What holds of the probe for any clients and any allocations: types,     *)
(* counts, notifications, and the order of commands and responses.  And    *)
(* what holds when the clients wait for the reset after the client before  *)
(* them and no allocation fails: nothing faults, no task waits for the     *)
(* other, responses are of the client that gets them, and the probe        *)
(* implements ResponsePipe.                                                *)
(***************************************************************************)
EXTENDS DapProbe, SequenceTheorems, TLAPS

LEMMA QueueEmpty ==
    << >> \in Seq(Packet) /\ Len(<< >>) = 0
BY EmptySeq

LEMMA QueueAppend ==
    \A s \in Seq(Packet), e \in Packet :
        /\ Append(s, e) \in Seq(Packet)
        /\ Append(s, e) # << >>
        /\ Len(Append(s, e)) = Len(s) + 1
BY AppendProperties

LEMMA QueueTail ==
    \A s \in Seq(Packet) :
        /\ Len(s) \in Nat
        /\ s # << >> => /\ Head(s) \in Packet
                         /\ Tail(s) \in Seq(Packet)
                         /\ Len(Tail(s)) = Len(s) - 1
                         /\ Len(s) > 0
OBVIOUS

(* A task that holds an item of a ring buffer finds it still there when it *)
(* returns it: without this, TypeOK is not preserved by the returns.       *)
HeldItems ==
    /\ dpc = "process" => in # << >>
    /\ tpc \in {"poll_dec", "poll_ret", "unlink_dec", "unlink_ret"} => out # << >>

TypeInv == TypeOK /\ HeldItems

LEMMA TypeStep == TypeInv /\ [Next]_vars => TypeInv'
<1> SUFFICES ASSUME TypeInv, [Next]_vars PROVE TypeInv'
  OBVIOUS
<1>z. NoPacket \in Packet /\ Received \in Packet
  BY DEF TypeInv, TypeOK, Packet, NoPacket, Received
<1>y. TypeOK /\ HeldItems
  BY DEF TypeInv
<1> USE ConstantAssumption, QueueEmpty, QueueAppend, QueueTail, <1>z, <1>y
    DEF RestartSignal, ConnState, DapPC, TcpPC, TypeOK, HeldItems, TypeInv,
        handles, rings, dapLocal, tcpLocal, history
<1>1. CASE Accept
  BY <1>1 DEF Accept
<1>2. CASE Close
  BY <1>2 DEF Close
<1>3. CASE RecvHandshake
  BY <1>3 DEF RecvHandshake
<1>4. CASE RecvElCommand
  BY <1>4 DEF RecvElCommand
<1>5. CASE RecvImport
  BY <1>5 DEF RecvImport
<1>6. CASE RecvOther
  BY <1>6 DEF RecvOther
<1>7. CASE RecvCommand
  BY <1>7 DEF RecvCommand
<1>8. CASE RecvPoll
  BY <1>8 DEF RecvPoll, OutWait
<1>9. CASE RecvUnlink
  BY <1>9 DEF RecvUnlink, OutWait
<1>10. CASE CloseNotify
  BY <1>10 DEF CloseNotify
<1>11. CASE ElProcessBufferMalloc
  <2>1. elBuf' \in BOOLEAN
    BY <1>11 DEF ElProcessBufferMalloc, Alloc
  <2>2. CASE dpc # "start" /\ ~DapInsideRing
    <3>1. inH' = FALSE /\ outH' = FALSE /\ in' = << >> /\ out' = << >>
      BY <1>11, <2>2 DEF ElProcessBufferMalloc, FreeRings
    <3>2. in' \in Seq(Packet) /\ Len(in') <= BufferNum
      BY <3>1
    <3>3. HeldItems'
      BY <1>11, <2>2, <3>1 DEF ElProcessBufferMalloc, FreeRings, DapInsideRing
    <3> QED
      BY <1>11, <2>1, <2>2, <3>1, <3>2, <3>3 DEF ElProcessBufferMalloc, FreeRings
  <2>3. CASE dpc # "start" /\ DapInsideRing
    BY <1>11, <2>1, <2>3 DEF ElProcessBufferMalloc, FreeRings
  <2>4. CASE dpc = "start"
    BY <1>11, <2>1, <2>4 DEF ElProcessBufferMalloc, FreeRings
  <2> QED
    BY <2>2, <2>3, <2>4
<1>12. CASE ElCommandDone
  BY <1>12 DEF ElCommandDone
<1>13. CASE InSend
  <2>1. CASE ~inH
    BY <1>13, <2>1 DEF InSend
  <2>2. CASE inH /\ Len(in) < BufferNum
    <3>1. in' = Append(in, Received) /\ tpc' = "notify"
      BY <1>13, <2>2 DEF InSend
    <3>2. in' \in Seq(Packet) /\ Len(in') <= BufferNum /\ in' # << >>
      BY <2>2, <3>1
    <3> QED
      BY <1>13, <2>2, <3>1, <3>2 DEF InSend
  <2>3. CASE inH /\ Len(in) >= BufferNum
    BY <1>13, <2>3 DEF InSend
  <2> QED
    BY <2>1, <2>2, <2>3
<1>14. CASE InUnblock
  BY <1>14 DEF InUnblock
<1>15. CASE Notify
  BY <1>15 DEF Notify
<1>16. CASE PollReply
  BY <1>16 DEF PollReply, OutGet
<1>17. CASE PollUnanswered
  BY <1>17 DEF PollUnanswered, OutTimeout
<1>18. CASE PollCount
  BY <1>18 DEF PollCount, OutCount
<1>19. CASE PollReturn
  BY <1>19 DEF PollReturn, OutReturn
<1>20. CASE UnlinkDrop
  BY <1>20 DEF UnlinkDrop, OutGet
<1>21. CASE UnlinkNothing
  BY <1>21 DEF UnlinkNothing, OutTimeout
<1>22. CASE UnlinkCount
  BY <1>22 DEF UnlinkCount, OutCount
<1>23. CASE UnlinkReturn
  BY <1>23 DEF UnlinkReturn, OutReturn
<1>24. CASE UnlinkReply
  BY <1>24 DEF UnlinkReply
<1>25. CASE DapStart
  BY <1>25 DEF DapStart
<1>26. CASE DapCheck
  BY <1>26 DEF DapCheck
<1>27. CASE DapFree
  <2>1. CASE dpc # "start" /\ ~TcpInsideRing
    <3>1. inH' = FALSE /\ outH' = FALSE /\ in' = << >> /\ out' = << >>
      BY <1>27, <2>1 DEF DapFree, FreeRings
    <3>2. in' \in Seq(Packet) /\ Len(in') <= BufferNum
      BY <3>1
    <3>3. HeldItems'
      BY <1>27, <2>1, <3>1 DEF DapFree, FreeRings, TcpInsideRing
    <3> QED
      BY <1>27, <2>1, <3>1, <3>2, <3>3 DEF DapFree, FreeRings
  <2>2. CASE dpc # "start" /\ TcpInsideRing
    BY <1>27, <2>2 DEF DapFree, FreeRings
  <2>3. CASE dpc = "start"
    BY <1>27, <2>3 DEF DapFree, FreeRings
  <2> QED
    BY <2>1, <2>2, <2>3
<1>28. CASE DapRecheck
  BY <1>28 DEF DapRecheck
<1>29. CASE DapMalloc
  BY <1>29 DEF DapMalloc, Alloc
<1>30. CASE DapClear
  BY <1>30 DEF DapClear
<1>31. CASE DapTake
  BY <1>31 DEF DapTake
<1>32. CASE DapReceive
  BY <1>32 DEF DapReceive
<1>33. CASE DapReceiveEmpty
  BY <1>33 DEF DapReceiveEmpty
<1>34. CASE DapProcess
  BY <1>34 DEF DapProcess
<1>35. CASE DapOutSend
  BY <1>35 DEF DapOutSend
<1>36. CASE DapOutUnblock
  BY <1>36 DEF DapOutUnblock
<1>37. CASE DapIncr
  BY <1>37 DEF DapIncr
<1>38. CASE UNCHANGED vars
  BY <1>38 DEF vars
<1>39. CASE AcceptFail
  BY <1>39 DEF AcceptFail
<1> HIDE QueueEmpty, QueueAppend, QueueTail, <1>y DEF TypeInv
<1> QED
  BY <1>1, <1>2, <1>3, <1>4, <1>5, <1>6, <1>7, <1>8, <1>9, <1>10,
     <1>11, <1>12, <1>13, <1>14, <1>15, <1>16, <1>17, <1>18, <1>19, <1>20,
     <1>21, <1>22, <1>23, <1>24, <1>25, <1>26, <1>27, <1>28, <1>29, <1>30,
     <1>31, <1>32, <1>33, <1>34, <1>35, <1>36, <1>37, <1>38, <1>39
  DEF Next, ClientNext, TcpNext, DapNext, Faulted, NoClient

LEMMA InitTypeInv == Init => TypeInv
<1> SUFFICES ASSUME Init PROVE TypeInv
  OBVIOUS
<1>1. /\ in \in Seq(Packet) /\ Len(in) <= BufferNum
      /\ out \in Seq(Packet) /\ Len(out) <= BufferNum
  <2>1. in = << >> /\ out = << >>
    BY DEF Init
  <2> QED
    BY <2>1, QueueEmpty, ConstantAssumption
<1>2. NoPacket \in Packet
  BY DEF NoPacket, Packet
<1>3. HeldItems
  BY DEF Init, HeldItems
<1>4. inH \in BOOLEAN /\ outH \in BOOLEAN /\ elBuf \in BOOLEAN
  BY DEF Init
<1>6. /\ dap_respond \in Int /\ notify \in Nat
      /\ sess \in Nat /\ sent \in Nat /\ owed \in Int /\ cut \in Nat
      /\ kRestart \in RestartSignal /\ fault \in {"none", "null", "freed"}
      /\ dpc \in DapPC /\ tpc \in TcpPC /\ kState \in ConnState
  BY DEF Init, RestartSignal, ConnState, DapPC, TcpPC
<1>5. item \in Packet /\ lastExec \in Packet /\ lastReply \in Packet
  BY <1>2 DEF Init
<1> QED
  BY <1>1, <1>3, <1>4, <1>5, <1>6 DEF TypeInv, TypeOK

(* Every variable keeps its type, for any sizes, clients and allocations.  *)
THEOREM TypeCorrect == Spec => []TypeOK
<1>1. Init => TypeInv
  BY InitTypeInv
<1>2. TypeInv /\ [Next]_vars => TypeInv'
  BY TypeStep
<1>3. TypeInv => TypeOK
  BY DEF TypeInv
<1> QED
  BY <1>1, <1>2, <1>3, PTL DEF Spec

----------------------------------------------------------------------------

(* A task that is about to take a response has seen the count positive,    *)
(* and nobody else decrements it.                                          *)
CountInv ==
    /\ ResponsesCounted
    /\ tpc \in {"poll_wait", "poll_dec", "unlink_wait", "unlink_dec"} => dap_respond > 0

LEMMA CountStep == TypeInv /\ CountInv /\ [Next]_vars => CountInv'
<1> SUFFICES ASSUME TypeInv, CountInv, [Next]_vars PROVE CountInv'
  OBVIOUS
<1>y. TypeOK /\ HeldItems
  BY DEF TypeInv
<1>z. Received \in Packet
  BY <1>y DEF TypeOK, Received, Packet
<1> USE QueueEmpty, QueueAppend, QueueTail, <1>y
    DEF TypeOK, HeldItems, CountInv, ResponsesCounted, One, handles, rings, dapLocal, tcpLocal, history
<1>1. CASE Accept
  BY <1>1 DEF Accept
<1>2. CASE Close
  BY <1>2 DEF Close
<1>3. CASE RecvHandshake
  BY <1>3 DEF RecvHandshake
<1>4. CASE RecvElCommand
  BY <1>4 DEF RecvElCommand
<1>5. CASE RecvImport
  BY <1>5 DEF RecvImport
<1>6. CASE RecvOther
  BY <1>6 DEF RecvOther
<1>7. CASE RecvCommand
  BY <1>7 DEF RecvCommand
<1>8. CASE RecvPoll
  BY <1>8 DEF RecvPoll, OutWait
<1>9. CASE RecvUnlink
  BY <1>9 DEF RecvUnlink, OutWait
<1>10. CASE CloseNotify
  BY <1>10 DEF CloseNotify
<1>11. CASE ElProcessBufferMalloc
  BY <1>11 DEF ElProcessBufferMalloc, FreeRings, DapInsideRing, Alloc
<1>12. CASE ElCommandDone
  BY <1>12 DEF ElCommandDone
<1>13. CASE InSend
  BY <1>13, <1>z DEF InSend
<1>14. CASE InUnblock
  BY <1>14, <1>z DEF InUnblock
<1>15. CASE Notify
  BY <1>15 DEF Notify
<1>16. CASE PollReply
  BY <1>16 DEF PollReply, OutGet
<1>17. CASE PollUnanswered
  BY <1>17 DEF PollUnanswered, OutTimeout
<1>18. CASE PollCount
  BY <1>18 DEF PollCount, OutCount
<1>19. CASE PollReturn
  BY <1>19 DEF PollReturn, OutReturn
<1>20. CASE UnlinkDrop
  BY <1>20 DEF UnlinkDrop, OutGet
<1>21. CASE UnlinkNothing
  BY <1>21 DEF UnlinkNothing, OutTimeout
<1>22. CASE UnlinkCount
  BY <1>22 DEF UnlinkCount, OutCount
<1>23. CASE UnlinkReturn
  BY <1>23 DEF UnlinkReturn, OutReturn
<1>24. CASE UnlinkReply
  BY <1>24 DEF UnlinkReply
<1>25. CASE DapStart
  BY <1>25 DEF DapStart
<1>26. CASE DapCheck
  BY <1>26 DEF DapCheck
<1>27. CASE DapFree
  BY <1>27 DEF DapFree, FreeRings, TcpInsideRing
<1>28. CASE DapRecheck
  BY <1>28 DEF DapRecheck
<1>29. CASE DapMalloc
  BY <1>29 DEF DapMalloc, Alloc
<1>30. CASE DapClear
  BY <1>30 DEF DapClear
<1>31. CASE DapTake
  BY <1>31 DEF DapTake
<1>32. CASE DapReceive
  BY <1>32 DEF DapReceive
<1>33. CASE DapReceiveEmpty
  BY <1>33 DEF DapReceiveEmpty
<1>34. CASE DapProcess
  BY <1>34 DEF DapProcess
<1>35. CASE DapOutSend
  BY <1>35 DEF DapOutSend
<1>36. CASE DapOutUnblock
  BY <1>36 DEF DapOutUnblock
<1>37. CASE DapIncr
  BY <1>37 DEF DapIncr
<1>38. CASE UNCHANGED vars
  BY <1>38 DEF vars
<1>39. CASE AcceptFail
  BY <1>39 DEF AcceptFail
<1> HIDE QueueEmpty, QueueAppend, QueueTail, <1>y DEF CountInv
<1> QED
  BY <1>1, <1>2, <1>3, <1>4, <1>5, <1>6, <1>7, <1>8, <1>9, <1>10,
     <1>11, <1>12, <1>13, <1>14, <1>15, <1>16, <1>17, <1>18, <1>19, <1>20,
     <1>21, <1>22, <1>23, <1>24, <1>25, <1>26, <1>27, <1>28, <1>29, <1>30,
     <1>31, <1>32, <1>33, <1>34, <1>35, <1>36, <1>37, <1>38, <1>39
  DEF Next, ClientNext, TcpNext, DapNext, Faulted, NoClient

(* A response in dataOUT is always counted, or is about to be, and the     *)
(* count is never negative, whatever the clients do and resets destroy.    *)
THEOREM CountCorrect == Spec => []ResponsesCounted
<1>1. Init => TypeInv /\ CountInv
  BY InitTypeInv DEF Init, CountInv, ResponsesCounted, One
<1>2. TypeInv /\ CountInv /\ [Next]_vars => (TypeInv /\ CountInv)'
  BY TypeStep, CountStep
<1>3. CountInv => ResponsesCounted
  BY DEF CountInv
<1> QED
  BY <1>1, <1>2, <1>3, PTL DEF Spec

----------------------------------------------------------------------------

(* DAP_Thread alone creates buffers, and only where it has none: nothing   *)
(* is in dataIN when the task starts to count notifications for it.        *)
NotifyInv ==
    /\ CommandsNotified
    /\ ~inH => in = << >>
    /\ fault = "none" /\ dpc \in {"start", "recheck", "malloc"} => ~inH /\ ~outH
    /\ tpc = "in_blocked" => inH

LEMMA NotifyStep == TypeInv /\ NotifyInv /\ [Next]_vars => NotifyInv'
<1> SUFFICES ASSUME TypeInv, NotifyInv, [Next]_vars PROVE NotifyInv'
  OBVIOUS
<1>y. TypeOK /\ HeldItems
  BY DEF TypeInv
<1>z. Received \in Packet
  BY <1>y DEF TypeOK, Received, Packet
<1> USE QueueEmpty, QueueAppend, QueueTail, <1>y
    DEF TypeOK, HeldItems, NotifyInv, CommandsNotified, One, handles, rings, dapLocal, tcpLocal, history
<1>1. CASE Accept
  BY <1>1 DEF Accept
<1>2. CASE Close
  BY <1>2 DEF Close
<1>3. CASE RecvHandshake
  BY <1>3 DEF RecvHandshake
<1>4. CASE RecvElCommand
  BY <1>4 DEF RecvElCommand
<1>5. CASE RecvImport
  BY <1>5 DEF RecvImport
<1>6. CASE RecvOther
  BY <1>6 DEF RecvOther
<1>7. CASE RecvCommand
  BY <1>7 DEF RecvCommand
<1>8. CASE RecvPoll
  BY <1>8 DEF RecvPoll, OutWait
<1>9. CASE RecvUnlink
  BY <1>9 DEF RecvUnlink, OutWait
<1>10. CASE CloseNotify
  BY <1>10 DEF CloseNotify
<1>11. CASE ElProcessBufferMalloc
  BY <1>11 DEF ElProcessBufferMalloc, FreeRings, DapInsideRing, Alloc
<1>12. CASE ElCommandDone
  BY <1>12 DEF ElCommandDone
<1>13. CASE InSend
  BY <1>13, <1>z DEF InSend
<1>14. CASE InUnblock
  BY <1>14, <1>z DEF InUnblock
<1>15. CASE Notify
  BY <1>15 DEF Notify
<1>16. CASE PollReply
  BY <1>16 DEF PollReply, OutGet
<1>17. CASE PollUnanswered
  BY <1>17 DEF PollUnanswered, OutTimeout
<1>18. CASE PollCount
  BY <1>18 DEF PollCount, OutCount
<1>19. CASE PollReturn
  BY <1>19 DEF PollReturn, OutReturn
<1>20. CASE UnlinkDrop
  BY <1>20 DEF UnlinkDrop, OutGet
<1>21. CASE UnlinkNothing
  BY <1>21 DEF UnlinkNothing, OutTimeout
<1>22. CASE UnlinkCount
  BY <1>22 DEF UnlinkCount, OutCount
<1>23. CASE UnlinkReturn
  BY <1>23 DEF UnlinkReturn, OutReturn
<1>24. CASE UnlinkReply
  BY <1>24 DEF UnlinkReply
<1>25. CASE fault = "none" /\ DapStart
  BY <1>25 DEF DapStart
<1>26. CASE DapCheck
  BY <1>26 DEF DapCheck
<1>27. CASE DapFree
  BY <1>27 DEF DapFree, FreeRings, TcpInsideRing
<1>28. CASE DapRecheck
  BY <1>28 DEF DapRecheck
<1>29. CASE fault = "none" /\ DapMalloc
  BY <1>29 DEF DapMalloc, Alloc
<1>30. CASE DapClear
  BY <1>30 DEF DapClear
<1>31. CASE DapTake
  BY <1>31 DEF DapTake
<1>32. CASE DapReceive
  BY <1>32 DEF DapReceive
<1>33. CASE DapReceiveEmpty
  BY <1>33 DEF DapReceiveEmpty
<1>34. CASE DapProcess
  BY <1>34 DEF DapProcess
<1>35. CASE DapOutSend
  BY <1>35 DEF DapOutSend
<1>36. CASE DapOutUnblock
  BY <1>36 DEF DapOutUnblock
<1>37. CASE DapIncr
  BY <1>37 DEF DapIncr
<1>38. CASE UNCHANGED vars
  BY <1>38 DEF vars
<1>39. CASE AcceptFail
  BY <1>39 DEF AcceptFail
<1> HIDE QueueEmpty, QueueAppend, QueueTail, <1>y DEF NotifyInv
<1> QED
  BY <1>1, <1>2, <1>3, <1>4, <1>5, <1>6, <1>7, <1>8, <1>9, <1>10,
     <1>11, <1>12, <1>13, <1>14, <1>15, <1>16, <1>17, <1>18, <1>19, <1>20,
     <1>21, <1>22, <1>23, <1>24, <1>25, <1>26, <1>27, <1>28, <1>29, <1>30,
     <1>31, <1>32, <1>33, <1>34, <1>35, <1>36, <1>37, <1>38, <1>39
  DEF Next, ClientNext, TcpNext, DapNext, Faulted, NoClient

(* A packet in dataIN has a notification of its own: the DAP task never    *)
(* sleeps on a command.                                                    *)
THEOREM NotifyCorrect == Spec => []CommandsNotified
<1>1. Init => TypeInv /\ NotifyInv
  BY InitTypeInv DEF Init, NotifyInv, CommandsNotified, One
<1>2. TypeInv /\ NotifyInv /\ [Next]_vars => (TypeInv /\ NotifyInv)'
  BY TypeStep, NotifyStep
<1>3. NotifyInv => CommandsNotified
  BY DEF NotifyInv
<1> QED
  BY <1>1, <1>2, <1>3, PTL DEF Spec

----------------------------------------------------------------------------
(* The order in which commands are executed and responses are sent, for    *)
(* any clients and any allocations.                                        *)

(* The packets of queue q, and how they stand to packet p. *)
Ascending(q) == \A i, j \in 1..Len(q) : i < j => Before(q[i], q[j])
After(q, p) == \A i \in 1..Len(q) : Before(p, q[i])
UpTo(q, p) == \A i \in 1..Len(q) : ~Before(p, q[i])
Under(q, p) == \A i \in 1..Len(q) : Before(q[i], p)

LEMMA BeforeOrder ==
    ASSUME NEW a \in Packet, NEW b \in Packet, NEW c \in Packet
    PROVE  /\ ~Before(a, a)
           /\ Before(a, b) => ~Before(b, a)
           /\ Before(a, b) /\ ~Before(c, b) => Before(a, c)
           /\ ~Before(b, a) /\ Before(b, c) => Before(a, c)
           /\ ~Before(b, a) /\ ~Before(c, b) => ~Before(c, a)
BY DEF Packet, Before

LEMMA EmptyOrder ==
    \A p \in Packet :
        Ascending(<< >>) /\ After(<< >>, p) /\ UpTo(<< >>, p) /\ Under(<< >>, p)
BY QueueEmpty DEF Ascending, After, UpTo, Under

(* A packet that comes after all of a queue is appended to it. *)
LEMMA AppendOrder ==
    ASSUME NEW q \in Seq(Packet), NEW e \in Packet, Ascending(q), Under(q, e)
    PROVE  /\ Ascending(Append(q, e))
           /\ UpTo(Append(q, e), e)
           /\ \A p \in Packet : After(q, p) /\ Before(p, e) => After(Append(q, e), p)
           /\ q # << >> => Head(Append(q, e)) = Head(q)
<1>1. /\ Len(Append(q, e)) = Len(q) + 1 /\ Len(q) \in Nat
      /\ Append(q, e)[Len(q) + 1] = e
      /\ \A i \in 1..Len(q) : Append(q, e)[i] = q[i] /\ q[i] \in Packet
  OBVIOUS
<1>2. ~Before(e, e) /\ \A i \in 1..Len(q) : ~Before(e, q[i])
  BY <1>1, BeforeOrder DEF Under
<1> QED
  BY <1>1, <1>2 DEF Ascending, After, UpTo, Under

(* The first packet of a queue is taken from it. *)
LEMMA TailOrder ==
    ASSUME NEW q \in Seq(Packet), q # << >>
    PROVE  /\ Ascending(q) => Ascending(Tail(q)) /\ After(Tail(q), Head(q))
           /\ \A p \in Packet :
                 /\ After(q, p) => After(Tail(q), p) /\ Before(p, Head(q))
                 /\ UpTo(q, p) => UpTo(Tail(q), p) /\ ~Before(p, Head(q))
                 /\ Under(q, p) => Under(Tail(q), p) /\ Before(Head(q), p)
<1>1. /\ Len(q) \in Nat \ {0} /\ Len(Tail(q)) = Len(q) - 1
      /\ Head(q) = q[1]
      /\ \A i \in 1..Len(Tail(q)) : Tail(q)[i] = q[i + 1]
  OBVIOUS
<1>2. 1 \in 1..Len(q) /\ \A i \in 1..Len(Tail(q)) : i + 1 \in 2..Len(q)
  BY <1>1
<1> QED
  BY <1>1, <1>2 DEF Ascending, After, UpTo, Under

(* What stands before p stands before every later packet. *)
LEMMA LaterOrder ==
    ASSUME NEW q \in Seq(Packet), NEW p \in Packet, NEW r \in Packet
    PROVE  /\ Under(q, p) => UpTo(q, p)
           /\ UpTo(q, p) /\ Before(p, r) => Under(q, r)
<1>1. \A i \in 1..Len(q) : q[i] \in Packet
  OBVIOUS
<1> QED
  BY <1>1, BeforeOrder DEF Under, UpTo

----------------------------------------------------------------------------

(* The server task has received a command that is not yet in dataIN. *)
Offered == tpc \in {"in_send", "in_blocked"}
(* The DAP task has executed a command whose response is not in dataOUT. *)
Executed == dpc \in {"out_send", "out_blocked"}
(* The server task has sent the response that is first in dataOUT. *)
Replied == tpc \in {"poll_dec", "poll_ret"}

(* From the last reply over dataOUT, the command in hand and dataIN to the *)
(* command received last, every packet comes after those before it: what   *)
(* a reset destroys leaves a gap, and a gap does no harm.                  *)
OrderInv ==
    /\ Ascending(in) /\ Ascending(out)
    /\ After(in, lastExec)
    /\ dpc = "process" => item = Head(in)
    /\ Executed => item = lastExec
    /\ IF Offered THEN Under(in, Received) /\ Before(lastExec, Received)
                  ELSE UpTo(in, Received) /\ ~Before(Received, lastExec)
    /\ IF Executed THEN Under(out, lastExec) /\ Before(lastReply, lastExec)
                   ELSE UpTo(out, lastExec) /\ ~Before(lastExec, lastReply)
    /\ IF Replied THEN lastReply = Head(out) ELSE After(out, lastReply)

LEMMA OrderStep == TypeInv /\ OrderInv /\ [Next]_vars => OrderInv'
<1> SUFFICES ASSUME TypeInv, OrderInv, [Next]_vars PROVE OrderInv'
  OBVIOUS
<1>y. TypeOK /\ HeldItems
  BY DEF TypeInv
<1>t. /\ in \in Seq(Packet) /\ out \in Seq(Packet)
      /\ item \in Packet /\ lastExec \in Packet /\ lastReply \in Packet
      /\ sess \in Nat /\ sent \in Nat
      /\ Received \in Packet
  BY <1>y DEF TypeOK, Received, Packet
<1>l. /\ Received = [s |-> sess, n |-> sent]
      /\ Received' = [s |-> sess', n |-> sent']
  BY DEF Received
<1> USE DEF OrderInv, Offered, Executed, Replied, handles, rings, dapLocal, tcpLocal, history
<1>i. ASSUME in' = Append(in, Received), Offered, ~Offered', UNCHANGED <<sess, sent>>,
             UNCHANGED <<out, dpc, item, lastExec, lastReply>>, Replied' = Replied
      PROVE  OrderInv'
  <2>1. Under(in, Received) /\ Ascending(in) /\ Before(lastExec, Received)
    BY <1>i
  <2>2. /\ Ascending(in') /\ UpTo(in', Received)
        /\ After(in', lastExec)
        /\ in # << >> => Head(in') = Head(in)
    BY <1>i, <1>t, <2>1, AppendOrder
  <2>3. ~Before(Received, lastExec)
    BY <1>t, <2>1, BeforeOrder
  <2> QED
    BY <1>i, <1>l, <1>y, <2>2, <2>3 DEF HeldItems
<1>o. ASSUME out' = Append(out, item), Executed, ~Executed', dpc' # "process",
             UNCHANGED <<in, item, sess, sent, lastExec, lastReply, tpc>>
      PROVE  OrderInv'
  <2>1. Under(out, lastExec) /\ Ascending(out) /\ Before(lastReply, lastExec) /\ item = lastExec
    BY <1>o
  <2>2. /\ Ascending(out') /\ UpTo(out', lastExec)
        /\ After(out, lastReply) => After(out', lastReply)
        /\ out # << >> => Head(out') = Head(out)
    BY <1>o, <1>t, <2>1, AppendOrder
  <2>3. ~Before(lastExec, lastReply)
    BY <1>t, <2>1, BeforeOrder
  <2> QED
    BY <1>o, <1>l, <1>y, <2>2, <2>3 DEF HeldItems
<1>1. CASE Accept
  <2>1. Received' \in Packet /\ Before(Received, Received')
    BY <1>1, <1>t, <1>l DEF Accept, Packet, Before
  <2> QED
    BY <1>1, <1>t, <2>1, BeforeOrder, LaterOrder DEF Accept
<1>2. CASE RecvCommand
  <2>1. Received' \in Packet /\ Before(Received, Received')
    BY <1>2, <1>t, <1>l DEF RecvCommand, Packet, Before
  <2> QED
    BY <1>2, <1>t, <2>1, BeforeOrder, LaterOrder DEF RecvCommand
<1>3. CASE InSend
  BY <1>3, <1>i, <1>l DEF InSend
<1>4. CASE InUnblock
  BY <1>4, <1>i, <1>l DEF InUnblock
<1>5. CASE PollReply
  BY <1>5, <1>l, <1>t, TailOrder, BeforeOrder DEF PollReply, OutGet
<1>6. CASE PollReturn
  BY <1>6, <1>l, <1>t, <1>y, TailOrder DEF PollReturn, OutReturn, HeldItems
<1>7. CASE UnlinkReturn
  BY <1>7, <1>l, <1>t, <1>y, TailOrder DEF UnlinkReturn, OutReturn, HeldItems
<1>8. CASE ElProcessBufferMalloc
  BY <1>8, <1>l, <1>t, EmptyOrder DEF ElProcessBufferMalloc, FreeRings, DapInsideRing
<1>9. CASE DapFree
  BY <1>9, <1>l, <1>t, EmptyOrder DEF DapFree, FreeRings, TcpInsideRing
<1>10. CASE DapReceive
  BY <1>10, <1>l DEF DapReceive
<1>11. CASE DapProcess
  BY <1>11, <1>l, <1>t, <1>y, TailOrder, LaterOrder, BeforeOrder DEF DapProcess, HeldItems
<1>12. CASE DapOutSend
  BY <1>12, <1>o, <1>l DEF DapOutSend
<1>13. CASE DapOutUnblock
  BY <1>13, <1>o, <1>l DEF DapOutUnblock
<1>14. CASE Close \/ CloseNotify \/ AcceptFail
  BY <1>14, <1>l DEF Close, CloseNotify, AcceptFail
<1>15. CASE RecvHandshake \/ RecvElCommand \/ ElCommandDone
  BY <1>15, <1>l DEF RecvHandshake, RecvElCommand, ElCommandDone
<1>16. CASE RecvImport \/ RecvOther \/ Notify
  BY <1>16, <1>l DEF RecvImport, RecvOther, Notify
<1>17. CASE RecvPoll \/ PollUnanswered \/ PollCount
  BY <1>17, <1>l DEF RecvPoll, OutWait, PollUnanswered, OutTimeout, PollCount, OutCount
<1>18. CASE RecvUnlink \/ UnlinkDrop \/ UnlinkNothing \/ UnlinkCount \/ UnlinkReply
  BY <1>18, <1>l DEF RecvUnlink, OutWait, UnlinkDrop, OutGet, UnlinkNothing, OutTimeout,
                     UnlinkCount, OutCount, UnlinkReply
<1>19. CASE DapStart \/ DapCheck \/ DapRecheck \/ DapMalloc \/ DapClear
  BY <1>19, <1>l DEF DapStart, DapCheck, DapRecheck, DapMalloc, DapClear
<1>20. CASE DapTake \/ DapReceiveEmpty \/ DapIncr
  BY <1>20, <1>l DEF DapTake, DapReceiveEmpty, DapIncr
<1>21. CASE UNCHANGED vars
  BY <1>21, <1>l DEF vars
<1> HIDE DEF OrderInv
<1> QED
  BY <1>1, <1>2, <1>3, <1>4, <1>5, <1>6, <1>7, <1>8, <1>9, <1>10, <1>11, <1>12,
     <1>13, <1>14, <1>15, <1>16, <1>17, <1>18, <1>19, <1>20, <1>21
  DEF Next, ClientNext, TcpNext, DapNext, Faulted, NoClient

LEMMA OrderInvariant == Spec => [](TypeInv /\ OrderInv)
<1>1. Init => TypeInv /\ OrderInv
  <2>1. ASSUME Init PROVE OrderInv
    BY <2>1, EmptyOrder, BeforeOrder
    DEF Init, OrderInv, Offered, Executed, Replied, NoPacket, Received, Packet, Before
  <2> QED
    BY <2>1, InitTypeInv
<1>2. TypeInv /\ OrderInv /\ [Next]_vars => (TypeInv /\ OrderInv)'
  BY TypeStep, OrderStep
<1> QED
  BY <1>1, <1>2, PTL DEF Spec

(* Over all connections and resets, whatever is lost, the commands reach   *)
(* the target in the order in which they were received, and none twice.    *)
THEOREM ExecutionOrdered == Spec => ExecutedInOrder
<1>1. TypeInv /\ OrderInv /\ [Next]_vars
        => [dpc = "process" /\ dpc' = "out_send" => Before(lastExec, item)]_vars
  <2> SUFFICES ASSUME TypeInv, OrderInv, dpc = "process"
               PROVE  Before(lastExec, item)
    OBVIOUS
  <2>1. in \in Seq(Packet) /\ in # << >> /\ lastExec \in Packet /\ item = Head(in)
    BY DEF TypeInv, TypeOK, HeldItems, OrderInv
  <2> QED
    BY <2>1, TailOrder DEF OrderInv
<1> QED
  BY <1>1, OrderInvariant, PTL DEF Spec, ExecutedInOrder

(* A response is being sent only where PollReply has begun to send it. *)
LEMMA RepliedBy ==
    ASSUME [Next]_vars, Replied'
    PROVE  PollReply \/ (Replied /\ UNCHANGED <<sess, lastReply>>)
BY DEF Replied, Next, ClientNext, TcpNext, DapNext, Faulted, NoClient, vars, tcpLocal, history,
       Accept, Close, RecvHandshake, RecvElCommand, RecvImport, RecvOther, RecvCommand, RecvPoll,
       RecvUnlink, OutWait, AcceptFail, CloseNotify, ElProcessBufferMalloc, ElCommandDone,
       InSend, InUnblock, Notify, PollUnanswered, PollCount, PollReturn, UnlinkDrop,
       UnlinkNothing, UnlinkCount, UnlinkReturn, UnlinkReply, OutGet, OutTimeout, OutCount,
       OutReturn, DapStart, DapCheck, DapFree, DapRecheck, DapMalloc, DapClear, DapTake,
       DapReceive, DapReceiveEmpty, DapProcess, DapOutSend, DapOutUnblock, DapIncr

LEMMA ReplyLater ==
    ASSUME TypeInv, OrderInv, PollReply
    PROVE  Before(lastReply, lastReply') /\ lastReply' \in Packet /\ UNCHANGED sess
<1>1. /\ out \in Seq(Packet) /\ out # << >> /\ lastReply \in Packet
      /\ lastReply' = Head(out) /\ ~Replied
  BY DEF TypeInv, TypeOK, PollReply, OutGet, Replied
<1>2. lastReply' \in Packet /\ UNCHANGED sess
  BY <1>1, QueueTail DEF PollReply
<1> QED
  BY <1>1, <1>2, TailOrder DEF OrderInv

(* The responses leave in the order of their commands, none twice.         *)
THEOREM RepliesOrdered == Spec => RepliedInOrder
<1>1. TypeInv /\ OrderInv /\ [Next]_vars
        => [tpc = "poll_wait" /\ tpc' = "poll_dec" => Before(lastReply, lastReply')]_vars
  BY RepliedBy, ReplyLater DEF Replied
<1> QED
  BY <1>1, OrderInvariant, PTL DEF Spec, RepliedInOrder

----------------------------------------------------------------------------
(* When the clients wait for the reset after the client before them and    *)
(* no allocation fails.                                                    *)

(* A client is connected. *)
Live == tpc \notin {"accept", "close_notify", "dead"}

(* What each part of a connection knows of the DAP task. *)
PhaseInv ==
    /\ tpc \in {"in_send", "in_blocked", "notify", "poll_wait", "poll_dec", "poll_ret",
                "unlink_wait", "unlink_dec", "unlink_ret", "unlink_reply"}
          => kState = "EMULATING"
    /\ tpc \in {"el_malloc", "el_exec"} => kState = "EL_DATA_PHASE"
    /\ elBuf => kState = "EL_DATA_PHASE"
    /\ ~Live => kState \in {"ACCEPTING", "ATTACHING"}
    /\ Live /\ kState \in {"ACCEPTING", "ATTACHING"} =>
          /\ Quiet
          /\ in = << >> /\ out = << >>
          /\ owed = 0
    /\ kState = "EMULATING" =>
          /\ kRestart = "NO_SIGNAL"
          /\ inH /\ outH
          /\ dpc \in {"check", "take", "wait_in", "process", "out_send", "out_blocked", "incr"}
    /\ kState = "EL_DATA_PHASE" =>
          /\ dpc = "take" /\ notify = 0
          /\ tpc = "el_malloc" => inH /\ outH
          /\ tpc # "el_malloc" => ~inH /\ ~outH /\ elBuf
          /\ in = << >> /\ out = << >>

(* What a reset leaves behind. *)
ResetInv ==
    /\ ~Live /\ kRestart = "NO_SIGNAL" =>
          /\ dpc \in {"start", "check", "take", "wait_in"}
          /\ in = << >> /\ out = << >>
    /\ dpc \in {"recheck", "malloc", "clear"} => in = << >> /\ out = << >>
    /\ dpc \in {"wait_in", "process", "out_send", "out_blocked"} => inH /\ outH
    /\ dpc # "dead"

(* Every command a client is owed is in one place of the probe. *)
OwedInv ==
    /\ owed <= Window
    /\ kState = "EMULATING" =>
          Len(in) + Len(out) + One(dpc \in {"out_send", "out_blocked"})
                             + One(tpc \in {"in_send", "in_blocked"})
            = owed + One(tpc \in {"poll_dec", "poll_ret", "unlink_dec", "unlink_ret"})

CalmInv == fault = "none" /\ PhaseInv /\ ResetInv /\ OwedInv

LEMMA CalmInit ==
    ASSUME Init PROVE CalmInv
<1>1. Len(in) = 0 /\ Len(out) = 0
  BY QueueEmpty DEF Init
<1> QED
  BY <1>1, ConstantAssumption DEF Init, CalmInv, Live, PhaseInv, ResetInv, OwedInv, One

LEMMA CalmStep ==
    ASSUME HostWaits, ~AllocMayFail, TypeInv, CalmInv, [Next]_vars
    PROVE  CalmInv'
<1>y. TypeOK /\ HeldItems
  BY DEF TypeInv
<1>z. Received \in Packet
  BY <1>y DEF TypeOK, Received, Packet
<1> USE ConstantAssumption, QueueEmpty, QueueAppend, QueueTail, <1>y
    DEF CalmInv, PhaseInv, ResetInv, OwedInv, Live, Quiet, TypeOK, HeldItems, One,
        handles, rings, dapLocal, tcpLocal, history
<1>1. CASE Accept
  BY <1>1 DEF Accept
<1>2. CASE Close
  BY <1>2 DEF Close, ConnState
<1>3. CASE RecvHandshake
  BY <1>3 DEF RecvHandshake
<1>4. CASE RecvElCommand
  BY <1>4 DEF RecvElCommand
<1>5. CASE RecvImport
  BY <1>5 DEF RecvImport
<1>6. CASE RecvOther
  BY <1>6 DEF RecvOther
<1>7. CASE RecvCommand
  BY <1>7 DEF RecvCommand
<1>8. CASE RecvPoll
  BY <1>8 DEF RecvPoll, OutWait
<1>9. CASE RecvUnlink
  BY <1>9 DEF RecvUnlink, OutWait
<1>10. CASE CloseNotify
  BY <1>10 DEF CloseNotify
<1>11. CASE ElProcessBufferMalloc
  BY <1>11 DEF ElProcessBufferMalloc, FreeRings, DapInsideRing, Alloc
<1>12. CASE ElCommandDone
  BY <1>12 DEF ElCommandDone
<1>13. CASE InSend
  <2>1. inH /\ kState = "EMULATING" /\ tpc = "in_send"
    BY <1>13 DEF InSend
  <2>2. CASE Len(in) < BufferNum
    <3>1. Len(in') = Len(in) + 1
      BY <1>13, <1>z, <2>1, <2>2 DEF InSend
    <3>2. OwedInv'
      <4>1. tpc' = "notify" /\ UNCHANGED <<out, dpc, kState, owed>>
        BY <1>13, <2>1, <2>2 DEF InSend
      <4>2. One(tpc' \in {"in_send", "in_blocked"}) = One(tpc \in {"in_send", "in_blocked"}) - 1
        BY <2>1, <4>1
      <4> QED
        BY <2>1, <3>1, <4>1, <4>2
    <3>3. PhaseInv' /\ ResetInv' /\ fault' = "none"
      BY <1>13, <2>1, <2>2 DEF InSend
    <3> QED
      BY <3>2, <3>3
  <2>3. CASE Len(in) >= BufferNum
    BY <1>13, <2>1, <2>3 DEF InSend
  <2> QED
    BY <2>2, <2>3
<1>14. CASE InUnblock
  BY <1>14, <1>z DEF InUnblock
<1>15. CASE Notify
  <2>1. dpc # "dead" /\ kState = "EMULATING" /\ tpc = "notify"
    BY <1>15 DEF Notify
  <2>2. tpc' = "recv" /\ notify' \in Nat
    BY <1>15, <2>1 DEF Notify
  <2>3. UNCHANGED <<handles, rings, kRestart, fault, dpc, kState, elBuf, owed>>
    BY <1>15, <2>1 DEF Notify
  <2>4. PhaseInv'
    BY <2>1, <2>2, <2>3
  <2>5. ResetInv'
    BY <2>1, <2>2, <2>3
  <2>6. OwedInv'
    BY <2>1, <2>2, <2>3
  <2> QED
    BY <2>3, <2>4, <2>5, <2>6
<1>16. CASE PollReply
  BY <1>16 DEF PollReply, OutGet
<1>17. CASE PollUnanswered
  BY <1>17 DEF PollUnanswered, OutTimeout
<1>18. CASE PollCount
  BY <1>18 DEF PollCount, OutCount
<1>19. CASE PollReturn
  BY <1>19 DEF PollReturn, OutReturn
<1>20. CASE UnlinkDrop
  BY <1>20 DEF UnlinkDrop, OutGet
<1>21. CASE UnlinkNothing
  BY <1>21 DEF UnlinkNothing, OutTimeout
<1>22. CASE UnlinkCount
  BY <1>22 DEF UnlinkCount, OutCount
<1>23. CASE UnlinkReturn
  BY <1>23 DEF UnlinkReturn, OutReturn
<1>24. CASE UnlinkReply
  BY <1>24 DEF UnlinkReply
<1>25. CASE DapStart
  BY <1>25 DEF DapStart
<1>26. CASE DapCheck
  BY <1>26 DEF DapCheck
<1>27. CASE DapFree
  BY <1>27 DEF DapFree, FreeRings, TcpInsideRing
<1>28. CASE DapRecheck
  BY <1>28 DEF DapRecheck
<1>29. CASE DapMalloc
  BY <1>29 DEF DapMalloc, Alloc
<1>30. CASE DapClear
  BY <1>30 DEF DapClear
<1>31. CASE DapTake
  BY <1>31 DEF DapTake
<1>32. CASE DapReceive
  BY <1>32 DEF DapReceive
<1>33. CASE DapReceiveEmpty
  BY <1>33 DEF DapReceiveEmpty
<1>34. CASE DapProcess
  BY <1>34 DEF DapProcess
<1>35. CASE DapOutSend
  BY <1>35 DEF DapOutSend
<1>36. CASE DapOutUnblock
  BY <1>36 DEF DapOutUnblock
<1>37. CASE DapIncr
  BY <1>37 DEF DapIncr
<1>38. CASE UNCHANGED vars
  BY <1>38 DEF vars
<1>39. CASE AcceptFail
  BY <1>39 DEF AcceptFail
<1> HIDE QueueEmpty, QueueAppend, QueueTail, <1>y DEF CalmInv
<1> QED
  BY <1>1, <1>2, <1>3, <1>4, <1>5, <1>6, <1>7, <1>8, <1>9, <1>10,
     <1>11, <1>12, <1>13, <1>14, <1>15, <1>16, <1>17, <1>18, <1>19, <1>20,
     <1>21, <1>22, <1>23, <1>24, <1>25, <1>26, <1>27, <1>28, <1>29, <1>30,
     <1>31, <1>32, <1>33, <1>34, <1>35, <1>36, <1>37, <1>38, <1>39
  DEF Next, ClientNext, TcpNext, DapNext, Faulted, NoClient

----------------------------------------------------------------------------

LEMMA CalmInvariant ==
    ASSUME HostWaits, ~AllocMayFail
    PROVE  Spec => [](TypeInv /\ CalmInv)
<1>1. Init => TypeInv /\ CalmInv
  BY InitTypeInv, CalmInit
<1>2. TypeInv /\ CalmInv /\ [Next]_vars => (TypeInv /\ CalmInv)'
  BY TypeStep, CalmStep
<1> QED
  BY <1>1, <1>2, PTL DEF Spec

(* No task uses a NULL or a deleted ring buffer, with any number of        *)
(* connections of both kinds, as long as clients wait for the reset.       *)
THEOREM NoFaultCalm ==
    ASSUME HostWaits, ~AllocMayFail
    PROVE  Spec => []NoFault
<1>1. TypeInv /\ CalmInv => NoFault
  BY DEF CalmInv, NoFault
<1> QED
  BY <1>1, CalmInvariant, PTL

(* A client that is attached finds both ring buffers, if every client      *)
(* connects after the reset for the one before it.                         *)
THEOREM BuffersCalm ==
    ASSUME HostWaits, ~AllocMayFail
    PROVE  Spec => []BuffersWhileEmulating
<1>1. TypeInv /\ CalmInv => BuffersWhileEmulating
  BY DEF CalmInv, PhaseInv, BuffersWhileEmulating
<1> QED
  BY <1>1, CalmInvariant, PTL

(* An elaphureLink client that connected after the reset for the client    *)
(* before it has the target for itself; nothing is said of a hasty one.    *)
THEOREM ElOwnsTargetCalm ==
    ASSUME HostWaits, ~AllocMayFail
    PROVE  Spec => []ElOwnsTarget
<1>1. TypeInv /\ CalmInv => ElOwnsTarget
  BY DEF CalmInv, PhaseInv, ElOwnsTarget
<1> QED
  BY <1>1, CalmInvariant, PTL

(* With at most 2 * DAP_BUFFER_NUM + 1 commands unanswered the two tasks   *)
(* never block each other; one more is enough to (run packet_count).       *)
THEOREM NoMutualBlockCalm ==
    ASSUME HostWaits, ~AllocMayFail, Window <= 2 * BufferNum + 1
    PROVE  Spec => []NoMutualBlock
<1>1. TypeInv /\ CalmInv => NoMutualBlock
  BY ConstantAssumption
     DEF TypeInv, TypeOK, CalmInv, PhaseInv, OwedInv, NoMutualBlock, One
<1> QED
  BY <1>1, CalmInvariant, PTL

----------------------------------------------------------------------------
(* The probe implements a pipe of responses (ResponsePipe).                *)

(* The four parts of Pending are joined, cut at the front and extended at  *)
(* the back.                                                               *)
LEMMA JoinEmpty ==
    \A q \in Seq(Packet) : q \o << >> = q /\ << >> \o q = q
BY ConcatEmptySeq

LEMMA JoinTyped ==
    \A q, r \in Seq(Packet) :
        q \o r \in Seq(Packet) /\ Len(q \o r) = Len(q) + Len(r)
BY ConcatProperties

LEMMA JoinAssociative ==
    \A q, r, t \in Seq(Packet) : (q \o r) \o t = q \o (r \o t)
BY ConcatAssociative

LEMMA JoinAppend ==
    ASSUME NEW q \in Seq(Packet), NEW e \in Packet
    PROVE  /\ <<e>> \in Seq(Packet) /\ Len(<<e>>) = 1
           /\ Append(q, e) = q \o <<e>>
           /\ q # << >> => Tail(Append(q, e)) = Append(Tail(q), e)
           /\ q = << >> => Append(q, e) = <<e>>
<1>1. <<e>> \in Seq(Packet) /\ Len(<<e>>) = 1
  OBVIOUS
<1>2. Append(q, e) = q \o <<e>>
  BY AppendIsConcat
<1>3. q # << >> => Tail(Append(q, e)) = Append(Tail(q), e)
  BY HeadTailAppend
<1>4. q = << >> => Append(q, e) = <<e>>
  BY <1>1, <1>2, JoinEmpty
<1> QED
  BY <1>1, <1>2, <1>3, <1>4

LEMMA JoinTail ==
    ASSUME NEW q \in Seq(Packet), NEW r \in Seq(Packet), q # << >>
    PROVE  /\ q \o r # << >>
           /\ Head(q \o r) = Head(q)
           /\ Tail(q \o r) = Tail(q) \o r
           /\ q = <<Head(q)>> \o Tail(q)
<1>1. /\ Len(q) \in Nat \ {0} /\ Len(r) \in Nat
      /\ Tail(q) \in Seq(Packet) /\ Len(Tail(q)) = Len(q) - 1
      /\ Head(q) = q[1] /\ Head(q) \in Packet
      /\ \A i \in 1..(Len(q) - 1) : Tail(q)[i] = q[i + 1]
  OBVIOUS
<1>2. /\ q \o r \in Seq(Packet) /\ Len(q \o r) = Len(q) + Len(r)
      /\ \A i \in 1..(Len(q) + Len(r)) :
            (q \o r)[i] = IF i <= Len(q) THEN q[i] ELSE r[i - Len(q)]
  BY ConcatProperties
<1>3. /\ Tail(q) \o r \in Seq(Packet)
      /\ Len(Tail(q) \o r) = Len(q) - 1 + Len(r)
      /\ \A i \in 1..(Len(q) - 1 + Len(r)) :
            (Tail(q) \o r)[i] = IF i <= Len(q) - 1 THEN Tail(q)[i] ELSE r[i - (Len(q) - 1)]
  BY <1>1, ConcatProperties
<1>4. q \o r # << >> /\ Head(q \o r) = Head(q)
  BY <1>1, <1>2
<1>5. Tail(q \o r) = Tail(q) \o r
  <2>1. /\ Tail(q \o r) \in Seq(Packet) /\ Len(Tail(q \o r)) = Len(q) + Len(r) - 1
        /\ \A i \in 1..(Len(q) + Len(r) - 1) : Tail(q \o r)[i] = (q \o r)[i + 1]
    BY <1>2, <1>4, HeadTailProperties
  <2>2. ASSUME NEW i \in 1..(Len(q) + Len(r) - 1)
        PROVE  Tail(q \o r)[i] = (Tail(q) \o r)[i]
    BY <1>1, <1>2, <1>3, <2>1
  <2> QED
    BY <1>1, <1>3, <2>1, <2>2, SeqEqual
<1>6. q = <<Head(q)>> \o Tail(q)
  <2>1. /\ <<Head(q)>> \in Seq(Packet) /\ Len(<<Head(q)>>) = 1 /\ <<Head(q)>>[1] = q[1]
    BY <1>1
  <2>2. /\ <<Head(q)>> \o Tail(q) \in Seq(Packet)
        /\ Len(<<Head(q)>> \o Tail(q)) = Len(q)
        /\ \A i \in 1..Len(q) : (<<Head(q)>> \o Tail(q))[i] = q[i]
    BY <1>1, <2>1, ConcatProperties
  <2> QED
    BY <2>2, SeqEqual
<1> QED
  BY <1>4, <1>5, <1>6

----------------------------------------------------------------------------

(* A poll or an unlink has taken the first response, and not returned it. *)
Taken == tpc \in {"poll_dec", "poll_ret", "unlink_dec", "unlink_ret"}

LEMMA PartsTyped ==
    ASSUME TypeInv
    PROVE  /\ in \in Seq(Packet) /\ out \in Seq(Packet) /\ item \in Packet /\ Received \in Packet
           /\ Unread \in Seq(Packet) /\ InHand \in Seq(Packet) /\ Unsent \in Seq(Packet)
           /\ Len(Unread) = Len(out) - One(Taken)
           /\ Len(InHand) = One(Executed) /\ Len(Unsent) = One(Offered)
<1>1. in \in Seq(Packet) /\ out \in Seq(Packet) /\ item \in Packet /\ (Taken => out # << >>)
  BY DEF TypeInv, TypeOK, HeldItems, Taken
<1>2. Received \in Packet
  BY DEF TypeInv, TypeOK, Received, Packet
<1>3. Unread \in Seq(Packet) /\ Len(Unread) = Len(out) - One(Taken)
  BY <1>1, QueueTail DEF Unread, Taken, One
<1>4. InHand \in Seq(Packet) /\ Len(InHand) = One(Executed)
  BY <1>1, QueueEmpty, JoinAppend DEF InHand, Executed, One
<1>5. Unsent \in Seq(Packet) /\ Len(Unsent) = One(Offered)
  BY <1>2, QueueEmpty, JoinAppend DEF Unsent, Offered, One
<1> QED
  BY <1>1, <1>2, <1>3, <1>4, <1>5

(* While a client is connected, Pending joins the four parts; otherwise it *)
(* is empty.                                                               *)
LEMMA PendingParts ==
    /\ Live => Pending = Unread \o InHand \o in \o Unsent
    /\ ~Live => Pending = << >>
BY DEF Live, Pending

(* A client that may send another command has room for it in the pipe.     *)
LEMMA PendingOwed ==
    ASSUME TypeInv, CalmInv, kState = "EMULATING", tpc = "recv"
    PROVE  Len(Pending) = owed
<1>1. Live /\ ~Taken /\ ~Offered
  BY DEF Live, Taken, Offered
<1>2. Len(Pending) = Len(Unread) + Len(InHand) + Len(in) + Len(Unsent)
  <2>1. /\ Unread \o InHand \in Seq(Packet)
        /\ Len(Unread \o InHand) = Len(Unread) + Len(InHand)
    BY PartsTyped, JoinTyped, JoinAssociative
  <2>2. /\ Unread \o InHand \o in \in Seq(Packet)
        /\ Len(Unread \o InHand \o in) = Len(Unread) + Len(InHand) + Len(in)
    BY <2>1, PartsTyped, JoinTyped, JoinAssociative
  <2> QED
    BY <1>1, <2>2, PartsTyped, PendingParts, JoinTyped, JoinAssociative
<1>3. Len(in) \in Nat /\ Len(out) \in Nat /\ owed \in Int
  BY PartsTyped, QueueTail DEF TypeInv, TypeOK
<1>4. Len(in) + Len(out) + One(Executed) = owed
  BY <1>1, <1>3 DEF CalmInv, OwedInv, Executed, Offered, Taken, One
<1> QED
  <2>1. Len(Unread) = Len(out) /\ Len(InHand) = One(Executed) /\ Len(Unsent) = 0
    BY <1>1, <1>3, PartsTyped DEF One
  <2>2. One(Executed) \in Int
    BY DEF One
  <2> QED
    BY <1>2, <1>3, <1>4, <2>1, <2>2

Idle == UNCHANGED <<sess, sent, Pending, lastReply>>

LEMMA PipeStep ==
    ASSUME HostWaits, ~AllocMayFail, TypeInv, CalmInv, OrderInv, [Next]_vars
    PROVE  Pipe!Next \/ Idle
<1>t. PICK U, H \in Seq(Packet) : U = Unread /\ H = InHand
  BY PartsTyped
<1>p. /\ TypeInv' /\ CalmInv'
      /\ in \in Seq(Packet) /\ out \in Seq(Packet) /\ item \in Packet /\ Received \in Packet
      /\ in' \in Seq(Packet) /\ out' \in Seq(Packet)
  BY TypeStep, CalmStep, PartsTyped DEF TypeInv, TypeOK
<1>l. /\ Received = [s |-> sess, n |-> sent]
      /\ Received' = [s |-> sess', n |-> sent']
  BY DEF Received
<1>c. fault = "none" /\ PhaseInv /\ ResetInv /\ OwedInv /\ TypeOK /\ HeldItems
  BY DEF CalmInv, TypeInv
<1> USE DEF handles, rings, dapLocal, tcpLocal, history
<1>1. CASE Accept
  <2>1. Pending = << >> /\ in = << >> /\ out = << >> /\ dpc = "take"
    BY <1>1, <1>c DEF Accept, Pending, ResetInv, Live, Quiet
  <2>2. Unread' = << >> /\ InHand' = << >> /\ in' = << >> /\ Unsent' = << >>
    BY <1>1, <2>1 DEF Accept, Unread, InHand, Unsent
  <2>3. Pending' = << >>
    BY <1>1, <2>2, QueueEmpty, JoinEmpty DEF Accept, Pending
  <2> QED
    BY <1>1, <2>1, <2>3 DEF Accept, Pipe!Next, Pipe!Connect
<1>2. CASE Close
  <2>1. Pending' = << >>
    BY <1>2 DEF Close, Pending
  <2> QED
    BY <1>2, <2>1 DEF Close, Pipe!Next, Pipe!Disconnect
<1>3. CASE RecvCommand
  <2>1. tpc = "recv" /\ kState = "EMULATING" /\ tpc' = "in_send" /\ owed < Window
    BY <1>3 DEF RecvCommand
  <2>2. Len(Pending) < Window
    BY <2>1, PendingOwed
  <2>3. Pending' = Append(Pending, [s |-> sess, n |-> sent + 1])
    <3>1. Received' = [s |-> sess, n |-> sent + 1] /\ Received' \in Packet
      BY <1>3, <1>l, <1>c DEF RecvCommand, TypeOK, Packet
    <3>2. Unsent = << >> /\ Unsent' = <<Received'>> /\ Unread' = Unread /\ InHand' = InHand /\ in' = in
      BY <1>3, <2>1 DEF RecvCommand, Unsent, Unread, InHand
    <3>3. U \o H \o in \in Seq(Packet)
      BY <1>p, JoinTyped, JoinAssociative
    <3>4. Pending = U \o H \o in /\ Pending' = (U \o H \o in) \o <<Received'>>
      BY <1>t, <2>1, <3>2, <3>3, JoinEmpty DEF Pending
    <3> QED
      BY <3>1, <3>3, <3>4, JoinAppend
  <2> QED
    BY <1>3, <2>2, <2>3 DEF RecvCommand, Pipe!Next, Pipe!Submit
<1>4. CASE InSend \/ InUnblock
  <2>1. CASE in' = Append(in, Received) /\ tpc' = "notify"
    <3>1. Unsent = <<Received>> /\ Unsent' = << >> /\ Unread' = Unread /\ InHand' = InHand
      BY <1>4, <2>1 DEF InSend, InUnblock, Unsent, Unread, InHand
    <3>2. tpc \in {"in_send", "in_blocked"}
      BY <1>4 DEF InSend, InUnblock
    <3>3. U \o H \in Seq(Packet) /\ <<Received>> \in Seq(Packet)
      BY <1>p, JoinTyped, JoinAssociative, JoinAppend
    <3>4. /\ Pending = (U \o H \o in) \o <<Received>>
          /\ Pending' = (U \o H \o in') \o << >>
      BY <1>t, <2>1, <3>1, <3>2 DEF Pending
    <3>5. /\ U \o H \o in' \in Seq(Packet)
          /\ (U \o H \o in) \o <<Received>> = U \o H \o (in \o <<Received>>)
      <4> DEFINE W == U \o H
      <4>1. W \in Seq(Packet)
        BY <3>3
      <4> HIDE DEF W
      <4>2. W \o in' \in Seq(Packet)
        BY <1>p, <4>1, JoinTyped
      <4>3. in \in Seq(Packet) /\ <<Received>> \in Seq(Packet)
        BY <1>p, <3>3
      <4>4. (W \o in) \o <<Received>> = W \o (in \o <<Received>>)
        BY <4>1, <4>3, JoinAssociative, Zenon
      <4> QED
        BY <4>2, <4>4 DEF W
    <3>6. in' = in \o <<Received>>
      BY <1>p, <2>1, JoinAppend
    <3>7. Pending' = Pending
      BY <3>4, <3>5, <3>6, JoinEmpty
    <3> QED
      BY <1>4, <3>7 DEF InSend, InUnblock, Idle
  <2>2. CASE UNCHANGED <<in, item>> /\ tpc \in {"in_send", "in_blocked"} /\ tpc' \in {"in_send", "in_blocked"}
    <3>1. UNCHANGED <<out, dpc, sess, sent, lastReply>>
      BY <1>4 DEF InSend, InUnblock
    <3> QED
      BY <2>2, <3>1, <1>l DEF Idle, Pending, Unread, InHand, Unsent
  <2> QED
    BY <1>4, <2>1, <2>2 DEF InSend, InUnblock
<1>5. CASE PollReply \/ UnlinkDrop
  <2>1. out # << >> /\ tpc \in {"poll_wait", "unlink_wait"} /\ Taken'
    BY <1>5 DEF PollReply, UnlinkDrop, OutGet, Taken
  <2>2. UNCHANGED <<in, out, item, dpc, sess, sent>>
    BY <1>5 DEF PollReply, UnlinkDrop, OutGet
  <2>3. Unread = out /\ Unread' = Tail(out) /\ InHand' = InHand /\ Unsent = << >> /\ Unsent' = << >>
    BY <2>1, <2>2 DEF Unread, InHand, Unsent, Taken
  <2>4. Pending = (U \o H \o in) \o << >> /\ Pending' = (Tail(U) \o H \o in) \o << >>
    BY <1>t, <2>1, <2>2, <2>3 DEF Pending, Taken
  <2>5. H \o in \in Seq(Packet) /\ Tail(U) \in Seq(Packet) /\ U # << >> /\ U = out
    BY <1>t, <1>p, <2>1, <2>3, JoinTyped, JoinAssociative, QueueTail
  <2>6. Pending = U \o (H \o in) /\ Pending' = Tail(U) \o (H \o in)
    <3>1. ASSUME NEW q \in Seq(Packet)
          PROVE  (q \o H \o in) \o << >> = q \o (H \o in)
      <4>1. (q \o H) \o in = q \o (H \o in)
        BY <1>p, JoinAssociative
      <4>2. q \o H \in Seq(Packet)
        BY JoinTyped
      <4>3. (q \o H) \o in \in Seq(Packet)
        BY <1>p, <4>2, JoinTyped
      <4> QED
        BY <4>1, <4>3, JoinEmpty
    <3> QED
      BY <2>4, <2>5, <3>1
  <2>7. Pending # << >> /\ Head(Pending) = Head(out) /\ Pending' = Tail(Pending)
    BY <2>5, <2>6, JoinTail
  <2>8. CASE PollReply
    BY <2>2, <2>7, <2>8 DEF PollReply, Pipe!Next, Pipe!Answer
  <2>9. CASE UnlinkDrop
    BY <2>2, <2>7, <2>9 DEF UnlinkDrop, Pipe!Next, Pipe!Discard
  <2> QED
    BY <1>5, <2>8, <2>9
<1>6. CASE PollReturn \/ UnlinkReturn
  <2>1. Unread = Tail(out) /\ Unread' = Tail(out) /\ InHand' = InHand /\ Unsent = << >> /\ Unsent' = << >>
    BY <1>6 DEF PollReturn, UnlinkReturn, OutReturn, Unread, InHand, Unsent
  <2>2. Pending' = Pending
    BY <1>6, <2>1 DEF PollReturn, UnlinkReturn, OutReturn, Pending
  <2> QED
    BY <1>6, <2>2 DEF PollReturn, UnlinkReturn, OutReturn, Idle
<1>7. CASE ElProcessBufferMalloc
  <2>1. /\ in = << >> /\ out = << >> /\ in' = << >> /\ out' = << >> /\ dpc = "take" /\ dpc' = "take"
        /\ tpc = "el_malloc" /\ tpc' = "recv"
    BY <1>7, <1>c DEF ElProcessBufferMalloc, FreeRings, DapInsideRing, PhaseInv
  <2>2. /\ Unread = Unread' /\ InHand = InHand' /\ Unsent = Unsent'
    BY <2>1 DEF Unread, InHand, Unsent
  <2>3. Pending' = Pending
    BY <2>1, <2>2 DEF Pending
  <2> QED
    BY <1>7, <2>3 DEF ElProcessBufferMalloc, Idle
<1>8. CASE DapFree
  <2>1. tpc \in {"accept", "close_notify", "dead"}
    BY <1>8, <1>c DEF DapFree, PhaseInv, Live, Quiet, TypeOK, TcpPC, ConnState
  <2>2. Pending = << >> /\ Pending' = << >>
    BY <1>8, <2>1 DEF DapFree, Pending
  <2> QED
    BY <1>8, <2>2 DEF DapFree, Idle
<1>9. CASE DapProcess
  <2>1. in # << >> /\ item = Head(in) /\ in' = Tail(in)
    BY <1>9, <1>c DEF DapProcess, HeldItems, OrderInv
  <2>2. InHand = << >> /\ InHand' = <<item>> /\ Unread' = Unread /\ Unsent' = Unsent
    BY <1>9, <1>l DEF DapProcess, InHand, Unread, Unsent
  <2>3. in = <<item>> \o in'
    BY <1>p, <2>1, JoinTail, QueueEmpty
  <2>4. U \o << >> \o in = U \o <<item>> \o in'
    <3>1. U \o << >> = U /\ <<item>> \in Seq(Packet)
      BY <1>p, JoinAppend, JoinEmpty
    <3>2. (U \o <<item>>) \o in' = U \o (<<item>> \o in')
      BY <1>p, <3>1, JoinAssociative, Zenon
    <3> QED
      BY <2>3, <3>1, <3>2
  <2> QED
    BY <1>9, <1>t, <2>2, <2>4 DEF DapProcess, Pending, Idle
<1>10. CASE DapOutSend \/ DapOutUnblock
  <2>1. CASE out' = Append(out, item) /\ dpc' = "incr"
    <3>1. InHand = <<item>> /\ InHand' = << >> /\ Unsent' = Unsent /\ Unread' = Append(Unread, item)
      <4>1. UNCHANGED <<tpc, sess, sent>> /\ dpc \in {"out_send", "out_blocked"}
        BY <1>10 DEF DapOutSend, DapOutUnblock
      <4>2. Taken => out # << >>
        BY <1>c DEF HeldItems, Taken
      <4> QED
        BY <1>l, <1>p, <2>1, <4>1, <4>2, JoinAppend DEF InHand, Unsent, Unread, Taken
    <3>2. Unread' = U \o H /\ U \o H \in Seq(Packet)
      BY <1>t, <1>p, <3>1, JoinAppend, JoinTyped, JoinAssociative
    <3>3. Unread' \o InHand' = Unread \o InHand
      BY <1>t, <3>1, <3>2, JoinEmpty
    <3>4. UNCHANGED <<in, tpc, sess, sent, lastReply>>
      BY <1>10 DEF DapOutSend, DapOutUnblock
    <3> QED
      BY <3>1, <3>3, <3>4 DEF Pending, Idle
  <2>2. CASE UNCHANGED out
    <3>1. /\ dpc \in {"out_send", "out_blocked"} /\ dpc' \in {"out_send", "out_blocked"}
          /\ UNCHANGED <<in, item, tpc, sess, sent, lastReply>>
      BY <1>10, <1>p, <2>2, QueueAppend DEF DapOutSend, DapOutUnblock
    <3> QED
      BY <2>2, <3>1, <1>l DEF Pending, Unread, InHand, Unsent, Idle
  <2> QED
    BY <1>10, <2>1, <2>2 DEF DapOutSend, DapOutUnblock
<1>r. ASSUME UNCHANGED <<in, out, item, sess, sent, lastReply>>,
             dpc \notin {"out_send", "out_blocked"}, dpc' \notin {"out_send", "out_blocked"},
             Live' = Live, Taken' = Taken, Offered' = Offered
      PROVE  Idle
  <2>1. Unread' = Unread /\ InHand' = InHand /\ Unsent' = Unsent
    BY <1>r, <1>l DEF Unread, InHand, Unsent, Taken, Offered
  <2> QED
    BY <1>r, <2>1 DEF Pending, Live, Idle
<1>11. CASE CloseNotify \/ AcceptFail
  BY <1>11 DEF CloseNotify, AcceptFail, Idle, Pending
<1>q. ASSUME UNCHANGED <<in, out, item, dpc, sess, sent, lastReply>>,
             Live' = Live, Taken' = Taken, Offered' = Offered
      PROVE  Idle
  <2>1. Unread' = Unread /\ InHand' = InHand /\ Unsent' = Unsent
    BY <1>q, <1>l DEF Unread, InHand, Unsent, Taken, Offered
  <2> QED
    BY <1>q, <2>1 DEF Pending, Live, Idle
<1>12. CASE RecvHandshake \/ RecvElCommand \/ ElCommandDone
  BY <1>12, <1>q DEF RecvHandshake, RecvElCommand, ElCommandDone, Live, Taken, Offered
<1>13. CASE RecvImport \/ RecvOther \/ Notify
  BY <1>13, <1>q DEF RecvImport, RecvOther, Notify, Live, Taken, Offered
<1>14. CASE RecvPoll \/ PollUnanswered \/ PollCount
  BY <1>14, <1>q DEF RecvPoll, OutWait, PollUnanswered, OutTimeout, PollCount, OutCount,
                     Live, Taken, Offered
<1>15. CASE RecvUnlink \/ UnlinkNothing \/ UnlinkCount \/ UnlinkReply
  BY <1>15, <1>q DEF RecvUnlink, OutWait, UnlinkNothing, OutTimeout, UnlinkCount, OutCount,
                     UnlinkReply, Live, Taken, Offered
<1>16. CASE DapStart \/ DapCheck \/ DapRecheck \/ DapMalloc \/ DapClear
  BY <1>16, <1>r DEF DapStart, DapCheck, DapRecheck, DapMalloc, DapClear, Live, Taken, Offered
<1>17. CASE DapTake \/ DapReceiveEmpty \/ DapIncr
  BY <1>17, <1>r DEF DapTake, DapReceiveEmpty, DapIncr, Live, Taken, Offered
<1>18. CASE DapReceive
  <2>1. /\ UNCHANGED <<in, out, tpc, sess, sent, lastReply>>
        /\ InHand = << >> /\ InHand' = << >>
    BY <1>18 DEF DapReceive, InHand
  <2>2. Unread' = Unread /\ Unsent' = Unsent
    BY <1>l, <2>1 DEF Unread, Unsent
  <2> QED
    BY <2>1, <2>2 DEF Pending, Idle
<1>19. CASE UNCHANGED vars
  BY <1>19, <1>q DEF vars, Live, Taken, Offered
<1> QED
  BY <1>1, <1>2, <1>3, <1>4, <1>5, <1>6, <1>7, <1>8, <1>9, <1>10, <1>11, <1>12,
     <1>13, <1>14, <1>15, <1>16, <1>17, <1>18, <1>19
  DEF Next, ClientNext, TcpNext, DapNext, Faulted, NoClient

LEMMA PipeInvariant ==
    ASSUME HostWaits, ~AllocMayFail
    PROVE  Spec => [](TypeInv /\ CalmInv /\ OrderInv)
BY CalmInvariant, OrderInvariant, PTL

(* The probe answers the commands of a connection one by one, each once,   *)
(* in the order they were sent; an unlink discards the oldest that is not  *)
(* read; what is unanswered at the close is never seen again.              *)
THEOREM ProbeImplementsPipe ==
    ASSUME HostWaits, ~AllocMayFail
    PROVE  Spec => ImplementsPipe
<1>1. Init => Pipe!Init
  BY DEF Init, Pipe!Init, Pending, NoPacket
<1>2. TypeInv /\ CalmInv /\ OrderInv /\ [Next]_vars => [Pipe!Next]_(Pipe!pipeVars)
  BY PipeStep DEF Pipe!pipeVars, Idle
<1> QED
  BY <1>1, <1>2, PipeInvariant, PTL DEF Spec, ImplementsPipe, Pipe!Spec

----------------------------------------------------------------------------

(* Whatever is pending, and the reply being sent, is of this connection. *)
OwnInv ==
    /\ \A i \in 1..Len(Pending) : Pending[i].s = sess
    /\ Replied => lastReply.s = sess

LEMMA OwnStep ==
    ASSUME HostWaits, ~AllocMayFail, TypeInv, CalmInv, OrderInv, OwnInv, [Next]_vars
    PROVE  OwnInv'
<1>1. Pending \in Seq(Packet)
  <2>1. Unread \o InHand \in Seq(Packet)
    BY PartsTyped, JoinTyped
  <2>2. Unread \o InHand \o in \in Seq(Packet)
    BY <2>1, PartsTyped, JoinTyped
  <2> QED
    BY <2>2, PartsTyped, PendingParts, JoinTyped, QueueEmpty
<1>2. Pipe!Next \/ Idle
  BY PipeStep
<1>3. CASE PollReply
  <2>1. /\ Pending # << >> /\ lastReply' = Head(Pending) /\ Pending' = Tail(Pending)
        /\ UNCHANGED sess
    <3>1. ~UNCHANGED lastReply
      BY <1>3, ReplyLater, BeforeOrder DEF TypeInv, TypeOK
    <3> QED
      BY <1>2, <3>1 DEF Idle, Pipe!Next, Pipe!Connect, Pipe!Submit, Pipe!Answer,
                        Pipe!Discard, Pipe!Disconnect
  <2> QED
    BY <1>1, <2>1, HeadTailProperties DEF OwnInv
<1>4. CASE ~PollReply
  <2>1. Replied' => lastReply'.s = sess'
    BY <1>4, RepliedBy DEF OwnInv
  <2>2. ASSUME NEW i \in 1..Len(Pending') PROVE Pending'[i].s = sess'
    <3>1. CASE Pipe!Submit
      <4>1. Pending' = Append(Pending, [s |-> sess, n |-> sent + 1]) /\ UNCHANGED sess
        BY <3>1 DEF Pipe!Submit
      <4> QED
        BY <1>1, <2>2, <4>1, AppendProperties DEF OwnInv
    <3>2. CASE Pipe!Connect \/ Pipe!Disconnect
      BY <2>2, <3>2, QueueEmpty DEF Pipe!Connect, Pipe!Disconnect
    <3>3. CASE Pipe!Answer \/ Pipe!Discard
      BY <1>1, <2>2, <3>3, HeadTailProperties DEF Pipe!Answer, Pipe!Discard, OwnInv
    <3>4. CASE Idle
      BY <2>2, <3>4 DEF Idle, OwnInv
    <3> QED
      BY <1>2, <3>1, <3>2, <3>3, <3>4 DEF Pipe!Next
  <2> QED
    BY <2>1, <2>2 DEF OwnInv
<1> QED
  BY <1>3, <1>4

(* A client reads the responses to its own commands only.                  *)
THEOREM OwnResponsesCalm ==
    ASSUME HostWaits, ~AllocMayFail
    PROVE  Spec => []OwnResponses
<1>1. Init => OwnInv
  <2>1. ASSUME Init PROVE Pending = << >> /\ ~Replied
    BY <2>1 DEF Init, Pending, Replied
  <2> QED
    BY <2>1, QueueEmpty DEF OwnInv
<1>2. TypeInv /\ CalmInv /\ OrderInv /\ OwnInv /\ [Next]_vars => OwnInv'
  BY OwnStep
<1>3. OwnInv => OwnResponses
  BY DEF OwnInv, Replied, OwnResponses
<1> QED
  BY <1>1, <1>2, <1>3, PipeInvariant, PTL DEF Spec

----------------------------------------------------------------------------

(* On the first connection the count is exact: the poll that sees it       *)
(* positive finds a response, for no reset has taken one away.             *)
FirstInv ==
    /\ sess = 0 => tpc = "accept" /\ kRestart = "NO_SIGNAL"
    /\ sess = 0 \/ (sess = 1 /\ Live) =>
          Len(out) = dap_respond + One(dpc = "incr") + One(tpc \in {"poll_ret", "unlink_ret"})

LEMMA FirstStep ==
    ASSUME HostWaits, ~AllocMayFail, TypeInv, CalmInv, FirstInv, [Next]_vars
    PROVE  FirstInv'
<1>t. /\ TypeOK /\ HeldItems /\ fault = "none" /\ PhaseInv /\ ResetInv
      /\ item \in Packet /\ out \in Seq(Packet) /\ Len(out) \in Nat
      /\ dap_respond \in Int /\ sess \in Nat
  BY QueueTail DEF TypeInv, TypeOK, CalmInv
<1> USE DEF FirstInv, One, Live, handles, rings, dapLocal, tcpLocal, history
<1>1. CASE Accept \/ Close \/ CloseNotify \/ AcceptFail
  BY <1>1, <1>t DEF Accept, Close, CloseNotify, AcceptFail, ResetInv
<1>2. CASE RecvHandshake \/ RecvElCommand \/ ElCommandDone \/ RecvImport \/ RecvOther
  BY <1>2 DEF RecvHandshake, RecvElCommand, ElCommandDone, RecvImport, RecvOther
<1>3. CASE RecvCommand \/ InSend \/ InUnblock \/ Notify
  BY <1>3 DEF RecvCommand, InSend, InUnblock, Notify
<1>4. CASE RecvPoll \/ PollReply \/ PollUnanswered \/ PollCount
  BY <1>4, <1>t DEF RecvPoll, OutWait, PollReply, OutGet, PollUnanswered, OutTimeout,
                    PollCount, OutCount
<1>5. CASE RecvUnlink \/ UnlinkDrop \/ UnlinkNothing \/ UnlinkCount \/ UnlinkReply
  BY <1>5, <1>t DEF RecvUnlink, OutWait, UnlinkDrop, OutGet, UnlinkNothing, OutTimeout,
                    UnlinkCount, OutCount, UnlinkReply
<1>6. CASE PollReturn \/ UnlinkReturn
  BY <1>6, <1>t, QueueTail DEF PollReturn, UnlinkReturn, OutReturn, HeldItems
<1>7. CASE ElProcessBufferMalloc
  BY <1>7, <1>t DEF ElProcessBufferMalloc, FreeRings, DapInsideRing, PhaseInv
<1>8. CASE DapFree
  BY <1>8, <1>t DEF DapFree, PhaseInv, ResetInv, Quiet, TypeOK, ConnState
<1>9. CASE DapOutSend \/ DapOutUnblock
  BY <1>9, <1>t, QueueAppend DEF DapOutSend, DapOutUnblock
<1>10. CASE DapStart \/ DapCheck \/ DapRecheck \/ DapMalloc \/ DapClear
  BY <1>10 DEF DapStart, DapCheck, DapRecheck, DapMalloc, DapClear
<1>11. CASE DapTake \/ DapReceive \/ DapReceiveEmpty \/ DapProcess \/ DapIncr
  BY <1>11, <1>t DEF DapTake, DapReceive, DapReceiveEmpty, DapProcess, DapIncr
<1>12. CASE UNCHANGED vars
  BY <1>12 DEF vars
<1> HIDE DEF FirstInv
<1> QED
  BY <1>1, <1>2, <1>3, <1>4, <1>5, <1>6, <1>7, <1>8, <1>9, <1>10, <1>11, <1>12
  DEF Next, ClientNext, TcpNext, DapNext, Faulted, NoClient

(* On the first connection every poll that found the count positive is     *)
(* answered with data; nothing is said of later ones, where the count may  *)
(* be left from before.                                                    *)
THEOREM PollsAnsweredCalm ==
    ASSUME HostWaits, ~AllocMayFail
    PROVE  Spec => []PollsAnswered
<1>1. Init => CountInv /\ FirstInv
  BY QueueEmpty DEF Init, CountInv, ResponsesCounted, FirstInv, One
<1>2. TypeInv /\ CountInv /\ [Next]_vars => CountInv'
  BY CountStep
<1>3. TypeInv /\ CalmInv /\ FirstInv /\ [Next]_vars => FirstInv'
  BY FirstStep
<1>4. TypeInv /\ CountInv /\ FirstInv => PollsAnswered
  BY QueueEmpty DEF TypeInv, TypeOK, CountInv, FirstInv, Live, One, PollsAnswered
<1> QED
  BY <1>1, <1>2, <1>3, <1>4, CalmInvariant, PTL DEF Spec

==============================================================================
