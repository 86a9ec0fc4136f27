-------------------------------- MODULE Kcp --------------------------------
(***************************************************************************)
(* The KCP transport: two control blocks of ikcp.c over UDP, which loses,  *)
(* duplicates and reorders datagrams.  One end is kcp_server_task          *)
(* (main/kcp_server.c), the other the host's driver, with the same library.*)
(* Time is left out: a segment that was sent may be due again at any flush *)
(* (its timeout, or an acknowledge that overtook it), and so may the probe *)
(* of a window that is closed.  The congestion window is off (nocwnd 1).   *)
(***************************************************************************)
EXTENDS Integers, SequencesExt, BagsExt

CONSTANTS
    Nodes,           \* the two ends
    Lengths,         \* of the messages that each end sends
    mtu,             \* bytes of a datagram, where a header has IKCP_OVERHEAD
    IKCP_OVERHEAD,
    IKCP_WND_RCV,    \* fragments of a message are fewer
    snd_wnd, rcv_wnd,
    MTU_SIZE,        \* bytes of the buffer that a message is received into
    Word,            \* of a sequence number
    FirstSn,         \* the number the session has come to
    MaxFaults,       \* datagrams lost and duplicated
    MaxCopies        \* of a segment, with its acknowledges, under way

VARIABLES
    kcp,             \* control block of each end
    network,         \* bag of << to, segments >>
    faults,
    sent, got        \* messages each end has sent, and those it was given

vars == << kcp, network, faults, sent, got >>

mss == mtu - IKCP_OVERHEAD
Peer(n) == CHOOSE m \in Nodes: m # n
Least(a, b) == IF a < b THEN a ELSE b

(* Mutant: compares as numbers.                                            *)
PlainDiff(later, earlier) == later - earlier

_itimediff(later, earlier) ==
    LET d == (later - earlier + Word) % Word IN IF d >= Word \div 2 THEN d - Word ELSE d

ikcp_create ==
    [ snd_queue |-> << >>, snd_buf |-> << >>, rcv_buf |-> << >>, rcv_queue |-> << >>,
      snd_una |-> FirstSn, snd_nxt |-> FirstSn, rcv_nxt |-> FirstSn,
      rmt_wnd |-> IKCP_WND_RCV, acklist |-> << >>,
      tell |-> FALSE,                   \* IKCP_ASK_TELL
      probing |-> FALSE ]               \* probe_wait is running

Init ==
    /\ kcp = [n \in Nodes |-> ikcp_create]
    /\ network = << >> /\ faults = 0
    /\ sent = [n \in Nodes |-> << >>] /\ got = [n \in Nodes |-> << >>]

----------------------------------------------------------------------------
(* Output                                                                  *)

Bytes(k, length) == [i \in 1..length |-> << k, i >>]

(* Fragments are numbered down to 0.                                       *)
Fragments(message) ==
    LET count == IF Len(message) <= mss THEN 1 ELSE (Len(message) + mss - 1) \div mss
    IN [i \in 1..count |-> [ frg |-> count - i,
                             data |-> SubSeq(message, (i - 1) * mss + 1, Least(i * mss, Len(message))) ]]

ikcp_wnd_unused(k) == IF Len(k.rcv_queue) < rcv_wnd THEN rcv_wnd - Len(k.rcv_queue) ELSE 0

Segment(k, cmd, sn, fragment) ==
    [ cmd |-> cmd, sn |-> sn, frg |-> fragment.frg, data |-> fragment.data,
      wnd |-> ikcp_wnd_unused(k), una |-> k.rcv_nxt ]
Control(k, cmd, sn) == Segment(k, cmd, sn, [ frg |-> 0, data |-> << >> ])

(* Mutant: the window is counted from the next segment.                    *)
MovesTooMuch(k) ==
    LET moved == SubSeq(k.snd_queue, 1, Least(Len(k.snd_queue), Least(snd_wnd, k.rmt_wnd)))
    IN [k EXCEPT !.snd_queue = SubSeq(@, Len(moved) + 1, Len(@)), !.snd_nxt = (@ + Len(moved)) % Word,
                 !.snd_buf = @ \o [i \in DOMAIN moved |-> [ sn |-> (k.snd_nxt + i - 1) % Word,
                                                            frg |-> moved[i].frg, data |-> moved[i].data ]]]

(* From snd_queue to snd_buf, as far as the window of the other end goes.  *)
MoveToSend(k) ==
    LET cwnd == Least(snd_wnd, k.rmt_wnd)
        room == _itimediff((k.snd_una + cwnd) % Word, k.snd_nxt)
        moved == SubSeq(k.snd_queue, 1, Least(Len(k.snd_queue), room))
    IN [k EXCEPT !.snd_queue = SubSeq(@, Len(moved) + 1, Len(@)), !.snd_nxt = (@ + Len(moved)) % Word,
                 !.snd_buf = @ \o [i \in DOMAIN moved |-> [ sn |-> (k.snd_nxt + i - 1) % Word,
                                                            frg |-> moved[i].frg, data |-> moved[i].data ]]]

(* Segments share a datagram as long as they fit.                          *)
Datagrams(segments) ==
    LET size(s) == IKCP_OVERHEAD + Len(s.data)
        put(packed, s) ==
            IF packed # << >> /\ FoldLeft(LAMBDA n, x: n + size(x), 0, Last(packed)) + size(s) <= mtu
            THEN Front(packed) \o << Append(Last(packed), s) >>
            ELSE Append(packed, << s >>)
    IN FoldLeft(put, << >>, segments)

Put(n, datagrams) == FoldLeft(LAMBDA net, d: BagAdd(net, << Peer(n), d >>), network, datagrams)

(* Mutant: that the window is open again is not told.                      *)
FlushForgetsTell(n, k, due, expired) ==
    LET closed == k.rmt_wnd = 0
        acks == [i \in DOMAIN k.acklist |-> Control(k, "ACK", k.acklist[i])]
        ask == IF closed /\ k.probing /\ expired THEN << Control(k, "WASK", 0) >> ELSE << >>
        after == MoveToSend([k EXCEPT !.acklist = << >>, !.tell = FALSE, !.probing = closed])
        data == SelectSeq(after.snd_buf, LAMBDA s: s.sn \in due \/ ~ \E i \in DOMAIN k.snd_buf: k.snd_buf[i].sn = s.sn)
    IN /\ kcp' = [kcp EXCEPT ![n] = after]
       /\ network' = Put(n, Datagrams(acks \o ask \o [i \in DOMAIN data |-> Segment(k, "PUSH", data[i].sn, data[i])]))

(* Acknowledges, window probes, then new segments and those that are due.  *)
ikcp_flush(n, k, due, expired) ==
    LET closed == k.rmt_wnd = 0
        acks == [i \in DOMAIN k.acklist |-> Control(k, "ACK", k.acklist[i])]
        ask == IF closed /\ k.probing /\ expired THEN << Control(k, "WASK", 0) >> ELSE << >>
        tell == IF k.tell THEN << Control(k, "WINS", 0) >> ELSE << >>
        after == MoveToSend([k EXCEPT !.acklist = << >>, !.tell = FALSE, !.probing = closed])
        data == SelectSeq(after.snd_buf, LAMBDA s: s.sn \in due \/ ~ \E i \in DOMAIN k.snd_buf: k.snd_buf[i].sn = s.sn)
    IN /\ kcp' = [kcp EXCEPT ![n] = after]
       /\ network' = Put(n, Datagrams(acks \o ask \o tell \o [i \in DOMAIN data |-> Segment(k, "PUSH", data[i].sn, data[i])]))

(* Bounds: how often a segment is repeated before an answer comes, and a   *)
(* window probed.                                                          *)
UnderWay(n, sn) ==
    LET count(p, cmd) == FoldSet(LAMBDA d, c: IF d[1] = p /\ \E i \in DOMAIN d[2]: d[2][i].cmd = cmd /\ d[2][i].sn = sn
                                              THEN c + network[d] ELSE c, 0, DOMAIN network)
    IN count(Peer(n), "PUSH") + count(n, "ACK") + (IF Contains(kcp[Peer(n)].acklist, sn) THEN 1 ELSE 0)
Repeatable(n) == { sn \in { kcp[n].snd_buf[i].sn: i \in DOMAIN kcp[n].snd_buf }: UnderWay(n, sn) < MaxCopies }
Probes(n) ==
    ~ \E d \in DOMAIN network: \E i \in DOMAIN d[2]: \/ d[1] # n /\ d[2][i].cmd = "WASK"
                                                     \/ d[1] = n /\ d[2][i].cmd = "WINS"

(* The interval is 0, so every call of ikcp_update flushes.                *)
Flush(n, due, expired) == ikcp_flush(n, kcp[n], due, expired) /\ UNCHANGED << faults, sent, got >>
ikcp_update(n) ==
    \E due \in SUBSET Repeatable(n), expired \in BOOLEAN: (expired => Probes(n)) /\ Flush(n, due, expired)

(* kcp_network_send: ikcp_send and ikcp_flush.                             *)
kcp_network_send(n) ==
    /\ Len(sent[n]) < Len(Lengths[n])
    /\ LET message == Bytes(Len(sent[n]) + 1, Lengths[n][Len(sent[n]) + 1])
           refused == Len(Fragments(message)) >= IKCP_WND_RCV
       IN /\ sent' = IF refused THEN sent ELSE [sent EXCEPT ![n] = Append(@, message)]
          /\ \E due \in SUBSET Repeatable(n):
                ikcp_flush(n, IF refused THEN kcp[n] ELSE [kcp[n] EXCEPT !.snd_queue = @ \o Fragments(message)], due, FALSE)
    /\ UNCHANGED << faults, got >>

----------------------------------------------------------------------------
(* Input                                                                   *)

ikcp_shrink_buf(k) == [k EXCEPT !.snd_una = IF k.snd_buf = << >> THEN k.snd_nxt ELSE Head(k.snd_buf).sn]

(* Mutant: the segment asked for next counts as received.                  *)
ParseUnaIncluded(k, una) == [k EXCEPT !.snd_buf = SelectSeq(@, LAMBDA s: _itimediff(una, s.sn) < 0)]

ikcp_parse_una(k, una) == [k EXCEPT !.snd_buf = SelectSeq(@, LAMBDA s: _itimediff(una, s.sn) <= 0)]

ikcp_parse_ack(k, sn) ==
    IF _itimediff(sn, k.snd_una) < 0 \/ _itimediff(sn, k.snd_nxt) >= 0 THEN k
    ELSE [k EXCEPT !.snd_buf = SelectSeq(@, LAMBDA s: s.sn # sn)]

(* From rcv_buf to rcv_queue, without gaps and as far as it has room.      *)
MoveReceived(k) ==
    LET InOrder(c) == \A i \in 1..c: k.rcv_buf[i].sn = (k.rcv_nxt + i - 1) % Word
        n == CHOOSE c \in 0..Len(k.rcv_buf):
                /\ InOrder(c) /\ (c > 0 => Len(k.rcv_queue) + c <= rcv_wnd)
                /\ \A d \in c + 1..Len(k.rcv_buf): ~InOrder(d) \/ Len(k.rcv_queue) + d > rcv_wnd
    IN [k EXCEPT !.rcv_queue = @ \o SubSeq(k.rcv_buf, 1, n), !.rcv_nxt = (@ + n) % Word,
                 !.rcv_buf = SubSeq(@, n + 1, Len(@))]

ikcp_parse_data(k, seg) ==
    IF _itimediff(seg.sn, (k.rcv_nxt + rcv_wnd) % Word) >= 0 \/ _itimediff(seg.sn, k.rcv_nxt) < 0 THEN k
    ELSE LET below(s) == _itimediff(s.sn, seg.sn) < 0
             here == IF \E i \in DOMAIN k.rcv_buf: k.rcv_buf[i].sn = seg.sn THEN << >> ELSE << seg >>
         IN MoveReceived([k EXCEPT !.rcv_buf = SelectSeq(@, below) \o here
                                               \o SelectSeq(@, LAMBDA s: _itimediff(s.sn, seg.sn) >= 0)])

(* One segment of a datagram.                                              *)
InputSegment(k, s) ==
    LET una == ikcp_shrink_buf(ikcp_parse_una([k EXCEPT !.rmt_wnd = s.wnd], s.una))
        seg == [ sn |-> s.sn, frg |-> s.frg, data |-> s.data ]
    IN CASE s.cmd = "ACK" -> ikcp_shrink_buf(ikcp_parse_ack(una, s.sn))
         [] s.cmd = "PUSH" -> IF _itimediff(s.sn, (una.rcv_nxt + rcv_wnd) % Word) >= 0 THEN una
                              ELSE ikcp_parse_data([una EXCEPT !.acklist = Append(@, s.sn)], seg)
         [] s.cmd = "WASK" -> [una EXCEPT !.tell = TRUE]
         [] s.cmd = "WINS" -> una

ikcp_input(n) ==
    \E d \in DOMAIN network:
        /\ d[1] = n
        /\ kcp' = [kcp EXCEPT ![n] = FoldLeft(InputSegment, @, d[2])]
        /\ \/ network' = BagRemove(network, d) /\ UNCHANGED faults
           \/ faults < MaxFaults /\ faults' = faults + 1 /\ UNCHANGED network
        /\ UNCHANGED << sent, got >>

Lose ==
    /\ faults < MaxFaults /\ faults' = faults + 1
    /\ \E d \in DOMAIN network: network' = BagRemove(network, d)
    /\ UNCHANGED << kcp, sent, got >>

(* The message at the head, which is there when its last fragment is       *)
HeadCount(k) == Head(k.rcv_queue).frg + 1
HasMessage(k) == k.rcv_queue # << >> /\ Len(k.rcv_queue) >= HeadCount(k)
HeadMessage(k) == FlattenSeq([i \in 1..HeadCount(k) |-> k.rcv_queue[i].data])
ikcp_peeksize(k) == FoldLeft(LAMBDA n, s: n + Len(s.data), 0, SubSeq(k.rcv_queue, 1, HeadCount(k)))

(* Mutant: the buffer is not looked at.                                    *)
RecvAnyLength(n) ==
    LET k == kcp[n]
        rest == [k EXCEPT !.rcv_queue = SubSeq(@, HeadCount(k) + 1, Len(@))]
        moved == MoveReceived(rest)
        recover == Len(k.rcv_queue) >= rcv_wnd /\ Len(moved.rcv_queue) < rcv_wnd
    IN /\ HasMessage(k)
       /\ got' = [got EXCEPT ![n] = Append(@, HeadMessage(k))]
       /\ kcp' = [kcp EXCEPT ![n] = [moved EXCEPT !.tell = @ \/ recover]]
       /\ UNCHANGED << network, faults, sent >>

(* A message that is longer than the buffer is refused, stays, and keeps   *)
(* those behind it.                                                        *)
ikcp_recv(n) ==
    LET k == kcp[n]
        rest == [k EXCEPT !.rcv_queue = SubSeq(@, HeadCount(k) + 1, Len(@))]
        moved == MoveReceived(rest)
        recover == Len(k.rcv_queue) >= rcv_wnd /\ Len(moved.rcv_queue) < rcv_wnd
    IN /\ HasMessage(k) /\ ikcp_peeksize(k) <= MTU_SIZE
       /\ got' = [got EXCEPT ![n] = Append(@, HeadMessage(k))]
       /\ kcp' = [kcp EXCEPT ![n] = [moved EXCEPT !.tell = @ \/ recover]]
       /\ UNCHANGED << network, faults, sent >>

Next ==
    \/ Lose
    \/ \E n \in Nodes: kcp_network_send(n) \/ ikcp_update(n) \/ ikcp_input(n) \/ ikcp_recv(n)

(* kcp_server_task does all of it every millisecond, and every timeout     *)
(* comes; what is under way arrives or is lost.  Weak fairness of the three *)
(* operations, each with the states in which it is enabled.                *)
HasOutput(n) ==
    LET k == kcp[n] IN
    \/ k.acklist # << >> \/ k.tell \/ Repeatable(n) # {} \/ k.probing # (k.rmt_wnd = 0)
    \/ k.snd_queue # << >> /\ _itimediff(k.snd_nxt, (k.snd_una + Least(snd_wnd, k.rmt_wnd)) % Word) < 0
    \/ k.probing /\ Probes(n)
HasInput(n) == \E d \in DOMAIN network: d[1] = n
Receivable(n) == HasMessage(kcp[n]) /\ ikcp_peeksize(kcp[n]) <= MTU_SIZE

Fairness ==
    \A n \in Nodes:
        /\ []<>~HasOutput(n) \/ []<><<Flush(n, Repeatable(n), Probes(n))>>_vars
        /\ []<>~HasInput(n) \/ []<><<ikcp_input(n)>>_vars
        /\ []<>~Receivable(n) \/ []<><<ikcp_recv(n)>>_vars

Spec == Init /\ [][Next]_vars /\ Fairness

----------------------------------------------------------------------------

SnOf(buffer) == { buffer[i].sn: i \in DOMAIN buffer }

(* The queues and windows keep to their sizes, and what may be sent again  *)
(* is of the window.                                                       *)
TypeOK ==
    /\ BagCardinality(network) >= 0
    /\ \A n \in Nodes:
        LET k == kcp[n] IN
        /\ Len(k.rcv_queue) <= rcv_wnd /\ Len(k.rcv_buf) <= rcv_wnd
        /\ _itimediff(k.snd_nxt, k.snd_una) \in 0..snd_wnd
        /\ SnOf(k.snd_buf) \subseteq { (k.snd_una + i) % Word: i \in 0.._itimediff(k.snd_nxt, k.snd_una) - 1 }

(* A segment that is let go of has been received: the other end has given  *)
(* it to the program or keeps it.                                          *)
NothingLost ==
    \A n \in Nodes:
        LET k == kcp[n]  p == kcp[Peer(n)]
            upto == { (FirstSn + i) % Word: i \in 0.._itimediff(k.snd_nxt, FirstSn) - 1 }
        IN \A sn \in upto \ SnOf(k.snd_buf): _itimediff(sn, p.rcv_nxt) < 0 \/ sn \in SnOf(p.rcv_buf)

(* The messages before the first that is longer than the buffer of the     *)
(* receiver: that one and those behind it never arrive.                    *)
Fits(message) == Len(message) <= MTU_SIZE
UpToTooLong(messages) ==
    IF \A i \in DOMAIN messages: Fits(messages[i]) THEN messages
    ELSE SubSeq(messages, 1, SelectInSeq(messages, LAMBDA m: ~Fits(m)) - 1)

=============================================================================
