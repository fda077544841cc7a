-------------------------------- MODULE Tcp --------------------------------
(***************************************************************************)
(* One TCP connection between two lwIP stacks (src/lwIP/core/tcp.c,        *)
(* tcp_in.c, tcp_out.c), each under a netconn application (api_msg.c,      *)
(* api_lib.c), over IP that loses and reorders segments. The client has    *)
(* called tcp_connect; it writes a stream of bytes and closes. The server  *)
(* accepts one connection, reads until the end of the stream and closes.   *)
(* Everything lwIP does runs in tcpip_thread: a segment, an API message    *)
(* and a turn of a timer are one action each.                              *)
(*                                                                         *)
(* As in lwipopts.h TCP_WND and TCP_SND_BUF are two segments, so that      *)
(* ssthresh is TCP_WND for ever and cwnd only matters below it. Left out:  *)
(* failing allocations, keepalive, the estimate of the round trip (a timer *)
(* may expire when nothing is in flight, and plan.early times before).       *)
(***************************************************************************)
EXTENDS Integers, FiniteSets, SequencesExt

CONSTANTS
    Client, Server,
    Mss,            \* TCP_MSS; TCP_WND and TCP_SND_BUF are twice as much
    SeqSize,         \* sequence numbers, 2^32
    WndSize,         \* windows, 2^16
    Iss,            \* tcp_next_iss of each end
    MboxSize,       \* DEFAULT_TCP_RECVMBOX_SIZE
    MaxRtx,         \* TCP_SYNMAXRTX and TCP_MAXRTX
    Plans           \* what the applications and the network do

Wnd == 2 * Mss

ASSUME TcpAssumption ==
    /\ Client # Server
    /\ Mss > 0 /\ 2 * Wnd < WndSize /\ 4 * WndSize <= SeqSize
    /\ \A e \in {Client, Server} : Iss[e] \in 0 .. SeqSize - 1
    /\ Plans \subseteq [bytes : Nat, whole : BOOLEAN, eager : BOOLEAN,
                     hasty : BOOLEAN,
                     lossy : Nat, early : Nat]
    /\ {MboxSize, MaxRtx} \subseteq Nat

VARIABLES
    pcb,        \* the protocol control block of each end, its mailbox and
                \* what has gone through it
    wire,       \* the segments on their way to each end
    listening,  \* if the server still listens
    written,    \* bytes the client has written: they are 1, 2, ...
    plan,       \* how many bytes the client writes, if it writes a segment at
                \* a time, if it closes behind them, if the server closes when
                \* it likes; the bounds of the exploration: how many segments
                \* may be lost and how many timers may expire early
    losses,     \* segments lost
    early       \* timers that expired with segments in flight

vars == <<pcb, wire, listening, written, plan, losses, early>>

Ends == {Client, Server}
Other(e) == CHOOSE f \in Ends : f # e

Min2(a, b) == IF a < b THEN a ELSE b
Take(q, n) == SubSeq(q, 1, Min2(n, Len(q)))
Drop(q, n) == SubSeq(q, n + 1, Len(q))

\* TCP_SEQ_LT and its kin: numbers wrap.
Plus(a, n)  == (a + n) % SeqSize
Minus(a, b) == (a - b) % SeqSize
Lt(a, b)    == Minus(a, b) >= SeqSize \div 2
Leq(a, b)   == ~Lt(b, a)
Later(a, b) == IF Lt(a, b) THEN b ELSE a
Between(a, b, c) == Leq(b, a) /\ Leq(a, c)

TcpLen(s) == Len(s.data) + (IF s.syn \/ s.fin THEN 1 ELSE 0)
EndOf(s)  == Plus(s.seq, TcpLen(s))

Queued(seqno, data, syn, fin) ==
    [seq |-> seqno, data |-> data, syn |-> syn, fin |-> fin]

\* A pcb just allocated: tcp_alloc.
Blank ==
    [st |-> "CLOSED", flags |-> {},
     snd_nxt |-> 0, snd_lbb |-> 0, lastack |-> 0,
     snd_wnd |-> Wnd, snd_wl1 |-> 0, snd_wl2 |-> 0, cwnd |-> 1,
     unsent |-> << >>, unacked |-> << >>, rto_end |-> 0,
     rtime |-> FALSE, nrtx |-> 0, dupacks |-> 0,
     persist |-> FALSE, persist_probe |-> 0,
     rcv_nxt |-> 0, rcv_wnd |-> Wnd, rcv_ann_wnd |-> Wnd, right_edge |-> 0,
     ooseq |-> << >>, refused |-> << >>, refused_fin |-> FALSE,
     inbox |-> << >>, taken |-> << >>, eof |-> "no",
     out |-> {}]

\* memp_free: what the application has is not the pcb's.
Freed(c) ==
    [Blank EXCEPT !.inbox = c.inbox, !.taken = c.taken, !.eof = c.eof,
                  !.out = c.out]

Set(c, f)   == [c EXCEPT !.flags = @ \cup f]
Clear(c, f) == [c EXCEPT !.flags = @ \ f]

AckNow(c) == Set(c, {"acknow"})

-----------------------------------------------------------------------------
(* tcp_out.c *)

\* A segment with the fields of the header every segment has.
Header(c, s, ack, rst) ==
    [seq |-> s.seq, data |-> s.data, syn |-> s.syn, fin |-> s.fin,
     rst |-> rst, ack |-> ack, ackno |-> IF ack THEN c.rcv_nxt ELSE 0,
     wnd |-> c.rcv_ann_wnd]

\* What goes out announces the window.
Sent(c, w) == [c EXCEPT !.out = @ \cup {w},
                        !.right_edge = Plus(c.rcv_nxt, c.rcv_ann_wnd)]

SendEmptyAck(c) ==
    Clear(Sent(c, Header(c, Queued(c.snd_nxt, << >>, FALSE, FALSE), TRUE,
                         FALSE)),
          {"ackdelay", "acknow"})

RstSegment(seqno, ackno) ==
    [seq |-> seqno, data |-> << >>, syn |-> FALSE, fin |-> FALSE,
     rst |-> TRUE, ack |-> TRUE, ackno |-> ackno, wnd |-> Wnd]

\* The answer to a segment that is for nobody.
RstFor(s) == RstSegment(s.ackno, EndOf(s))

Rst(c, w) == [c EXCEPT !.out = @ \cup {w}]

\* Into a queue that is sorted by sequence number.
InsertSorted(q, s) ==
    LET before == SelectSeq(q, LAMBDA t : Lt(t.seq, s.seq))
    IN  before \o <<s>> \o Drop(q, Len(before))

\* The bytes in a queue of segments.
Bytes(q) == UNION {ToSet(q[i].data) : i \in DOMAIN q}

SndBuf(c) == Wnd - Cardinality(Bytes(c.unsent) \cup Bytes(c.unacked))

Fits(c) ==
    LET s == Head(c.unsent)
    IN  (Minus(s.seq, c.lastack) + Len(s.data)) % SeqSize
          <= Min2(c.snd_wnd, c.cwnd)

Nagle(c) ==
    \/ c.unacked = << >>
    \/ "infr" \in c.flags
    \/ Len(c.unsent) > 1
    \/ Len(Head(c.unsent).data) >= Mss
    \/ SndBuf(c) = 0

\* tcp_output_segment, and the segment moves to unacked.
OutputSegment(c) ==
    LET s == Head(c.unsent)
        syn_sent == c.st = "SYN_SENT"
        d == Sent(c, Header(c, s, ~syn_sent, FALSE))
    IN  [d EXCEPT !.flags = IF syn_sent THEN @ ELSE @ \ {"ackdelay", "acknow"},
                  !.rtime = TRUE,
                  !.snd_nxt = Later(@, EndOf(s)),
                  !.unsent = Tail(@),
                  !.unacked = InsertSorted(@, s)]

RECURSIVE OutputAll(_)
OutputAll(c) ==
    IF c.unsent # << >> /\ Fits(c) /\ (Nagle(c) \/ "fin" \in c.flags)
      THEN OutputAll(OutputSegment(c))
      ELSE c

StartPersist_Never(c) == c

\* Nothing goes out to a window that is too small; if nothing is in flight
\* either, only the persist timer can find out that it opens.
StartPersist(c) ==
    IF c.snd_wnd <= c.cwnd /\ c.unacked = << >> /\ ~c.persist
      THEN [c EXCEPT !.persist = TRUE, !.persist_probe = 0]
      ELSE c

Output(c) ==
    IF c.unsent # << >> /\ Fits(c)
      THEN OutputAll([c EXCEPT !.persist = FALSE])
      ELSE LET d == IF c.unsent = << >> THEN c ELSE StartPersist(c)
           IN  IF "acknow" \in d.flags THEN SendEmptyAck(d) ELSE d

\* tcp_enqueue_flags
EnqueueFlags(c, syn, fin) ==
    [c EXCEPT !.unsent = Append(@, Queued(c.snd_lbb, << >>, syn, fin)),
              !.snd_lbb = Plus(@, 1),
              !.flags = IF fin THEN @ \cup {"fin"} ELSE @]

\* A FIN travels with the last data that is not sent, if there is any.
SendFin(c) ==
    IF c.unsent # << >> /\ ~Last(c.unsent).syn /\ ~Last(c.unsent).fin
      THEN Set([c EXCEPT !.unsent[Len(c.unsent)].fin = TRUE], {"fin"})
      ELSE EnqueueFlags(c, FALSE, TRUE)

\* tcp_write: the last unsent segment is filled before new ones are made.
RECURSIVE Segments(_, _)
Segments(seqno, data) ==
    IF data = << >> THEN << >>
    ELSE <<Queued(seqno, Take(data, Mss), FALSE, FALSE)>>
           \o Segments(Plus(seqno, Mss), Drop(data, Mss))

WriteData(c, data) ==
    LET q == c.unsent
        last == IF q # << >> /\ Len(Last(q).data) > 0 THEN Last(q).data
                                                        ELSE << >>
        space == IF last = << >> THEN 0 ELSE Mss - Len(last)
        filled == IF last = << >> THEN q
                  ELSE [q EXCEPT ![Len(q)].data = last \o Take(data, space)]
    IN  [c EXCEPT
           !.unsent = filled \o Segments(Plus(c.snd_lbb, Min2(space, Len(data))),
                                         Drop(data, Min2(space, Len(data)))),
           !.snd_lbb = Plus(@, Len(data))]

\* tcp_split_unsent_seg. TCPH_SET_FLAG only sets flags: the first part keeps
\* the FIN that moves to the second.
SplitUnsent(c, n) ==
    LET s == Head(c.unsent)
    IN  IF c.unsent = << >> \/ Len(s.data) <= n THEN c
        ELSE [c EXCEPT
                !.unsent = <<[s EXCEPT !.data = Take(@, n)],
                             Queued(Plus(s.seq, n), Drop(s.data, n), FALSE,
                                    s.fin)>> \o Tail(@)]

RexmitRto_DropsUnsent(c) ==
    IF c.unacked = << >> THEN c
    ELSE [Set(c, {"rto"}) EXCEPT !.unsent = c.unacked, !.unacked = << >>,
                                 !.rto_end = EndOf(Last(c.unacked))]

\* tcp_rexmit_rto_prepare and the changes of tcp_slowtmr when it expires.
RexmitRto(c) ==
    IF c.unacked = << >> THEN c
    ELSE [Set(c, {"rto"}) EXCEPT !.unsent = c.unacked \o @,
                                 !.unacked = << >>,
                                 !.rto_end = EndOf(Last(c.unacked))]

OneMoreRtx(c) == [c EXCEPT !.nrtx = @ + 1]

\* tcp_rexmit: the first segment that is not acknowledged.
Rexmit(c) ==
    IF c.unacked = << >> THEN c
    ELSE OneMoreRtx([c EXCEPT !.unsent = InsertSorted(@, Head(c.unacked)),
                              !.unacked = Tail(@)])

RexmitFast(c) ==
    IF c.unacked = << >> \/ "infr" \in c.flags THEN c
    ELSE Set([Rexmit(c) EXCEPT !.cwnd = Wnd, !.rtime = TRUE], {"infr"})

\* tcp_zero_window_probe: one byte, or a FIN that is alone.
ZeroWindowProbe(c) ==
    IF c.unsent = << >> THEN c
    ELSE LET s == Head(c.unsent)
             fin == s.fin /\ s.data = << >>
             p == Queued(s.seq, IF fin THEN << >> ELSE Take(s.data, 1), FALSE,
                         fin)
         IN  [Sent(c, Header(c, p, TRUE, FALSE)) EXCEPT
                !.persist_probe = @ + 1, !.snd_nxt = Later(@, Plus(s.seq, 1))]

-----------------------------------------------------------------------------
(* tcp.c: the receive window, and what the application is given *)

NewEdge(c) == Plus(c.rcv_nxt, c.rcv_wnd)

\* A larger window is announced when it has grown by a segment.
Grown(c) == Leq(Plus(c.right_edge, Min2(Wnd \div 2, Mss)), NewEdge(c))

\* tcp_update_rcv_ann_wnd: the announced edge never moves back.
UpdateAnnWnd(c) ==
    [c EXCEPT !.rcv_ann_wnd =
        IF Grown(c) THEN c.rcv_wnd
        ELSE IF Lt(c.right_edge, c.rcv_nxt) THEN 0
        ELSE Minus(c.right_edge, c.rcv_nxt)]

Recved_Unclamped(c, n) ==
    LET d == [c EXCEPT !.rcv_wnd = (@ + n) % WndSize]
    IN  IF Grown(d) THEN Output(AckNow(UpdateAnnWnd(d))) ELSE UpdateAnnWnd(d)

Recved_NoOutput(c, n) ==
    LET d == [c EXCEPT !.rcv_wnd = Min2(@ + n, Wnd)]
    IN  IF Grown(d) THEN AckNow(UpdateAnnWnd(d)) ELSE UpdateAnnWnd(d)

\* tcp_recved, with the update that is sent when the window has grown.
Recved(c, n) ==
    LET w == (c.rcv_wnd + n) % WndSize
        d == [c EXCEPT !.rcv_wnd = IF w > Wnd \/ w < @ THEN Wnd ELSE w]
    IN  IF Grown(d) /\ Minus(NewEdge(d), d.right_edge) >= Min2(Wnd \div 4, 4 * Mss)
          THEN Output(AckNow(UpdateAnnWnd(d)))
          ELSE UpdateAnnWnd(d)

Room(c) == Len(c.inbox) < MboxSize

\* recv_tcp: data that the mailbox has no room for stays with the pcb.
RecvEvent(c, data) ==
    IF Room(c) THEN [c EXCEPT !.inbox = Append(@, Len(data)),
                              !.taken = @ \o data]
               ELSE [c EXCEPT !.refused = data]

ClosedEvent_KeepsWindow(c) ==
    IF "rxclosed" \notin c.flags /\ Room(c)
      THEN [c EXCEPT !.inbox = Append(@, 0), !.eof = "posted"]
      ELSE c

\* The end of the stream goes through recv_tcp as well, but nothing keeps it
\* when the mailbox is full.
ClosedEvent(c) ==
    LET d == [c EXCEPT !.rcv_wnd = IF @ # Wnd THEN (@ + 1) % WndSize ELSE @]
    IN  IF "rxclosed" \notin c.flags /\ Room(c)
          THEN [d EXCEPT !.inbox = Append(@, 0), !.eof = "posted"]
          ELSE d

\* tcp_process_refused_data
ProcessRefused(c) ==
    IF c.refused = << >> THEN c
    ELSE LET d == RecvEvent([c EXCEPT !.refused = << >>], c.refused)
         IN  IF d.refused = << >> /\ c.refused_fin
               THEN ClosedEvent([d EXCEPT !.refused_fin = FALSE])
               ELSE d

-----------------------------------------------------------------------------
(* tcp_in.c *)

RECURSIVE FreeAcked(_, _)
FreeAcked(q, ackno) ==
    IF q # << >> /\ Leq(EndOf(Head(q)), ackno) THEN FreeAcked(Tail(q), ackno)
                                              ELSE q

\* The end of the retransmission: everything up to rto_end is acknowledged.
RtoOver(c) ==
    LET q == IF c.unacked = << >> THEN c.unsent ELSE c.unacked
    IN  q = << >> \/ Leq(c.rto_end, Head(q).seq)

NewAck(c, ackno) ==
    LET a == Minus(ackno, c.lastack)
        infr == "infr" \in c.flags
        cwnd == IF infr THEN Wnd ELSE c.cwnd
        grow == Min2(a, (IF "rto" \in c.flags THEN 1 ELSE 2) * Mss)
        left == FreeAcked(c.unacked, ackno)
        d == [c EXCEPT
                !.flags = @ \ {"infr"}, !.nrtx = 0, !.dupacks = 0,
                !.lastack = ackno,
                !.cwnd = Min2(cwnd + grow, Wnd),
                !.unacked = left,
                !.unsent = FreeAcked(@, ackno),
                !.rtime = left # << >>]
    IN  IF RtoOver(d) THEN Clear(d, {"rto"}) ELSE d

\* The third acknowledgement of the same number, with nothing new about the
\* window and the timer running, retransmits.
DupAck(c) ==
    LET d == [c EXCEPT !.dupacks = Min2(@ + 1, 4),
                       !.cwnd = IF c.dupacks >= 3 THEN Min2(@ + Mss, Wnd)
                                                  ELSE @]
    IN  IF d.dupacks >= 3 THEN RexmitFast(d) ELSE d

ReceiveAck(c, s) ==
    LET right == Plus(c.snd_wl2, c.snd_wnd)
        newer == \/ Lt(c.snd_wl1, s.seq)
                 \/ c.snd_wl1 = s.seq /\ Lt(c.snd_wl2, s.ackno)
                 \/ c.snd_wl2 = s.ackno /\ s.wnd > c.snd_wnd
        d == IF newer THEN [c EXCEPT !.snd_wnd = s.wnd, !.snd_wl1 = s.seq,
                                     !.snd_wl2 = s.ackno]
                      ELSE c
    IN  IF Leq(s.ackno, c.lastack)
          THEN IF /\ TcpLen(s) = 0
                  /\ Plus(d.snd_wl2, d.snd_wnd) = right
                  /\ c.rtime
                  /\ c.lastack = s.ackno
                 THEN DupAck(d) ELSE d
          ELSE IF Leq(s.ackno, c.snd_nxt) THEN NewAck(d, s.ackno)
                                          ELSE SendEmptyAck(d)

\* What a segment covers of those queued out of order goes, its FIN is taken
\* over, and the rest of an overlap is cut from the segment.
RECURSIVE Swallow(_, _)
Swallow(s, q) ==
    LET end == Plus(s.seq, Len(s.data))
        n == Head(q)
    IN  IF q = << >> THEN <<s>>
        ELSE IF Leq(Plus(n.seq, Len(n.data)), end)
          THEN Swallow([s EXCEPT !.fin = @ \/ n.fin], Tail(q))
        ELSE IF Lt(n.seq, end)
          THEN <<[s EXCEPT !.data = Take(@, Minus(n.seq, s.seq))]>> \o q
          ELSE <<s>> \o q

\* tcp_oos_insert_segment: nothing comes after a FIN.
OosInsert(s, q) == IF s.fin THEN <<s>> ELSE Swallow(s, q)

UpTo(s, seqno) == [s EXCEPT !.data = Take(@, Minus(seqno, s.seq))]

\* Only a segment put at the end of a queue is cut to the window.
InWindow(c, s) ==
    IF Lt(NewEdge(c), EndOf(s)) THEN UpTo([s EXCEPT !.fin = FALSE], NewEdge(c))
                                ELSE s

\* Where a segment that came too early goes in the sorted queue.
Queue(c, s) ==
    LET q == c.ooseq
        k == Cardinality({i \in DOMAIN q : Lt(q[i].seq, s.seq)})
        kept == SubSeq(q, 1, k - 1) \o <<UpTo(q[k], s.seq)>>
        same == k < Len(q) /\ q[k + 1].seq = s.seq
    IN  IF q = << >> THEN <<s>>
        ELSE IF same
          THEN IF Len(s.data) > Len(q[k + 1].data) /\ k + 1 < Len(q)
                 THEN SubSeq(q, 1, k) \o OosInsert(s, Drop(q, k))
                 ELSE q
        ELSE IF k = 0 THEN OosInsert(s, q)
        ELSE IF k < Len(q) THEN kept \o OosInsert(s, Drop(q, k))
        ELSE IF q[k].fin THEN q
        ELSE kept \o <<InWindow(c, s)>>

\* A segment in order enters the window; its data is appended to recv_data,
\* as the second component, its FIN is the third.
Enter(r, s) ==
    [c |-> UpdateAnnWnd([r.c EXCEPT !.rcv_nxt = Plus(@, TcpLen(s)),
                                    !.rcv_wnd = (@ - TcpLen(s)) % WndSize]),
     data |-> r.data \o s.data,
     fin |-> r.fin \/ s.fin]

RECURSIVE Drain(_)
Drain(r) ==
    IF r.c.ooseq = << >> \/ Head(r.c.ooseq).seq # r.c.rcv_nxt THEN r
    ELSE LET s == Head(r.c.ooseq)
             d == [r.c EXCEPT !.ooseq = Tail(@),
                              !.st = IF s.fin /\ @ = "ESTABLISHED"
                                       THEN "CLOSE_WAIT" ELSE @]
         IN  Drain(Enter([r EXCEPT !.c = d], s))

InOrder(c, s) ==
    LET cut == IF TcpLen(s) > c.rcv_wnd
                 THEN [s EXCEPT !.fin = FALSE, !.data = Take(@, c.rcv_wnd)]
                 ELSE s
        q == IF cut.fin THEN <<cut>> ELSE Swallow(cut, c.ooseq)
        r == Drain(Enter([c |-> [c EXCEPT !.ooseq = Tail(q)],
                          data |-> << >>, fin |-> FALSE], Head(q)))
    IN  \* tcp_ack: every second acknowledgement at once
        [r EXCEPT !.c = IF "ackdelay" \in @.flags
                          THEN AckNow(Clear(@, {"ackdelay"}))
                          ELSE Set(@, {"ackdelay"})]

TrimFront_Missing(c, s) ==
    IF Between(c.rcv_nxt, Plus(s.seq, 1), Plus(EndOf(s), -1))
      THEN [s EXCEPT !.seq = c.rcv_nxt] ELSE s

\* The part of a segment that was received before is cut off.
TrimFront(c, s) ==
    IF Between(c.rcv_nxt, Plus(s.seq, 1), Plus(EndOf(s), -1))
      THEN [s EXCEPT !.seq = c.rcv_nxt,
                     !.data = Drop(@, Minus(c.rcv_nxt, s.seq))]
      ELSE s

Acceptable(c, seqno) ==
    Between(seqno, c.rcv_nxt, Plus(NewEdge(c), -1))

Receiving == {"SYN_SENT", "SYN_RCVD", "ESTABLISHED", "FIN_WAIT_1",
              "FIN_WAIT_2"}

\* tcp_receive
Receive(c0, s0) ==
    LET c == IF s0.ack THEN ReceiveAck(c0, s0) ELSE c0
        s == TrimFront(c, s0)
        seg == Queued(s.seq, s.data, FALSE, s.fin)
        d == IF Lt(s.seq, c.rcv_nxt) THEN AckNow(c) ELSE c
        nothing(e) == [c |-> e, data |-> << >>, fin |-> FALSE]
    IN  IF TcpLen(s0) = 0 \/ c.st \notin Receiving
          THEN nothing(IF Acceptable(c, s0.seq) THEN c ELSE AckNow(c))
        ELSE IF ~Acceptable(c, s.seq) THEN nothing(SendEmptyAck(d))
        ELSE IF s.seq = c.rcv_nxt THEN InOrder(d, seg)
        ELSE nothing(SendEmptyAck([d EXCEPT !.ooseq = Queue(d, seg)]))

\* tcp_pcb_purge and the move to the list of those in TIME-WAIT.
TimeWait(c) ==
    [AckNow(c) EXCEPT !.st = "TIME_WAIT", !.unsent = << >>, !.unacked = << >>,
                      !.ooseq = << >>, !.refused = << >>,
                      !.refused_fin = FALSE, !.rtime = FALSE]

\* Everything that was to be sent is acknowledged, the FIN included.
AllAcked(c, s) == s.ack /\ s.ackno = c.snd_nxt /\ c.unsent = << >>

\* What tcp_process does with the state after tcp_receive.
AfterReceive(c, s, fin) ==
    CASE fin /\ c.st \in {"ESTABLISHED", "CLOSE_WAIT"} ->
           [AckNow(c) EXCEPT !.st = "CLOSE_WAIT"]
      [] c.st = "FIN_WAIT_1" /\ fin ->
           IF AllAcked(c, s) THEN TimeWait(c)
                             ELSE [AckNow(c) EXCEPT !.st = "CLOSING"]
      [] c.st = "FIN_WAIT_1" /\ ~fin /\ AllAcked(c, s) ->
           [c EXCEPT !.st = "FIN_WAIT_2"]
      [] c.st = "FIN_WAIT_2" /\ fin -> TimeWait(c)
      [] c.st = "CLOSING" /\ AllAcked(c, s) -> TimeWait(c)
      [] OTHER -> c

\* tcp_abort, which is tcp_abandon with a reset: in TIME-WAIT the pcb is freed
\* without one.
Abort(c) ==
    IF c.st = "TIME_WAIT" THEN Freed(c)
    ELSE Freed(Rst(c, RstSegment(c.snd_nxt, c.rcv_nxt)))

\* The end of tcp_input: the application gets the data and the end of the
\* stream, and what may go out goes out.
Finish(r, s) ==
    LET got == IF r.data = << >> THEN r.c ELSE RecvEvent(r.c, r.data)
        closed == IF ~r.fin THEN got
                  ELSE IF got.refused # << >>
                    THEN [got EXCEPT !.refused_fin = TRUE]
                  ELSE ClosedEvent(got)
        c == AfterReceive(r.c, s, r.fin)
    IN  IF r.c.st = "LAST_ACK" /\ AllAcked(r.c, s) THEN Freed(r.c)
        ELSE IF r.data # << >> /\ "rxclosed" \in r.c.flags THEN Abort(c)
        ELSE Output([closed EXCEPT !.st = c.st, !.flags = c.flags,
                                   !.unsent = c.unsent, !.unacked = c.unacked,
                                   !.ooseq = c.ooseq, !.rtime = c.rtime])

\* A RST counts when it is exactly in order; one that is only in the window
\* is answered.
ProcessRst(c, s) ==
    LET acceptable == IF c.st = "SYN_SENT" THEN s.ackno = c.snd_nxt
                                           ELSE s.seq = c.rcv_nxt
    IN  IF acceptable THEN Freed(c)
        ELSE IF c.st # "SYN_SENT" /\ Between(s.seq, c.rcv_nxt, NewEdge(c))
          THEN Output(AckNow(c))
        ELSE Output(c)

\* The answer to the SYN is there; an acknowledgement of something else is
\* answered with a RST, and the SYN goes out again.
ProcessSynSent(c, s) ==
    IF s.ack /\ s.syn /\ s.ackno = Plus(c.lastack, 1)
      THEN LET d == [c EXCEPT
                       !.rcv_nxt = Plus(s.seq, 1),
                       !.right_edge = Plus(s.seq, 1),
                       !.lastack = s.ackno, !.snd_wnd = s.wnd,
                       !.snd_wl1 = Plus(s.seq, -1), !.st = "ESTABLISHED",
                       !.cwnd = Wnd]
               e == IF d.unacked # << >> THEN [d EXCEPT !.unacked = Tail(@)]
                                         ELSE [d EXCEPT !.unsent = Tail(@)]
               left == e.unacked # << >>
           IN  Output(AckNow([e EXCEPT !.rtime = left,
                                       !.nrtx = IF left THEN 0 ELSE @]))
    ELSE IF s.ack
      THEN LET d == Rst(c, RstFor(s))
           IN  IF c.nrtx < MaxRtx
                 THEN Output(IF c.unacked = << >> THEN [d EXCEPT !.rtime = TRUE]
                             ELSE OneMoreRtx(RexmitRto([d EXCEPT
                                                          !.rtime = TRUE])))
                 ELSE Output(d)
    ELSE Output(c)

\* The acknowledgement of SYN and ACK: the application accepts.
ProcessSynRcvd(c, s) ==
    IF s.syn THEN Output(IF s.seq = Plus(c.rcv_nxt, -1) THEN Rexmit(c) ELSE c)
    ELSE IF ~s.ack THEN Output(c)
    ELSE IF Between(s.ackno, Plus(c.lastack, 1), c.snd_nxt)
      THEN LET r == Receive([c EXCEPT !.st = "ESTABLISHED"], s)
           IN  Finish([r EXCEPT !.c.cwnd = Wnd], s)
    ELSE Output(Rst(c, RstFor(s)))

\* tcp_process; any segment tells that the other end is there.
Process(c0, s) ==
    LET c == [c0 EXCEPT !.persist_probe = 0]
    IN  IF s.rst THEN ProcessRst(c0, s)
        ELSE IF c.st = "SYN_SENT" THEN ProcessSynSent(c, s)
        ELSE IF c.st = "SYN_RCVD" THEN ProcessSynRcvd(c, s)
        ELSE IF s.syn THEN Output(AckNow(c0))
        ELSE Finish(Receive(c, s), s)

\* A segment that takes room is not processed while data waits for the
\* application.
Input(c0, s) ==
    LET c == ProcessRefused(c0)
    IN  IF c.refused # << >> /\ TcpLen(s) > 0
          THEN IF c.rcv_ann_wnd = 0 THEN SendEmptyAck(c) ELSE c
          ELSE Process(c, s)

\* tcp_listen_input: a new pcb for a SYN.
ListenInput(c, s) ==
    IF s.rst THEN c
    ELSE IF s.ack THEN Rst(c, RstFor(s))
    ELSE IF ~s.syn THEN c
    ELSE LET iss == Iss[Server]
             n == [c EXCEPT
                     !.st = "SYN_RCVD",
                     !.rcv_nxt = Plus(s.seq, 1), !.right_edge = Plus(s.seq, 1),
                     !.snd_nxt = iss, !.snd_lbb = iss, !.lastack = iss,
                     !.snd_wl1 = Plus(s.seq, -1), !.snd_wl2 = iss,
                     !.snd_wnd = s.wnd]
         IN  Output(EnqueueFlags(n, TRUE, FALSE))

\* tcp_timewait_input: what takes room is acknowledged again, a SYN in the
\* window is refused.
TimeWaitInput(c, s) ==
    IF s.rst THEN c
    ELSE IF s.syn /\ Between(s.seq, c.rcv_nxt, NewEdge(c))
      THEN Rst(c, RstFor(s))
    ELSE IF TcpLen(s) > 0 THEN Output(AckNow(c))
    ELSE c

\* tcp_input: the pcb the segment belongs to, the listener, or nobody.
TcpInput(e, s) ==
    LET c == pcb[e]
    IN  IF c.st = "TIME_WAIT" THEN TimeWaitInput(c, s)
        ELSE IF c.st # "CLOSED" THEN Input(c, s)
        ELSE IF e = Server /\ listening THEN ListenInput(c, s)
        ELSE IF s.rst THEN c
        ELSE Rst(c, RstFor(s))

-----------------------------------------------------------------------------
(* The steps of tcpip_thread *)

\* The application that has accepted a connection takes no other.
Commit(e, c) ==
    /\ pcb' = [pcb EXCEPT ![e] = [c EXCEPT !.out = {}]]
    /\ listening' = (listening /\ pcb'[Server].st \in {"CLOSED", "SYN_RCVD"})

Step(e, c) ==
    /\ Commit(e, c)
    /\ wire' = [wire EXCEPT ![Other(e)] = @ \cup c.out]

Deliver(e, s) ==
    /\ s \in wire[e]
    /\ LET c == TcpInput(e, s)
       IN  /\ Commit(e, c)
           /\ wire' = [wire EXCEPT ![e] = @ \ {s}, ![Other(e)] = @ \cup c.out]
    /\ UNCHANGED <<written, plan, losses, early>>

Lose(e, s) ==
    /\ s \in wire[e]
    /\ losses < plan.lossy
    /\ losses' = losses + 1
    /\ wire' = [wire EXCEPT ![e] = @ \ {s}]
    /\ UNCHANGED <<pcb, listening, written, plan, early>>

Idle == \A e \in Ends : wire[e] = {}

\* A timer is longer than the way there and back, or early.
MayExpire == Idle \/ early < plan.early

Expires == early' = IF Idle THEN early ELSE early + 1

Alive(c) == c.st \notin {"CLOSED", "TIME_WAIT"}

TooOften(c) ==
    c.nrtx >= MaxRtx \/ (c.persist /\ c.persist_probe >= MaxRtx)

Lost(c)    == Alive(c) /\ TooOften(c)
Running(c) == Alive(c) /\ ~TooOften(c)

\* tcp_slowtmr: the retransmission timer, the persist timer, and the end of
\* both. That every other turn ends in tcp_output changes nothing.
RtoDue(c) ==
    /\ Running(c) /\ ~c.persist /\ c.rtime /\ MayExpire
    /\ c.unacked # << >> \/ c.unsent # << >>

RtoExpires(e) ==
    LET c == pcb[e]
    IN  /\ RtoDue(c)
        /\ Expires
        /\ Step(e, Output(OneMoreRtx([RexmitRto(c) EXCEPT !.cwnd = Mss])))
        /\ UNCHANGED <<written, plan, losses>>

PersistDue(c) == Running(c) /\ c.persist /\ c.unsent # << >> /\ MayExpire

PersistExpires(e) ==
    LET c == pcb[e]
    IN  /\ PersistDue(c)
        /\ Expires
        /\ Step(e, IF c.snd_wnd = 0 THEN ZeroWindowProbe(c)
                                   ELSE Output(SplitUnsent(c, c.snd_wnd)))
        /\ UNCHANGED <<written, plan, losses>>

\* The pcb goes, and the application is told.
GiveUp(e) ==
    /\ Lost(pcb[e])
    /\ Step(e, Freed(pcb[e]))
    /\ UNCHANGED <<written, plan, losses, early>>

StateDue_NotTimeWait(c) ==
    /\ Idle
    /\ \/ c.st \in {"SYN_RCVD", "LAST_ACK"}
       \/ c.st = "FIN_WAIT_2" /\ "rxclosed" \in c.flags

\* The timeouts of the states, longer than any segment lives.
StateDue(c) ==
    /\ Idle
    /\ \/ c.st \in {"SYN_RCVD", "LAST_ACK", "TIME_WAIT"}
       \/ c.st = "FIN_WAIT_2" /\ "rxclosed" \in c.flags

StateExpires(e) ==
    /\ StateDue(pcb[e])
    /\ Step(e, Freed(pcb[e]))
    /\ UNCHANGED <<written, plan, losses, early>>

\* Six retransmission timeouts without a segment.
OoseqDue(c) == Running(c) /\ Idle /\ c.ooseq # << >>

OoseqExpires(e) ==
    /\ OoseqDue(pcb[e])
    /\ Step(e, [pcb[e] EXCEPT !.ooseq = << >>])
    /\ UNCHANGED <<written, plan, losses, early>>

\* tcp_fasttmr: a delayed acknowledgement, and data that was refused.
FastDue(c) ==
    Alive(c) /\ ("ackdelay" \in c.flags \/ (c.refused # << >> /\ Room(c)))

FastTimer(e) ==
    LET c == pcb[e]
        d == IF "ackdelay" \in c.flags
               THEN Clear(Output(AckNow(c)), {"ackdelay", "acknow"}) ELSE c
    IN  /\ FastDue(c)
        /\ Step(e, ProcessRefused(d))
        /\ UNCHANGED <<written, plan, losses, early>>

-----------------------------------------------------------------------------
(* The applications *)

Open == {"ESTABLISHED", "CLOSE_WAIT"}

\* tcp_connect
Connect ==
    LET iss == Iss[Client]
        c == [Blank EXCEPT !.snd_nxt = iss, !.lastack = Plus(iss, -1),
                           !.snd_wl2 = Plus(iss, -1), !.snd_lbb = Plus(iss, -1)]
    IN  Output([EnqueueFlags(c, TRUE, FALSE) EXCEPT !.st = "SYN_SENT"])

\* lwip_netconn_do_writemore: what fits in the send buffer.
Write(n) ==
    LET c == pcb[Client]
        data == [i \in 1 .. n |-> written + i]
    IN  /\ c.st \in Open /\ "rxclosed" \notin c.flags
        /\ written + n <= plan.bytes
        /\ n <= SndBuf(c)
        /\ plan.whole => n = Min2(Mss, plan.bytes - written)
        /\ written' = written + n
        /\ Step(Client, Output(WriteData(c, data)))
        /\ UNCHANGED <<plan, losses, early>>

\* netconn_recv_data_tcp: lwip_netconn_do_recv opens the window again; the
\* end of the stream shuts the receiving side. A server that has closed reads
\* no more.
ReadDue == pcb[Server].inbox # << >> /\ "rxclosed" \notin pcb[Server].flags

Read ==
    LET c == pcb[Server]
        n == Head(c.inbox)
        d == [c EXCEPT !.inbox = Tail(@), !.eof = IF n = 0 THEN "read" ELSE @]
        shut == IF n = 0 THEN {"rxclosed"} ELSE {}
    IN  /\ ReadDue
        /\ Step(Server, IF c.st = "CLOSED" THEN d
                        ELSE Set(Recved(d, IF n = 0 THEN 1 ELSE n), shut))
        /\ UNCHANGED <<written, plan, losses, early>>

\* tcp_close: with data the application has not taken the connection is
\* reset, otherwise a FIN follows what was written.
Close(c) ==
    IF c.refused # << >> \/ c.rcv_wnd # Wnd
      THEN Freed(Rst(c, RstSegment(c.snd_nxt, c.rcv_nxt)))
      ELSE Output([SendFin(Set(c, {"rxclosed"})) EXCEPT
                     !.st = IF @ = "CLOSE_WAIT" THEN "LAST_ACK"
                                                ELSE "FIN_WAIT_1"])

\* An eager client closes behind its last byte, another waits until the
\* server has it all.
ClientDone ==
    /\ pcb[Client].st \in Open /\ written = plan.bytes
    /\ plan.eager \/ SndBuf(pcb[Client]) = Wnd

ClientCloses ==
    /\ ClientDone
    /\ Step(Client, Close(pcb[Client]))
    /\ UNCHANGED <<written, plan, losses, early>>

\* The reader closes behind the end of the stream; a hasty one when it likes.
ServerDone ==
    \/ pcb[Server].st = "CLOSE_WAIT" /\ pcb[Server].eof = "read"
    \/ pcb[Server].st \in Open /\ plan.hasty

ServerCloses ==
    /\ ServerDone
    /\ Step(Server, Close(pcb[Server]))
    /\ UNCHANGED <<written, plan, losses, early>>

-----------------------------------------------------------------------------

Init ==
    /\ pcb = [e \in Ends |-> IF e = Client THEN [Connect EXCEPT !.out = {}]
                                           ELSE Blank]
    /\ wire = [e \in Ends |-> IF e = Server THEN Connect.out ELSE {}]
    /\ listening = TRUE
    /\ written = 0
    /\ plan \in Plans
    /\ losses = 0
    /\ early = 0

Timer(e) ==
    RtoExpires(e) \/ PersistExpires(e) \/ GiveUp(e) \/ StateExpires(e)
      \/ OoseqExpires(e) \/ FastTimer(e)

Applications == (\E n \in 1 .. Mss : Write(n)) \/ Read \/ ClientCloses
                  \/ ServerCloses

Arrival == \E e \in Ends : \E s \in wire[e] : Deliver(e, s)

Loss == \E e \in Ends : \E s \in wire[e] : Lose(e, s)

Next == Arrival \/ Loss \/ (\E e \in Ends : Timer(e)) \/ Applications

Spec == Init /\ [][Next]_vars

\* Segments arrive, timers run, and the applications read and close. The
\* client does not have to write, the network does not have to lose. All but
\* the last is WF_vars of the action named, with its ENABLED written out: TLC
\* takes too long to evaluate it.
FairSpec ==
    /\ Spec
    /\ []<>Idle \/ []<><<Arrival>>_vars
    /\ \A e \in Ends :
         /\ []<>~RtoDue(pcb[e])     \/ []<><<RtoExpires(e)>>_vars
         /\ []<>~PersistDue(pcb[e]) \/ []<><<PersistExpires(e)>>_vars
         /\ []<>~Lost(pcb[e])       \/ []<><<GiveUp(e)>>_vars
         /\ []<>~StateDue(pcb[e])   \/ []<><<StateExpires(e)>>_vars
         /\ []<>~OoseqDue(pcb[e])   \/ []<><<OoseqExpires(e)>>_vars
         /\ []<>~FastDue(pcb[e])    \/ []<><<FastTimer(e)>>_vars
    /\ []<>~ReadDue    \/ []<><<Read>>_vars
    /\ []<>~ClientDone \/ []<><<ClientCloses>>_vars
    /\ WF_vars(ServerCloses)

-----------------------------------------------------------------------------

States == {"CLOSED", "SYN_SENT", "SYN_RCVD", "ESTABLISHED", "FIN_WAIT_1",
           "FIN_WAIT_2", "CLOSE_WAIT", "CLOSING", "LAST_ACK", "TIME_WAIT"}

\* Type invariant: no sequence number, window or counter leaves its range.
TypeOK ==
    /\ \A e \in Ends :
         LET c == pcb[e]
         IN  /\ c.st \in States
             /\ c.rcv_wnd \in 0 .. Wnd /\ c.snd_wnd \in 0 .. Wnd
             /\ c.rcv_ann_wnd \in 0 .. Wnd
             /\ {c.snd_nxt, c.snd_lbb, c.lastack, c.rcv_nxt, c.right_edge}
                  \subseteq 0 .. SeqSize - 1
             /\ c.nrtx \in 0 .. MaxRtx + 1
             /\ Len(c.inbox) <= MboxSize
             /\ SndBuf(c) \in 0 .. Wnd
             /\ c.out = {}
    /\ written \in 0 .. plan.bytes

\* What the reader got, or will get, is a prefix of what was written, and the
\* end of the stream comes behind the last byte.
StreamIntact ==
    LET c == pcb[Server]
        got == c.taken \o c.refused
    IN  /\ Len(got) <= written
        /\ got = [i \in 1 .. Len(got) |-> i]
        /\ c.eof # "no" => Len(c.taken) = written

\* A byte that was written is with the receiver or in a queue of the sender,
\* whatever was retransmitted, split, trimmed or acknowledged in between.
SenderKeeps ==
    LET s == pcb[Server]
        c == pcb[Client]
    IN  c.st # "CLOSED" /\ s.st \in Open =>
          Len(s.taken) + Len(s.refused) + 1 .. written
            \subseteq Bytes(c.unsent) \cup Bytes(c.unacked)

Unread(c) == FoldLeft(LAMBDA n, m : n + m, 0, c.inbox)

\* What the window lacks is what the application has not read, byte for byte: nothing
\* leaks that would close it for ever or make tcp_close reset the connection; and
\* nothing leaves its range.
WindowAccounts ==
    /\ TypeOK
    /\ LET c == pcb[Server]
       IN  c.st \in Open =>
             c.rcv_wnd + Unread(c) + Len(c.refused)
               + (IF c.refused_fin THEN 1 ELSE 0) = Wnd

\* The code calls tcp_output wherever something became possible to send: calling
\* it once more, as the poll of tcp_slowtmr does, changes nothing.
NothingWaits ==
    \A e \in Ends : Alive(pcb[e]) => Output(pcb[e]) = pcb[e]

\* Whatever is written reaches the reader, however often the window closed, unless
\* the connection is given up or the server closes before the end.
WrittenArrives ==
    []<>(\/ Len(pcb[Server].taken) = written
         \/ pcb[Client].st = "CLOSED"
         \/ plan.hasty)

\* The pcb of an end that has closed is freed; there are MEMP_NUM_TCP_PCB of them.
PcbReturns ==
    \A e \in Ends : "rxclosed" \in pcb[e].flags ~> pcb[e].st = "CLOSED"

(* ---- what the source says and the code does not do ---- *)

\* tcp_out.c, tcp_split_unsent_seg: "Migrate flags from original segment". The FIN
\* is behind the last byte of the second part, and of it alone.
FinIsLast ==
    pcb[Server].eof # "no" => Len(pcb[Server].taken) = written

\* api_msg.c, recv_tcp, of what does not fit in the mailbox: "it is presented to us
\* later again from tcp_fasttmr". The reader is told of the end of the stream.
EndArrives ==
    pcb[Server].st = "CLOSE_WAIT"
      ~> pcb[Server].eof = "read" \/ pcb[Server].st = "CLOSED"

\* tcp_in.c, tcp_receive: LWIP_ASSERT("tcp_receive: ooseq tcplen > rcv_wnd").
\* The window is never less than what is taken from it.
WindowSuffices ==
    \A e \in Ends : {pcb[e].rcv_wnd, pcb[e].rcv_ann_wnd} \subseteq 0 .. Wnd

=============================================================================
