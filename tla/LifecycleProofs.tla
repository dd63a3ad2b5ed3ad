-------------------------- MODULE LifecycleProofs --------------------------
(***************************************************************************)
(* Theorems about Lifecycle.                                               *)
(***************************************************************************)
EXTENDS Lifecycle, OperatorProofs, SequenceTheorems


----------------------------------------------------------------------------
(* The log                                                                 *)

(* What is new at the end of a longer sequence                             *)
LEMMA NewSuffix ==
  ASSUME NEW S, NEW s \in Seq(S), NEW l \in Seq(S), NEW e \in S, NEW f \in S
  PROVE  /\ l \o SubSeq(s, Len(s) + 1, Len(s)) = l
         /\ l \o SubSeq(Append(s, e), Len(s) + 1, Len(s) + 1) = Append(l, e)
         /\ l \o SubSeq(Append(Append(s, e), f), Len(s) + 1, Len(s) + 2)
              = Append(Append(l, e), f)
  <1> DEFINE n == Len(s)
             s1 == Append(s, e)
             s2 == Append(s1, f)
  <1>1. n \in Nat /\ s1 \in Seq(S) /\ s2 \in Seq(S) /\ Len(s1) = n + 1 /\ Len(s2) = n + 2
    OBVIOUS
  <1>2. s1[n + 1] = e /\ s2[n + 1] = e /\ s2[n + 2] = f
    OBVIOUS
  <1> HIDE DEF n, s1, s2
  <1>3. SubSeq(s, n + 1, n) = <<>>
    BY <1>1, SubSeqEmpty
  <1>4. SubSeq(s1, n + 1, n + 1) = <<e>>
    <2>1. \A i \in (n + 1)..(n + 1) : s1[i] \in S
      BY <1>1, <1>2
    <2>2. /\ SubSeq(s1, n + 1, n + 1) \in Seq(S) /\ Len(SubSeq(s1, n + 1, n + 1)) = 1
          /\ SubSeq(s1, n + 1, n + 1)[1] = s1[n + 1]
      BY <1>1, <2>1, SubSeqProperties
    <2>3. /\ <<e>> \in Seq(S) /\ Len(<<e>>) = 1
          /\ \A i \in 1..1 : SubSeq(s1, n + 1, n + 1)[i] = <<e>>[i]
      BY <1>2, <2>2
    <2>4. QED
      BY <2>2, <2>3, SeqEqual
  <1>5. SubSeq(s2, n + 1, n + 2) = <<e, f>>
    <2>1. \A i \in (n + 1)..(n + 2) : s2[i] \in S
      BY <1>1, <1>2
    <2>2. /\ SubSeq(s2, n + 1, n + 2) \in Seq(S) /\ Len(SubSeq(s2, n + 1, n + 2)) = 2
          /\ SubSeq(s2, n + 1, n + 2)[1] = s2[n + 1]
          /\ SubSeq(s2, n + 1, n + 2)[2] = s2[n + 2]
      BY <1>1, <2>1, SubSeqProperties
    <2>3. /\ <<e, f>> \in Seq(S) /\ Len(<<e, f>>) = 2
          /\ \A i \in 1..2 : SubSeq(s2, n + 1, n + 2)[i] = <<e, f>>[i]
      BY <1>2, <2>2
    <2>4. QED
      BY <2>2, <2>3, SeqEqual
  <1>6. l \o <<>> = l /\ l \o <<e>> = Append(l, e) /\ l \o <<e, f>> = Append(Append(l, e), f)
    OBVIOUS
  <1>7. QED
    BY <1>3, <1>4, <1>5, <1>6 DEF n, s1, s2

(* The log grows by what a call appends to the queue: nothing, one event   *)
(* or two.                                                                 *)
LEMMA BecomesLogs ==
  ASSUME TypeOK, NEW d, Becomes(d)
  PROVE  /\ d.events = c.events => log' = log
         /\ \A e \in Event : d.events = Append(c.events, e) => log' = Append(log, e)
         /\ \A e, f \in Event : d.events = Append(Append(c.events, e), f)
                                  => log' = Append(Append(log, e), f)
  <1> DEFINE q == c.events
  <1>1. q \in Seq(Event) /\ log \in Seq(Event)
    BY DEF TypeOK, Conn
  <1>2. log' = log \o SubSeq(d.events, Len(q) + 1, Len(d.events))
    BY DEF Becomes
  <1> HIDE DEF q
  <1>3. ASSUME d.events = q PROVE log' = log
    <2>1. log \o SubSeq(q, Len(q) + 1, Len(q)) = log
      BY <1>1, SubSeqEmpty
    <2>2. QED
      BY <1>2, <1>3, <2>1
  <1>4. ASSUME NEW e \in Event, d.events = Append(q, e) PROVE log' = Append(log, e)
    <2>1. log \o SubSeq(Append(q, e), Len(q) + 1, Len(q) + 1) = Append(log, e)
      BY <1>1, NewSuffix
    <2>2. Len(Append(q, e)) = Len(q) + 1
      BY <1>1
    <2>3. QED
      BY <1>2, <1>4, <2>1, <2>2
  <1>5. ASSUME NEW e \in Event, NEW f \in Event, d.events = Append(Append(q, e), f)
        PROVE  log' = Append(Append(log, e), f)
    <2>1. log \o SubSeq(Append(Append(q, e), f), Len(q) + 1, Len(q) + 2)
            = Append(Append(log, e), f)
      BY <1>1, NewSuffix
    <2>2. Len(Append(Append(q, e), f)) = Len(q) + 2
      BY <1>1
    <2>3. QED
      BY <1>2, <1>5, <2>1, <2>2
  <1>6. QED
    BY <1>3, <1>4, <1>5 DEF q

----------------------------------------------------------------------------
(* What a call does to the end of the connection: nothing, the local close *)
(* or the close by the peer                                                *)

Quiet ==
  /\ c'.closed = c.closed /\ c'.close_event_emitted = c.close_event_emitted
  /\ c'.draining = c.draining /\ c'.draining_event_emitted = c.draining_event_emitted
  /\ log' = log \/ \E e \in Event \ EndEvents : log' = Append(log, e)
  /\ c'.t # c.t => c'.t \in {"handshake", "open"} \/ (c.closed /\ c'.t = "closing")
  /\ c.t = "draining" => c'.t = "draining"

ClosesLocally ==
  /\ ~c.closed /\ c'.closed /\ c'.close_event_emitted
  /\ c'.draining = c.draining /\ c'.draining_event_emitted = c.draining_event_emitted
  /\ c'.t = c.t
  /\ log' = Append(log, ClosedEvent(FALSE))

PeerCloses ==
  /\ c.t \in {"handshake", "open"} /\ c'.t = "draining"
  /\ c'.closed /\ c'.close_event_emitted /\ c'.draining /\ c'.draining_event_emitted
  /\ log' = IF c.closed THEN Append(log, DrainingEvent)
            ELSE Append(Append(log, DrainingEvent), ClosedEvent(TRUE))

Shape == c' \in Conn /\ (Quiet \/ ClosesLocally \/ PeerCloses)

(* A connection that changes no flag and pushes nothing is quiet.          *)
LEMMA QuietStep ==
  ASSUME TypeOK, NEW d \in Conn, Becomes(d), d.events = c.events,
         d.closed = c.closed, d.close_event_emitted = c.close_event_emitted,
         d.draining = c.draining, d.draining_event_emitted = c.draining_event_emitted,
         d.t # c.t => d.t \in {"handshake", "open"} \/ (c.closed /\ d.t = "closing"),
         c.t = "draining" => d.t = "draining"
  PROVE  Shape
  <1>1. log' = log /\ c' = d
    BY BecomesLogs DEF Becomes
  <1>2. QED
    BY <1>1 DEF Shape, Quiet

(* recv()                                                                  *)
LEMMA RecvShape ==
  ASSUME LifecycleInv, NEW in \in {"data", "finished", "stream", "close"}, recv(in)
  PROVE  Shape
  <1> DEFINE r == ReadPkt(c, in)
             d == Recv(c, in)
  <1>1. c \in Conn /\ TypeOK /\ Noticed(c) /\ in \in Inputs(c.t) /\ Becomes(d)
    BY DEF LifecycleInv, TypeOK, AnnouncedInv, PeriodsNoticed, Noticed, recv
  <1>2. CASE in = "data"
    <2>1. r \in Conn /\ r.t = c.t /\ Noticed(r)
      BY <1>1, <1>2 DEF ReadPkt, Noticed, Conn
    <2>2. d = r
      BY <2>1, SyncStateQuiet DEF Recv
    <2>3. /\ d.events = c.events /\ d.closed = c.closed
          /\ d.close_event_emitted = c.close_event_emitted
          /\ d.draining = c.draining /\ d.draining_event_emitted = c.draining_event_emitted
      BY <1>1, <1>2, <2>2 DEF ReadPkt, Conn
    <2> HIDE DEF d, r
    <2>4. QED
      BY <1>1, <2>1, <2>2, <2>3, QuietStep
  <1>3. CASE in = "finished"
    <2>1. c.t = "handshake"
      BY <1>1, <1>3 DEF Inputs
    <2> DEFINE o == [[c EXCEPT !.idle = FALSE] EXCEPT !.t = "open"]
    <2>2. r = HandshakeCompletedCb(o)
      BY <1>3, <2>1 DEF ReadPkt
    <2>3. o \in Conn /\ Noticed(o)
      BY <1>1 DEF Conn, Noticed, Periods
    <2>4. CASE c.established
      <3>1. r = o
        BY <1>1, <2>2, <2>4 DEF HandshakeCompletedCb, Conn
      <3>2. d = o
        BY <2>3, <3>1, SyncStateQuiet DEF Recv
      <3>3. QED
        BY <1>1, <2>1, <2>3, <3>2, QuietStep DEF Conn
    <2>5. CASE ~c.established
      <3> DEFINE h == [type |-> "HandshakeCompleted", by_peer |-> FALSE]
                 p == [o EXCEPT !.established = TRUE]
                 w == [p EXCEPT !.events = Append(c.events, h)]
      <3>1. p \in Conn /\ p.events = c.events
        BY <1>1, <2>3 DEF Conn
      <3>2. r = w /\ w \in Conn
        <4>1. r = PushEvent(p, "HandshakeCompleted", FALSE)
          BY <1>1, <2>2, <2>5 DEF HandshakeCompletedCb, Conn
        <4> HIDE DEF p
        <4>2. /\ PushEvent(p, "HandshakeCompleted", FALSE) \in Conn
              /\ PushEvent(p, "HandshakeCompleted", FALSE)
                   = [p EXCEPT !.events = Append(p.events, h)]
          BY <3>1, PushEventIs DEF EventType
        <4>3. QED
          BY <3>1, <4>1, <4>2
      <3>3. d = w
        <4>1. Noticed(w)
          BY <1>1, <2>3, <3>1 DEF Noticed, Periods, Conn
        <4>2. QED
          BY <3>2, <4>1, SyncStateQuiet DEF Recv
      <3>4. h \in Event \ EndEvents /\ w.events = Append(c.events, h)
        BY <1>1, <3>1 DEF Event, EndEvents, EventType, Conn
      <3>5. log' = Append(log, h)
        BY <1>1, <3>3, <3>4, BecomesLogs
      <3>6. /\ w.closed = c.closed /\ w.close_event_emitted = c.close_event_emitted
            /\ w.draining = c.draining /\ w.draining_event_emitted = c.draining_event_emitted
            /\ w.t = "open" /\ c' = w
        BY <1>1, <3>3 DEF Conn, Becomes
      <3> HIDE DEF w, h
      <3>7. QED
        BY <2>1, <3>2, <3>4, <3>5, <3>6 DEF Shape, Quiet
    <2>6. QED
      BY <2>4, <2>5
  <1>4. CASE in = "stream"
    <2>1. c.t = "open"
      BY <1>1, <1>4 DEF Inputs
    <2> DEFINE o == [c EXCEPT !.idle = FALSE]
               h == [type |-> "Stream", by_peer |-> FALSE]
               w == [o EXCEPT !.events = Append(c.events, h)]
    <2>2. o \in Conn /\ o.events = c.events
      BY <1>1 DEF Conn
    <2>3. r = w /\ w \in Conn
      <3>1. r = PushEvent(o, "Stream", FALSE)
        BY <1>4, <2>1 DEF ReadPkt
      <3> HIDE DEF o
      <3>2. /\ PushEvent(o, "Stream", FALSE) \in Conn
            /\ PushEvent(o, "Stream", FALSE) = [o EXCEPT !.events = Append(o.events, h)]
        BY <2>2, PushEventIs DEF EventType
      <3>3. QED
        BY <2>2, <3>1, <3>2
    <2>4. d = w
      <3>1. Noticed(w)
        BY <1>1, <2>1 DEF Noticed, Periods, Conn
      <3>2. QED
        BY <2>3, <3>1, SyncStateQuiet DEF Recv
    <2>5. h \in Event \ EndEvents /\ w.events = Append(c.events, h)
      BY <1>1 DEF Event, EndEvents, EventType, Conn
    <2>6. log' = Append(log, h)
      BY <1>1, <2>4, <2>5, BecomesLogs
    <2>7. /\ w.closed = c.closed /\ w.close_event_emitted = c.close_event_emitted
          /\ w.draining = c.draining /\ w.draining_event_emitted = c.draining_event_emitted
          /\ w.t = c.t /\ c' = w
      BY <1>1, <2>4 DEF Conn, Becomes
    <2> HIDE DEF w, h
    <2>8. QED
      BY <2>3, <2>5, <2>6, <2>7 DEF Shape, Quiet
  <1>5. CASE in = "close"
    <2>1. c.t \in {"handshake", "open"}
      BY <1>1, <1>5 DEF Inputs
    <2> DEFINE o == [[c EXCEPT !.idle = FALSE] EXCEPT !.t = "draining"]
    <2>2. r = o /\ o \in Conn
      BY <1>1, <1>5, <2>1 DEF ReadPkt, Conn, Periods
    <2>3. ~o.draining_event_emitted /\ (o.closed <=> o.close_event_emitted) /\ o.t = "draining"
      BY <1>1, <2>1 DEF LifecycleInv, AnnouncedInv, Conn
    <2>4. /\ d \in Conn /\ d.t = "draining" /\ d.closed /\ d.close_event_emitted
          /\ d.draining /\ d.draining_event_emitted
          /\ d.events = IF c.closed THEN Append(c.events, DrainingEvent)
                        ELSE Append(Append(c.events, DrainingEvent), ClosedEvent(TRUE))
      <3>1. o.events = c.events /\ o.closed = c.closed
        BY <1>1 DEF Conn
      <3>2. d = SyncState(o) /\ d \in Conn
        BY <2>2, SyncStateType DEF Recv
      <3>3. d = [o EXCEPT !.draining = TRUE, !.draining_event_emitted = TRUE,
                          !.closed = TRUE, !.close_event_emitted = TRUE,
                          !.events = IF o.closed THEN Append(o.events, DrainingEvent)
                                     ELSE Append(Append(o.events, DrainingEvent),
                                                 ClosedEvent(TRUE))]
        BY <2>2, <2>3, <3>2, SyncStateDrains
      <3> HIDE DEF o, d
      <3>4. QED
        BY <2>2, <2>3, <3>1, <3>2, <3>3 DEF Conn
    <2>5. DrainingEvent \in Event /\ ClosedEvent(TRUE) \in Event
      BY DEF DrainingEvent, ClosedEvent, Event, EventType
    <2> HIDE DEF d
    <2>6. log' = IF c.closed THEN Append(log, DrainingEvent)
                 ELSE Append(Append(log, DrainingEvent), ClosedEvent(TRUE))
      BY <1>1, <2>4, <2>5, BecomesLogs
    <2>7. QED
      BY <1>1, <2>1, <2>4, <2>6 DEF Shape, PeerCloses, Becomes
  <1>6. QED
    BY <1>2, <1>3, <1>4, <1>5

(* The calls that only store an error, and the ones that change nothing    *)
LEMMA ErrorShape ==
  ASSUME LifecycleInv, recvFatal \/ onTimeout \/ onTimeoutFatal \/ drainFatal
  PROVE  Shape
  <1>1. c \in Conn /\ TypeOK /\ Noticed(c)
    BY DEF LifecycleInv, TypeOK, AnnouncedInv, PeriodsNoticed, Noticed
  <1>2. CASE onTimeout
    <2>1. HandleTimers(c) = c
      BY <1>1, SyncStateQuiet DEF HandleTimers
    <2>2. QED
      BY <1>1, <1>2, <2>1, QuietStep DEF onTimeout
  <1>3. ASSUME NEW e \in {"none", "lib", "app", "app0"},
               Becomes([c EXCEPT !.last_error = e]) PROVE Shape
    <2> DEFINE d == [c EXCEPT !.last_error = e]
    <2>1. /\ d \in Conn /\ d.events = c.events /\ d.closed = c.closed
          /\ d.close_event_emitted = c.close_event_emitted
          /\ d.draining = c.draining /\ d.draining_event_emitted = c.draining_event_emitted
          /\ d.t = c.t
      BY <1>1 DEF Conn
    <2> HIDE DEF d
    <2>2. Becomes(d)
      BY <1>3 DEF d
    <2>3. QED
      BY <1>1, <2>1, <2>2, QuietStep
  <1>4. CASE recvFatal
    BY <1>1, <1>3, <1>4 DEF recvFatal, RecvFatal, Conn
  <1>5. CASE onTimeoutFatal
    BY <1>3, <1>5 DEF onTimeoutFatal, HandleTimersFatal
  <1>6. CASE drainFatal
    <2>1. CASE ClosePending(c)
      BY <1>1, <1>6, <2>1, QuietStep DEF drainFatal, DrainFatal
    <2>2. CASE ~ClosePending(c)
      BY <1>3, <1>6, <2>2 DEF drainFatal, DrainFatal
    <2>3. QED
      BY <2>1, <2>2
  <1>7. QED
    BY <1>2, <1>4, <1>5, <1>6

(* close()                                                                 *)
LEMMA CloseShape ==
  ASSUME LifecycleInv, NEW err \in Codes, close(err)
  PROVE  Shape
  <1>1. c \in Conn /\ TypeOK /\ (c.closed <=> c.close_event_emitted)
    BY DEF LifecycleInv, TypeOK, AnnouncedInv
  <1>2. err \in {"app", "app0"} /\ Becomes(Close(c, err))
    BY LifecycleAssumption DEF close
  <1>3. CASE c.close_requested
    BY <1>1, <1>2, <1>3, QuietStep DEF Close
  <1> DEFINE d == [c EXCEPT !.last_error = err, !.close_requested = TRUE, !.closed = TRUE]
  <1>4. /\ d \in Conn /\ d.events = c.events /\ d.closed
        /\ d.close_event_emitted = c.close_event_emitted
        /\ d.draining = c.draining /\ d.draining_event_emitted = c.draining_event_emitted
        /\ d.t = c.t
    BY <1>1, <1>2 DEF Conn
  <1>5. CASE ~c.close_requested /\ c.close_event_emitted
    <2>1. Close(c, err) = d
      BY <1>5 DEF Close
    <2> HIDE DEF d
    <2>2. QED
      BY <1>1, <1>2, <1>4, <1>5, <2>1, QuietStep DEF Conn
  <1>6. CASE ~c.close_requested /\ ~c.close_event_emitted
    <2> DEFINE p == [d EXCEPT !.close_event_emitted = TRUE]
               w == [p EXCEPT !.events = Append(c.events, ClosedEvent(FALSE))]
    <2>1. /\ p \in Conn /\ p.events = c.events /\ p.closed /\ p.close_event_emitted
          /\ p.draining = c.draining /\ p.draining_event_emitted = c.draining_event_emitted
          /\ p.t = c.t
      BY <1>4 DEF Conn
    <2>2. Close(c, err) = PushEvent(p, "ConnectionClosed", FALSE)
      BY <1>6 DEF Close
    <2> HIDE DEF d, p
    <2>3. PushEvent(p, "ConnectionClosed", FALSE) = w /\ w \in Conn
      <3>1. /\ PushEvent(p, "ConnectionClosed", FALSE) \in Conn
            /\ PushEvent(p, "ConnectionClosed", FALSE)
                 = [p EXCEPT !.events = Append(p.events, ClosedEvent(FALSE))]
        BY <2>1, PushEventIs DEF EventType, ClosedEvent
      <3>2. QED
        BY <2>1, <3>1
    <2>4. /\ w.events = Append(c.events, ClosedEvent(FALSE))
          /\ w.closed /\ w.close_event_emitted
          /\ w.draining = c.draining /\ w.draining_event_emitted = c.draining_event_emitted
          /\ w.t = c.t
      BY <2>1 DEF Conn
    <2>5. ClosedEvent(FALSE) \in Event
      BY DEF ClosedEvent, Event, EventType
    <2> HIDE DEF w
    <2>6. c' = w /\ log' = Append(log, ClosedEvent(FALSE))
      BY <1>1, <1>2, <2>2, <2>3, <2>4, <2>5, BecomesLogs DEF Becomes
    <2>7. QED
      BY <1>1, <1>6, <2>3, <2>4, <2>6 DEF Shape, ClosesLocally
  <1>7. QED
    BY <1>1, <1>3, <1>5, <1>6 DEF Conn

(* drainOutgoingDatagrams()                                                *)
LEMMA DrainShape ==
  ASSUME LifecycleInv, drainOutgoingDatagrams
  PROVE  Shape
  <1>1. c \in Conn /\ TypeOK /\ Noticed(c) /\ (c.close_requested => c.closed)
    BY DEF LifecycleInv, TypeOK, AnnouncedInv, PeriodsNoticed, Noticed, RequestInv
  <1>2. Becomes(DrainOutgoing(c))
    BY DEF drainOutgoingDatagrams
  <1>3. CASE ClosePending(c)
    <2> DEFINE d == DrainClose(c)
    <2>1. /\ d \in Conn /\ d.events = c.events /\ d.closed = c.closed
          /\ d.close_event_emitted = c.close_event_emitted
          /\ d.draining = c.draining /\ d.draining_event_emitted = c.draining_event_emitted
          /\ d.t # c.t => d.t = "closing" /\ WritesClose(c)
      BY <1>1 DEF DrainClose, Conn, Periods
    <2>2. DrainOutgoing(c) = d /\ c.closed
      BY <1>1, <1>3 DEF DrainOutgoing, ClosePending
    <2> HIDE DEF d
    <2>3. QED
      BY <1>1, <1>2, <2>1, <2>2, QuietStep DEF WritesClose
  <1>4. CASE ~ClosePending(c)
    <2> DEFINE d == IF c.t = "initial" THEN [c EXCEPT !.t = "handshake"] ELSE c
    <2>1. /\ d \in Conn /\ d.events = c.events /\ d.closed = c.closed /\ Noticed(d)
          /\ d.close_event_emitted = c.close_event_emitted
          /\ d.draining = c.draining /\ d.draining_event_emitted = c.draining_event_emitted
          /\ d.t # c.t => d.t = "handshake" /\ c.t = "initial"
      BY <1>1 DEF Conn, Noticed, Periods
    <2>2. DrainOutgoing(c) = SyncState(d)
      BY <1>4 DEF DrainOutgoing, DrainLoop
    <2> HIDE DEF d
    <2>3. QED
      BY <1>1, <1>2, <2>1, <2>2, SyncStateQuiet, QuietStep
  <1>5. QED
    BY <1>3, <1>4

(* drainEvents() and the expiry of the idle timer                          *)
LEMMA OtherShape ==
  ASSUME LifecycleInv, drainEvents \/ IdleExpires
  PROVE  Shape
  <1>1. c \in Conn
    BY DEF LifecycleInv, TypeOK
  <1>2. /\ c' \in Conn /\ log' = log /\ c'.closed = c.closed
        /\ c'.close_event_emitted = c.close_event_emitted
        /\ c'.draining = c.draining /\ c'.draining_event_emitted = c.draining_event_emitted
        /\ c'.t = c.t
    <2>1. CASE drainEvents
      <3>1. <<>> \in Seq(Event)
        OBVIOUS
      <3>2. QED
        BY <1>1, <2>1, <3>1 DEF drainEvents, DrainEvents, Conn
    <2>2. CASE IdleExpires
      BY <1>1, <2>2 DEF IdleExpires, Conn
    <2>3. QED
      BY <2>1, <2>2
  <1>3. QED
    BY <1>2 DEF Shape, Quiet

(* Every step has one of the shapes.                                       *)
LEMMA StepShape == LifecycleInv /\ Next => Shape
  BY RecvShape, ErrorShape, CloseShape, DrainShape, OtherShape DEF Next

----------------------------------------------------------------------------
(* The announcements                                                       *)

(* What an element at the end adds to a sequence                           *)
LEMMA AppendIndex ==
  ASSUME NEW S, NEW l \in Seq(S), NEW e \in S
  PROVE  LET m == Append(l, e) IN
         /\ m \in Seq(S)
         /\ DOMAIN m = DOMAIN l \cup {Len(m)}
         /\ Len(m) \notin DOMAIN l /\ m[Len(m)] = e
         /\ \A i \in DOMAIN l : m[i] = l[i]
  OBVIOUS

(* A step of any shape keeps the flags and the log in agreement.           *)
LEMMA AnnouncedStep ==
  ASSUME LifecycleInv, Shape
  PROVE  /\ log' \in Seq(Event) /\ AnnouncedInv'
         /\ ClosedOnce' /\ ByPeerHonest' /\ PeriodsNoticed'
  <1>1. c \in Conn /\ c' \in Conn /\ log \in Seq(Event)
    BY DEF LifecycleInv, TypeOK, Shape
  <1>2. AnnouncedInv /\ ClosedOnce /\ ByPeerHonest /\ PeriodsNoticed
    BY DEF LifecycleInv
  <1>3. ASSUME Quiet, log' = log PROVE AnnouncedInv' /\ ClosedOnce' /\ ByPeerHonest' /\ PeriodsNoticed'
    BY <1>1, <1>2, <1>3 DEF Quiet, AnnouncedInv, ClosedOnce, ByPeerHonest, PeriodsNoticed,
       Occurs, Periods, Conn
  <1>4. ASSUME Quiet, NEW e \in Event \ EndEvents, log' = Append(log, e)
        PROVE  /\ log' \in Seq(Event) /\ AnnouncedInv'
               /\ ClosedOnce' /\ ByPeerHonest' /\ PeriodsNoticed'
    <2>1. /\ log' \in Seq(Event) /\ DOMAIN log' = DOMAIN log \cup {Len(log')}
          /\ log'[Len(log')] = e /\ \A i \in DOMAIN log : log'[i] = log[i]
      BY <1>1, <1>4, AppendIndex
    <2>2. e.type # "ConnectionClosed" /\ e.type # "ConnectionDraining"
      BY DEF EndEvents
    <2>3. \A type \in {"ConnectionClosed", "ConnectionDraining"} : Occurs(type)' <=> Occurs(type)
      BY <2>1, <2>2 DEF Occurs
    <2>4. AnnouncedInv'
      BY <1>1, <1>2, <1>4, <2>3 DEF Quiet, AnnouncedInv
    <2>5. ClosedOnce'
      BY <1>2, <1>4, <2>1, <2>2 DEF ClosedOnce, Quiet
    <2>6. ByPeerHonest'
      BY <1>2, <1>4, <2>1, <2>2 DEF ByPeerHonest, Quiet
    <2>7. PeriodsNoticed'
      BY <1>1, <1>2, <1>4, <2>3 DEF PeriodsNoticed, AnnouncedInv, Quiet, Periods
    <2>8. QED
      BY <2>1, <2>4, <2>5, <2>6, <2>7
  <1>5. CASE ClosesLocally
    <2>1. ClosedEvent(FALSE) \in Event
      BY DEF ClosedEvent, Event, EventType
    <2>2. /\ log' \in Seq(Event) /\ DOMAIN log' = DOMAIN log \cup {Len(log')}
          /\ log'[Len(log')] = ClosedEvent(FALSE)
          /\ \A i \in DOMAIN log : log'[i] = log[i]
      <3> DEFINE e == ClosedEvent(FALSE)
      <3>1. log' = Append(log, e) /\ e \in Event
        BY <1>5, <2>1 DEF ClosesLocally
      <3> HIDE DEF e
      <3>2. /\ log' \in Seq(Event) /\ DOMAIN log' = DOMAIN log \cup {Len(log')}
            /\ log'[Len(log')] = e /\ \A i \in DOMAIN log : log'[i] = log[i]
        BY <1>1, <3>1, AppendIndex
      <3>3. QED
        BY <3>2 DEF e
    <2>3. ~Occurs("ConnectionClosed")
      BY <1>2, <1>5 DEF AnnouncedInv, ClosesLocally
    <2>4. AnnouncedInv'
      BY <1>1, <1>2, <1>5, <2>2, <2>3 DEF ClosesLocally, AnnouncedInv, Occurs, ClosedEvent
    <2>5. ClosedOnce'
      BY <1>5, <2>2, <2>3 DEF ClosesLocally, ClosedOnce, Occurs, ClosedEvent
    <2>6. ByPeerHonest'
      BY <1>2, <1>5, <2>2 DEF ClosesLocally, ByPeerHonest, ClosedEvent
    <2>7. PeriodsNoticed'
      BY <1>1, <1>2, <1>5, <2>4 DEF ClosesLocally, PeriodsNoticed, AnnouncedInv, Periods
    <2>8. QED
      BY <2>2, <2>4, <2>5, <2>6, <2>7
  <1>6. CASE PeerCloses
    <2>1. ClosedEvent(TRUE) \in Event /\ DrainingEvent \in Event
      BY DEF ClosedEvent, DrainingEvent, Event, EventType
    <2>m. PICK m : m = Append(log, DrainingEvent)
      OBVIOUS
    <2>2. /\ m \in Seq(Event) /\ DOMAIN m = DOMAIN log \cup {Len(m)}
          /\ m[Len(m)] = DrainingEvent /\ \A i \in DOMAIN log : m[i] = log[i]
      BY <1>1, <2>1, <2>m, AppendIndex
    <2>3. ~Occurs("ConnectionDraining") /\ (c.closed <=> Occurs("ConnectionClosed"))
      BY <1>1, <1>2, <1>6 DEF AnnouncedInv, PeerCloses
    <2>4. CASE c.closed
      <3>1. log' = m
        BY <1>6, <2>4, <2>m DEF PeerCloses
      <3>2. AnnouncedInv'
        BY <1>1, <1>6, <2>2, <2>3, <2>4, <3>1
           DEF PeerCloses, AnnouncedInv, Occurs, DrainingEvent
      <3>3. ClosedOnce'
        BY <1>2, <1>6, <2>2, <2>4, <3>1 DEF PeerCloses, ClosedOnce, DrainingEvent
      <3>4. ByPeerHonest' /\ PeriodsNoticed'
        BY <1>6, <3>2 DEF PeerCloses, ByPeerHonest, PeriodsNoticed, AnnouncedInv
      <3>5. QED
        BY <2>2, <3>1, <3>2, <3>3, <3>4
    <2>5. CASE ~c.closed
      <3>1. log' = Append(m, ClosedEvent(TRUE))
        BY <1>6, <2>5, <2>m DEF PeerCloses
      <3>2. /\ log' \in Seq(Event) /\ DOMAIN log' = DOMAIN m \cup {Len(log')}
            /\ log'[Len(log')] = ClosedEvent(TRUE) /\ \A i \in DOMAIN m : log'[i] = m[i]
        <4> DEFINE e == ClosedEvent(TRUE)
        <4>1. log' = Append(m, e) /\ e \in Event
          BY <2>1, <3>1
        <4> HIDE DEF e
        <4>2. /\ log' \in Seq(Event) /\ DOMAIN log' = DOMAIN m \cup {Len(log')}
              /\ log'[Len(log')] = e /\ \A i \in DOMAIN m : log'[i] = m[i]
          <5>1. m \in Seq(Event)
            BY <2>2
          <5>2. QED
            BY <4>1, <5>1, AppendIndex
        <4>3. QED
          BY <4>2 DEF e
      <3>3. AnnouncedInv'
        <4> DEFINE j == Len(m)
                   k == Len(log')
        <4>1. /\ j \in DOMAIN log' /\ log'[j] = DrainingEvent
              /\ k \in DOMAIN log' /\ log'[k] = ClosedEvent(TRUE)
          <5>1. j \in DOMAIN m /\ m[j] = DrainingEvent
            BY <2>2
          <5> HIDE DEF j
          <5>2. QED
            BY <3>2, <5>1
        <4> HIDE DEF j, k
        <4>3. Occurs("ConnectionClosed")' /\ Occurs("ConnectionDraining")'
          BY <4>1 DEF Occurs, DrainingEvent, ClosedEvent
        <4>4. QED
          BY <1>6, <4>3 DEF PeerCloses, AnnouncedInv
      <3>4. ClosedOnce'
        <4>1. \A i \in DOMAIN log' : log'[i].type = "ConnectionClosed" <=> i = Len(log')
          <5>1. \A i \in DOMAIN log : log[i].type # "ConnectionClosed"
            BY <2>3, <2>5 DEF Occurs
          <5>2. ASSUME NEW i \in DOMAIN m PROVE m[i].type # "ConnectionClosed"
            <6>1. CASE i \in DOMAIN log
              BY <2>2, <5>1, <6>1
            <6>2. CASE i = Len(m)
              BY <2>2, <6>2 DEF DrainingEvent
            <6>3. QED
              BY <2>2, <6>1, <6>2
          <5>3. ClosedEvent(TRUE).type = "ConnectionClosed"
            BY DEF ClosedEvent
          <5>4. ASSUME NEW i \in DOMAIN log', i # Len(log')
                PROVE  log'[i].type # "ConnectionClosed"
            <6>1. i \in DOMAIN m
              BY <3>2, <5>4
            <6>2. QED
              BY <3>2, <5>2, <6>1
          <5>5. log'[Len(log')].type = "ConnectionClosed"
            BY <3>2, <5>3
          <5>6. QED
            BY <5>4, <5>5
        <4>2. QED
          BY <1>6, <3>2, <4>1 DEF PeerCloses, ClosedOnce
      <3>5. ByPeerHonest' /\ PeriodsNoticed'
        BY <1>6, <3>3 DEF PeerCloses, ByPeerHonest, PeriodsNoticed, AnnouncedInv
      <3>6. QED
        BY <3>2, <3>3, <3>4, <3>5
    <2>6. QED
      BY <2>4, <2>5
  <1>7. QED
    BY <1>1, <1>3, <1>4, <1>5, <1>6 DEF Shape, Quiet

----------------------------------------------------------------------------
(* The request to close, its reason and the packet that carries it         *)

KeepsRequest ==
  /\ c'.close_requested = c.close_requested
  /\ c'.close_packet_sent = c.close_packet_sent
  /\ c.t \in Periods => c'.t \in Periods
  /\ UNCHANGED <<asked, carried>>

(* The steps that neither ask for the close nor write its packet; the last *)
(* error they leave is the one of the application or one of ngtcp2         *)
LEMMA RequestKept ==
  ASSUME LifecycleInv,
         \/ \E in \in {"data", "finished", "stream", "close"} : recv(in)
         \/ recvFatal \/ onTimeout \/ onTimeoutFatal \/ drainFatal
         \/ drainEvents \/ IdleExpires
  PROVE  /\ KeepsRequest
         /\ \/ c'.last_error = c.last_error
            \/ c'.last_error = "lib" /\ ~(c.last_error = "app" /\ ClosePending(c))
  <1>1. c \in Conn /\ Noticed(c) /\ (c.close_requested => c.closed)
    BY DEF LifecycleInv, TypeOK, AnnouncedInv, PeriodsNoticed, Noticed, RequestInv
  <1>2. ASSUME NEW in \in {"data", "finished", "stream", "close"}, recv(in)
        PROVE  KeepsRequest /\ c'.last_error = c.last_error
    <2> DEFINE r == ReadPkt(c, in)
    <2>1. in \in Inputs(c.t) /\ c' = SyncState(r)
      BY <1>2 DEF recv, Becomes, Recv
    <2>2. /\ r \in Conn
          /\ r.close_requested = c.close_requested
          /\ r.close_packet_sent = c.close_packet_sent
          /\ r.last_error = c.last_error
          /\ c.t \in Periods => r.t \in Periods
      <3> DEFINE o == [c EXCEPT !.idle = FALSE]
      <3>1. CASE in = "data"
        BY <1>1, <3>1 DEF ReadPkt, Conn
      <3>2. CASE in = "finished"
        <4> DEFINE p == [o EXCEPT !.t = "open"]
                   q == [p EXCEPT !.established = TRUE]
        <4>1. c.t = "handshake" /\ r = HandshakeCompletedCb(p)
          BY <2>1, <3>2 DEF Inputs, ReadPkt
        <4>2. p \in Conn /\ q \in Conn
          BY <1>1 DEF Conn
        <4>3. PushEvent(q, "HandshakeCompleted", FALSE) \in Conn
          BY <4>2, PushEventIs DEF EventType
        <4>4. r = p \/ r = PushEvent(q, "HandshakeCompleted", FALSE)
          BY <4>1 DEF HandshakeCompletedCb
        <4>5. /\ q.close_requested = c.close_requested
              /\ q.close_packet_sent = c.close_packet_sent
              /\ q.last_error = c.last_error
          BY <1>1 DEF Conn
        <4>6. CASE r = p
          BY <1>1, <4>1, <4>2, <4>6 DEF Conn, Periods
        <4>7. CASE r = PushEvent(q, "HandshakeCompleted", FALSE)
          <5> HIDE DEF q
          <5>1. /\ r.close_requested = q.close_requested
                /\ r.close_packet_sent = q.close_packet_sent
                /\ r.last_error = q.last_error /\ r \in Conn
            BY <4>2, <4>3, <4>7 DEF PushEvent, Conn
          <5>2. c.t \notin Periods
            BY <4>1 DEF Periods
          <5>3. QED
            BY <4>5, <5>1, <5>2
        <4>8. QED
          BY <4>4, <4>6, <4>7
      <3>3. CASE in = "stream"
        <4>1. c.t = "open" /\ r = PushEvent(o, "Stream", FALSE)
          BY <2>1, <3>3 DEF Inputs, ReadPkt
        <4>2. o \in Conn
          BY <1>1 DEF Conn
        <4>3. PushEvent(o, "Stream", FALSE) \in Conn
          BY <4>2, PushEventIs DEF EventType
        <4>4. QED
          BY <1>1, <4>1, <4>2, <4>3 DEF PushEvent, Conn, Periods
      <3>4. CASE in = "close"
        <4>1. r = [o EXCEPT !.t = "draining"]
          BY <2>1, <3>4 DEF Inputs, ReadPkt
        <4>2. QED
          BY <1>1, <4>1 DEF Conn, Periods
      <3>5. QED
        BY <3>1, <3>2, <3>3, <3>4
    <2> HIDE DEF r
    <2>3. QED
      BY <1>2, <2>1, <2>2, SyncStateKeeps DEF KeepsRequest, recv
  <1>3. CASE onTimeout
    <2>1. HandleTimers(c) = c
      BY <1>1, SyncStateQuiet DEF HandleTimers
    <2>2. QED
      BY <1>3, <2>1 DEF onTimeout, Becomes, KeepsRequest
  <1>4. CASE recvFatal
    BY <1>1, <1>4 DEF recvFatal, Becomes, RecvFatal, KeepsRequest, Conn
  <1>5. CASE onTimeoutFatal
    BY <1>1, <1>5 DEF onTimeoutFatal, Becomes, HandleTimersFatal, KeepsRequest, ClosePending, Conn
  <1>6. CASE drainFatal
    BY <1>1, <1>6 DEF drainFatal, Becomes, DrainFatal, KeepsRequest, Conn
  <1>7. CASE drainEvents
    BY <1>1, <1>7 DEF drainEvents, DrainEvents, KeepsRequest, Conn
  <1>8. CASE IdleExpires
    BY <1>1, <1>8 DEF IdleExpires, KeepsRequest, Conn
  <1>9. QED
    BY <1>2, <1>3, <1>4, <1>5, <1>6, <1>7, <1>8

(* close() and drainOutgoingDatagrams() themselves                         *)
LEMMA CloseAsks ==
  ASSUME LifecycleInv, NEW err \in Codes, close(err)
  PROVE  /\ c'.close_packet_sent = c.close_packet_sent /\ c'.close_requested
         /\ c'.closed /\ c'.t = c.t /\ carried' = carried
         /\ IF c.close_requested THEN c'.last_error = c.last_error /\ asked' = asked
            ELSE c'.last_error = err /\ asked' = err
  <1>1. c \in Conn /\ c' = Close(c, err) /\ err \in {"none", "lib", "app", "app0"}
    BY LifecycleAssumption DEF LifecycleInv, TypeOK, close, Becomes
  <1> DEFINE d == [c EXCEPT !.last_error = err, !.close_requested = TRUE, !.closed = TRUE]
             p == [d EXCEPT !.close_event_emitted = TRUE]
  <1>2. d \in Conn /\ p \in Conn
    BY <1>1 DEF Conn
  <1>3. CASE c.close_requested
    BY <1>1, <1>3 DEF LifecycleInv, RequestInv, close, Close, Conn
  <1>4. CASE ~c.close_requested
    <2>1. Close(c, err) = d \/ Close(c, err) = PushEvent(p, "ConnectionClosed", FALSE)
      BY <1>4 DEF Close
    <2>2. PushEvent(p, "ConnectionClosed", FALSE) \in Conn
      BY <1>2, PushEventIs DEF EventType
    <2>3. /\ d.close_packet_sent = c.close_packet_sent /\ d.close_requested
          /\ d.closed /\ d.t = c.t /\ d.last_error = err
      BY <1>1 DEF Conn
    <2>4. LET w == PushEvent(p, "ConnectionClosed", FALSE) IN
          /\ w.close_packet_sent = c.close_packet_sent /\ w.close_requested
          /\ w.closed /\ w.t = c.t /\ w.last_error = err
      BY <1>1, <1>2, <2>2 DEF PushEvent, Conn
    <2> HIDE DEF d, p
    <2>5. QED
      BY <1>1, <1>4, <2>1, <2>3, <2>4 DEF close
  <1>5. QED
    BY <1>3, <1>4

(* The close packet carries the reason that is pending.                    *)
LEMMA DrainCarries ==
  ASSUME LifecycleInv, drainOutgoingDatagrams
  PROVE  /\ c'.close_requested = c.close_requested /\ c'.last_error = c.last_error
         /\ c.t \in Periods => c'.t \in Periods
         /\ asked' = asked
         /\ IF ClosePending(c)
            THEN /\ c'.close_packet_sent
                 /\ WritesClose(c) => c'.t = "closing"
                 /\ carried' = IF WritesClose(c) THEN c.last_error ELSE carried
            ELSE c'.close_packet_sent = c.close_packet_sent /\ carried' = carried
  <1>1. c \in Conn /\ c' = DrainOutgoing(c)
    BY DEF LifecycleInv, TypeOK, drainOutgoingDatagrams, Becomes
  <1>2. CASE ClosePending(c)
    BY <1>1, <1>2 DEF drainOutgoingDatagrams, DrainOutgoing, DrainClose, WritesClose, Periods, Conn
  <1>3. CASE ~ClosePending(c)
    <2> DEFINE d == IF c.t = "initial" THEN [c EXCEPT !.t = "handshake"] ELSE c
    <2>1. /\ d \in Conn /\ d.close_requested = c.close_requested
          /\ d.close_packet_sent = c.close_packet_sent
          /\ d.last_error = c.last_error /\ (c.t \in Periods => d.t \in Periods)
      BY <1>1 DEF Conn, Periods
    <2>2. c' = SyncState(d)
      BY <1>1, <1>3 DEF DrainOutgoing, DrainLoop
    <2> HIDE DEF d
    <2>3. QED
      BY <1>3, <2>1, <2>2, SyncStateKeeps DEF drainOutgoingDatagrams
  <1>4. QED
    BY <1>2, <1>3

(* Every step keeps the facts about the request ...                        *)
LEMMA RequestStep ==
  ASSUME LifecycleInv, Next, Shape
  PROVE  /\ RequestInv'
         /\ asked' \in {"none"} \cup Codes /\ carried' \in {"none", "lib", "app", "app0"}
  <1>1. /\ RequestInv /\ c \in Conn /\ c' \in Conn
        /\ asked \in {"none"} \cup Codes /\ carried \in {"none", "lib", "app", "app0"}
        /\ "none" \notin Codes
    BY LifecycleAssumption DEF LifecycleInv, TypeOK, Shape
  <1>2. c.closed => c'.closed
    BY DEF Shape, Quiet, ClosesLocally, PeerCloses
  <1>3. CASE \/ \E in \in {"data", "finished", "stream", "close"} : recv(in)
             \/ recvFatal \/ onTimeout \/ onTimeoutFatal \/ drainFatal
             \/ drainEvents \/ IdleExpires
    <2>1. /\ KeepsRequest
          /\ c'.last_error = c.last_error \/ c'.last_error = "lib"
      BY <1>3, RequestKept
    <2>2. QED
      BY <1>1, <1>2, <2>1 DEF KeepsRequest, RequestInv
  <1>4. ASSUME NEW err \in Codes, close(err) PROVE RequestInv' /\ asked' \in {"none"} \cup Codes
                                                   /\ carried' = carried
    BY <1>1, <1>4, CloseAsks DEF RequestInv
  <1>5. CASE drainOutgoingDatagrams
    BY <1>1, <1>2, <1>5, DrainCarries DEF RequestInv, ClosePending, Conn
  <1>6. QED
    BY <1>1, <1>3, <1>4, <1>5 DEF Next, KeepsRequest

(* ... and, while no code is zero, the reason that was given.              *)
LEMMA ReasonStep ==
  ASSUME "app0" \notin Codes, LifecycleInv, ReasonInv, Next
  PROVE  ReasonInv'
  <1>1. RequestInv /\ c \in Conn /\ asked \in {"none", "app"}
    BY LifecycleAssumption DEF LifecycleInv, TypeOK
  <1>2. ClosePending(c) => c.last_error = asked /\ asked # "none" /\ carried = "none"
    BY <1>1 DEF ReasonInv, RequestInv, ClosePending
  <1>3. carried # "none" => carried = asked
    BY DEF ReasonInv, CloseReasonKept
  <1>4. CASE \/ \E in \in {"data", "finished", "stream", "close"} : recv(in)
             \/ recvFatal \/ onTimeout \/ onTimeoutFatal \/ drainFatal
             \/ drainEvents \/ IdleExpires
    <2>1. /\ KeepsRequest
          /\ \/ c'.last_error = c.last_error
             \/ ~(c.last_error = "app" /\ ClosePending(c))
      BY <1>4, RequestKept
    <2>2. QED
      BY <1>1, <1>2, <1>3, <2>1 DEF KeepsRequest, ReasonInv, CloseReasonKept, ClosePending
  <1>5. ASSUME NEW err \in Codes, close(err) PROVE ReasonInv'
    <2>1. c.close_requested \/ carried = "none"
      BY <1>1 DEF RequestInv
    <2>2. QED
      BY <1>1, <1>2, <1>3, <1>5, <2>1, CloseAsks DEF ReasonInv, CloseReasonKept, ClosePending
  <1>6. CASE drainOutgoingDatagrams
    BY <1>1, <1>2, <1>3, <1>6, DrainCarries DEF ReasonInv, CloseReasonKept, ClosePending
  <1>7. QED
    BY <1>4, <1>5, <1>6 DEF Next

----------------------------------------------------------------------------
(* The inductive invariant: whatever the order of the calls, the packets   *)
(* and the failures, the flags, the log of events and the history of the   *)
(* request agree.                                                          *)
THEOREM LifecycleInvariant == Spec => []LifecycleInv
  <1>1. Init => LifecycleInv
    <2> SUFFICES ASSUME Init PROVE LifecycleInv
      OBVIOUS
    <2>1. PICK t \in FirstStates : c = NewConn(t)
      BY DEF Init
    <2>2. t \in {"initial", "handshake"} /\ log = <<>> /\ <<>> \in Seq(Event)
      BY LifecycleAssumption DEF Init
    <2>3. TypeOK
      BY <2>1, <2>2 DEF Init, TypeOK, NewConn, Conn
    <2>4. QED
      BY <2>1, <2>2, <2>3 DEF Init, LifecycleInv, NewConn, AnnouncedInv, RequestInv, ClosedOnce,
         ByPeerHonest, PeriodsNoticed, Occurs, Periods
  <1>2. LifecycleInv /\ [Next]_vars => LifecycleInv'
    <2> SUFFICES ASSUME LifecycleInv, [Next]_vars PROVE LifecycleInv'
      OBVIOUS
    <2>1. CASE UNCHANGED vars
      BY <2>1 DEF vars, LifecycleInv, TypeOK, AnnouncedInv, RequestInv, ClosedOnce,
         ByPeerHonest, PeriodsNoticed, Occurs, Periods
    <2>2. CASE Next
      <3>1. Shape
        BY <2>2, StepShape
      <3>2. TypeOK'
        BY <2>2, <3>1, AnnouncedStep, RequestStep DEF Shape, TypeOK
      <3>3. QED
        BY <2>2, <3>1, <3>2, AnnouncedStep, RequestStep DEF LifecycleInv
    <2>3. QED
      BY <2>1, <2>2
  <1>3. QED
    BY <1>1, <1>2, PTL DEF Spec

(* Every field keeps its type in every behaviour.                          *)
THEOREM LifecycleTypeCorrect == Spec => []TypeOK
  <1>1. LifecycleInv => TypeOK
    BY DEF LifecycleInv
  <1>2. QED
    BY <1>1, LifecycleInvariant, PTL

(* isClosed() and the ConnectionClosed event agree, and the event is       *)
(* pushed once, whatever the order of close(), the peer's close and the    *)
(* close packet.                                                           *)
THEOREM ClosedIsAnnouncedOnce == Spec => []ClosedOnce
  <1>1. LifecycleInv => ClosedOnce
    BY DEF LifecycleInv
  <1>2. QED
    BY <1>1, LifecycleInvariant, PTL

(* by_peer is said only of a close by the peer.                            *)
THEOREM ByPeerIsHonest == Spec => []ByPeerHonest
  <1>1. LifecycleInv => ByPeerHonest
    BY DEF LifecycleInv
  <1>2. QED
    BY <1>1, LifecycleInvariant, PTL

(* No call returns with ngtcp2 in its closing or draining period and the   *)
(* flags unset.                                                            *)
THEOREM PeriodsAreNoticed == Spec => []PeriodsNoticed
  <1>1. LifecycleInv => PeriodsNoticed
    BY DEF LifecycleInv
  <1>2. QED
    BY <1>1, LifecycleInvariant, PTL

(* The CONNECTION_CLOSE packet carries the reason given to close(), for    *)
(* applications that never close with the code zero.                       *)
THEOREM CloseReasonIsKept ==
  ASSUME "app0" \notin Codes
  PROVE  Spec => []CloseReasonKept
  <1>1. Init => ReasonInv
    <2> SUFFICES ASSUME Init PROVE ReasonInv
      OBVIOUS
    <2>1. PICK t \in FirstStates : c = NewConn(t)
      BY DEF Init
    <2>2. QED
      BY <2>1 DEF Init, ReasonInv, CloseReasonKept, ClosePending, NewConn
  <1>2. LifecycleInv /\ ReasonInv /\ [Next]_vars => ReasonInv'
    <2> SUFFICES ASSUME LifecycleInv, ReasonInv, [Next]_vars PROVE ReasonInv'
      OBVIOUS
    <2>1. CASE UNCHANGED vars
      BY <2>1 DEF vars, ReasonInv, CloseReasonKept, ClosePending
    <2>2. QED
      BY <2>1, ReasonStep
  <1>3. ReasonInv => CloseReasonKept
    BY DEF ReasonInv
  <1>4. QED
    BY <1>1, <1>2, <1>3, LifecycleInvariant, PTL DEF Spec

----------------------------------------------------------------------------
(* Lifecycle implements CloseProtocol                                      *)

Told == Select(log, EndEvents)

(* Appending is concatenating.                                             *)
LEMMA AppendTwo ==
  ASSUME NEW S, NEW q \in Seq(S), NEW d \in S, NEW e \in S
  PROVE  Append(q, d) = q \o <<d>> /\ Append(Append(q, d), e) = q \o <<d, e>>
  <1>1. Append(q, d) = q \o <<d>>
    BY AppendIsConcat
  <1>2. q \o <<d, e>> \in Seq(S) /\ Append(Append(q, d), e) \in Seq(S)
    OBVIOUS
  <1>3. Len(q \o <<d, e>>) = Len(q) + 2 /\ Len(Append(Append(q, d), e)) = Len(q) + 2
    OBVIOUS
  <1>4. \A i \in 1..(Len(q) + 2) : (q \o <<d, e>>)[i] = Append(Append(q, d), e)[i]
    OBVIOUS
  <1>5. QED
    BY <1>1, <1>2, <1>3, <1>4, SeqEqual

(* Two elements of the selected set at the end of a sequence               *)
LEMMA SelectTwo ==
  ASSUME NEW S, NEW K, NEW s \in Seq(S), NEW d \in S, NEW e \in S, d \in K, e \in K
  PROVE  /\ Select(Append(s, d), K) = Select(s, K) \o <<d>>
         /\ Select(Append(Append(s, d), e), K) = Select(s, K) \o <<d, e>>
  <1> DEFINE t == Append(s, d)
             q == Select(s, K)
  <1>1. t \in Seq(S) /\ q \in Seq(S)
    BY SelectType
  <1>2. Select(t, K) = Append(q, d)
    BY SelectAppend
  <1> HIDE DEF t, q
  <1>3. Select(Append(t, e), K) = Append(Append(q, d), e)
    <2>1. t \in Seq(S)
      BY <1>1
    <2>2. Select(Append(t, e), K) = Append(Select(t, K), e)
      BY <2>1, SelectAppend
    <2>3. QED
      BY <1>2, <2>2
  <1>4. Append(q, d) = q \o <<d>> /\ Append(Append(q, d), e) = q \o <<d, e>>
    BY <1>1, AppendTwo
  <1>5. QED
    BY <1>2, <1>3, <1>4 DEF t, q

(* What each shape of step adds to the events the application is told of   *)
LEMMA ToldStep ==
  ASSUME LifecycleInv, Shape
  PROVE  /\ Told \in Seq(Event)
         /\ Quiet => Told' = Told
         /\ ClosesLocally => Told' = Append(Told, ClosedEvent(FALSE))
         /\ PeerCloses => Told' = Told \o IF c.closed THEN <<DrainingEvent>>
                                          ELSE <<DrainingEvent, ClosedEvent(TRUE)>>
  <1>1. log \in Seq(Event) /\ Told \in Seq(Event)
    BY SelectType DEF LifecycleInv, TypeOK, Told
  <1>2. \A b \in BOOLEAN : ClosedEvent(b) \in EndEvents /\ ClosedEvent(b) \in Event
    BY DEF ClosedEvent, EndEvents, Event, EventType
  <1>3. DrainingEvent \in EndEvents /\ DrainingEvent \in Event
    BY DEF DrainingEvent, EndEvents, Event, EventType
  <1>4. ASSUME Quiet PROVE Told' = Told
    <2>1. CASE log' = log
      BY <2>1 DEF Told
    <2>2. ASSUME NEW e \in Event \ EndEvents, log' = Append(log, e) PROVE Told' = Told
      <3>1. Select(Append(log, e), EndEvents) = Select(log, EndEvents)
        BY <1>1, SelectAppend
      <3>2. QED
        BY <2>2, <3>1 DEF Told
    <2>3. QED
      BY <1>4, <2>1, <2>2 DEF Quiet
  <1>5. ASSUME ClosesLocally PROVE Told' = Append(Told, ClosedEvent(FALSE))
    <2>1. Select(Append(log, ClosedEvent(FALSE)), EndEvents)
            = Append(Select(log, EndEvents), ClosedEvent(FALSE))
      <3> DEFINE e == ClosedEvent(FALSE)
      <3>1. e \in EndEvents /\ e \in Event
        BY <1>2
      <3> HIDE DEF e
      <3>2. Select(Append(log, e), EndEvents) = Append(Select(log, EndEvents), e)
        BY <1>1, <3>1, SelectAppend
      <3>3. QED
        BY <3>2 DEF e
    <2>2. QED
      BY <1>5, <2>1 DEF ClosesLocally, Told
  <1>6. ASSUME PeerCloses
        PROVE  Told' = Told \o IF c.closed THEN <<DrainingEvent>>
                               ELSE <<DrainingEvent, ClosedEvent(TRUE)>>
    <2> DEFINE d == DrainingEvent
               e == ClosedEvent(TRUE)
    <2>1. d \in EndEvents /\ d \in Event /\ e \in EndEvents /\ e \in Event
      BY <1>2, <1>3
    <2>2. log' = IF c.closed THEN Append(log, d) ELSE Append(Append(log, d), e)
      BY <1>6 DEF PeerCloses
    <2> HIDE DEF d, e
    <2>3. /\ Select(Append(log, d), EndEvents) = Told \o <<d>>
          /\ Select(Append(Append(log, d), e), EndEvents) = Told \o <<d, e>>
      BY <1>1, <2>1, SelectTwo DEF Told
    <2>4. Told' = IF c.closed THEN Told \o <<d>> ELSE Told \o <<d, e>>
      BY <2>2, <2>3 DEF Told
    <2>5. QED
      BY <2>4 DEF d, e
  <1>7. QED
    BY <1>1, <1>4, <1>5, <1>6

(* A CONNECTION_CLOSE is written once, by a drain, for a close of our own. *)
LEMMA SentStep ==
  ASSUME LifecycleInv, Next, Shape
  PROVE  \/ carried' = carried
         \/ Quiet /\ carried = "none" /\ carried' # "none" /\ c.closed /\ ~c.draining
  <1>1. CASE drainOutgoingDatagrams /\ ClosePending(c) /\ WritesClose(c)
    <2>1. /\ carried = "none" /\ carried' = c.last_error /\ c.last_error # "none"
          /\ c.closed /\ ~c.draining /\ c'.t = "closing"
      BY <1>1, DrainCarries DEF LifecycleInv, RequestInv, AnnouncedInv, ClosePending, WritesClose
    <2>2. Quiet
      BY <2>1 DEF Shape, ClosesLocally, PeerCloses
    <2>3. QED
      BY <2>1, <2>2
  <1>2. CASE drainOutgoingDatagrams /\ ~(ClosePending(c) /\ WritesClose(c))
    BY <1>2, DrainCarries
  <1>3. CASE ~drainOutgoingDatagrams
    BY <1>3, RequestKept, CloseAsks DEF Next, KeepsRequest
  <1>4. QED
    BY <1>1, <1>2, <1>3

(* The application and the peer are told of the end as CloseProtocol says: *)
(* every step of the connection is a step of the protocol or changes       *)
(* nothing it speaks of.                                                   *)
THEOREM LifecycleImplementsClose == Spec => ImplementsClose
  <1>1. Init => Promise!Init
    <2> SUFFICES ASSUME Init PROVE Promise!Init
      OBVIOUS
    <2>1. PICK t \in FirstStates : c = NewConn(t)
      BY DEF Init
    <2>2. Select(log, EndEvents) = <<>>
      BY SelectEmpty DEF Init
    <2>3. QED
      BY <2>1, <2>2 DEF Init, Promise!Init, NewConn
  <1>2. LifecycleInv /\ [Next]_vars => [Promise!Next]_(Promise!vars)
    <2> SUFFICES ASSUME LifecycleInv, [Next]_vars PROVE [Promise!Next]_(Promise!vars)
      OBVIOUS
    <2>1. CASE UNCHANGED vars
      BY <2>1 DEF vars, Promise!vars
    <2>2. CASE Next
      <3>1. Shape /\ c \in Conn /\ c' \in Conn
        BY <2>2, StepShape DEF Shape, LifecycleInv, TypeOK
      <3>2. AnnouncedInv
        BY DEF LifecycleInv
      <3>3. CASE Quiet
        <4>1. Select(log, EndEvents)' = Select(log, EndEvents)
          BY <3>1, <3>3, ToldStep DEF Told
        <4>2. c'.closed = c.closed /\ c'.draining = c.draining
          BY <3>3 DEF Quiet
        <4>3. CASE carried' = carried
          BY <4>1, <4>2, <4>3 DEF Promise!vars
        <4>4. CASE carried = "none" /\ carried' # "none" /\ c.closed /\ ~c.draining
          BY <4>1, <4>2, <4>4 DEF Promise!Next, Promise!TellPeer
        <4>5. QED
          BY <2>2, <3>1, <4>3, <4>4, SentStep
      <3>4. CASE ClosesLocally
        <4>1. Select(log, EndEvents)' = Append(Select(log, EndEvents), ClosedEvent(FALSE))
          BY <3>1, <3>4, ToldStep DEF Told
        <4>2. carried' = carried
          BY <2>2, <3>1, <3>4, SentStep DEF ClosesLocally
        <4>3. QED
          BY <3>1, <3>4, <4>1, <4>2
             DEF ClosesLocally, Promise!Next, Promise!CloseLocally, Promise!Closed, ClosedEvent, Conn
      <3>5. CASE PeerCloses
        <4>1. Select(log, EndEvents)' = Select(log, EndEvents) \o
                IF c.closed THEN <<DrainingEvent>> ELSE <<DrainingEvent, ClosedEvent(TRUE)>>
          BY <3>1, <3>5, ToldStep DEF Told
        <4>2. carried' = carried
          BY <2>2, <3>1, <3>2, <3>5, SentStep DEF PeerCloses, Quiet
        <4>3. ~c.draining
          BY <3>2, <3>5 DEF PeerCloses, AnnouncedInv
        <4>4. QED
          BY <3>1, <3>5, <4>1, <4>2, <4>3
             DEF PeerCloses, Promise!Next, Promise!CloseByPeer, Promise!Closed,
                 Promise!Draining, ClosedEvent, DrainingEvent, Conn
      <3>6. QED
        BY <3>1, <3>3, <3>4, <3>5 DEF Shape
    <2>3. QED
      BY <2>1, <2>2
  <1>3. QED
    BY <1>1, <1>2, LifecycleInvariant, PTL DEF Spec, ImplementsClose, Promise!Spec

============================================================================
