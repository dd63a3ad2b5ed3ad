------------------------ MODULE ServerEndpointProofs ------------------------
(***************************************************************************)
(* Proofs about ServerEndpoint: its types, the order in which accepted     *)
(* connections are handed out, that a close() the endpoint forgets has     *)
(* been settled, and that the endpoint implements Acceptor.  The invariant *)
(* is EndpointInv, with RowsInv for the refinement.                        *)
(***************************************************************************)
EXTENDS ServerEndpoint, OperatorProofs, SequenceTheorems

(* The connections the rows of a table name                                *)
Rows(tbl) == {tbl[i][2] : i \in DOMAIN tbl}

(* The clean-up removes rows, of connections that are removable.           *)
LEMMA CleanedIs ==
  ASSUME NEW cs, NEW tbl \in Seq(Peers \X DOMAIN cs)
  PROVE  /\ Cleaned(tbl, cs) \in Seq(Peers \X DOMAIN cs)
         /\ \A id \in Rows(tbl) \ Rows(Cleaned(tbl, cs)) : Removable(cs[id])
  <1> DEFINE S == Peers \X DOMAIN cs
             K == {r \in S : ~Removable(cs[r[2]])}
             q == Select(tbl, K)
  <1>1. q \in Seq(S) /\ \A e : Within(q, e) <=> e \in K /\ Within(tbl, e)
    BY SelectType, SelectElements
  <1>2. q = Cleaned(tbl, cs)
    BY DEF Cleaned
  <1>3. ASSUME NEW id \in Rows(tbl), id \notin Rows(q) PROVE Removable(cs[id])
    <2>1. PICK i \in DOMAIN tbl : tbl[i][2] = id
      BY DEF Rows
    <2>2. i \in 1..Len(tbl) /\ tbl[i] \in S
      BY <2>1
    <2> HIDE DEF q
    <2>3. ~Within(q, tbl[i])
      <3>1. SUFFICES ASSUME NEW j \in 1..Len(q), q[j] = tbl[i] PROVE FALSE
        BY DEF Within
      <3>2. j \in DOMAIN q
        BY <1>1
      <3>3. QED
        BY <1>3, <2>1, <3>1, <3>2 DEF Rows
    <2>4. Within(tbl, tbl[i])
      BY <2>2 DEF Within
    <2>5. QED
      BY <1>1, <2>1, <2>2, <2>3, <2>4
  <1> HIDE DEF q
  <1>4. QED
    BY <1>1, <1>2, <1>3

(* What a call does to a connection: it stays well-formed, a peer's close  *)
(* and a settled close are final.                                          *)
Evolves(c, d) ==
  /\ d \in Conn /\ ConnOK(d)
  /\ c.t = "draining" => d.t = "draining"
  /\ c.close_packet_sent => d.close_packet_sent

(* ... and it settles no close                                             *)
Quiet(c, d) == Evolves(c, d) /\ (d.close_packet_sent => c.close_packet_sent)

(* A connection that is not called is quiet.                               *)
LEMMA QuietSame == ASSUME NEW c \in Conn, ConnOK(c) PROVE Quiet(c, c)
  BY DEF Quiet, Evolves

(* recv() settles no close; it notices the close of the peer.              *)
LEMMA RecvQuiet ==
  ASSUME NEW c \in Conn, ConnOK(c), NEW in \in Inputs(c.t) PROVE Quiet(c, Recv(c, in))
  <1> DEFINE p == ReadPkt(c, in)
  <1>1. /\ p \in Conn /\ p.close_requested = c.close_requested
        /\ p.close_packet_sent = c.close_packet_sent /\ p.closed = c.closed
        /\ IF c.t \in {"handshake", "open"} THEN p.t \in {c.t, "open", "draining"}
           ELSE p.t = c.t
    BY ReadPktKeeps
  <1>2. Recv(c, in) = SyncState(p)
    BY DEF Recv
  <1> HIDE DEF p
  <1>3. QED
    BY <1>1, <1>2, SyncStateKeeps, SyncStateType DEF Quiet, Evolves, ConnOK, Periods

(* An error of read_pkt changes the last error only.                       *)
LEMMA RecvFatalQuiet ==
  ASSUME NEW c \in Conn, ConnOK(c) PROVE Quiet(c, RecvFatal(c))
  <1>1. RecvFatal(c) \in Conn
    BY DEF RecvFatal, Conn
  <1>2. QED
    BY <1>1 DEF RecvFatal, Quiet, Evolves, ConnOK, Conn

(* handleTimers() and its failure settle no close.                         *)
LEMMA TimersQuiet ==
  ASSUME NEW c \in Conn, ConnOK(c)
  PROVE  Quiet(c, HandleTimers(c)) /\ Quiet(c, HandleTimersFatal(c))
  <1>1. Quiet(c, HandleTimers(c))
    <2>1. CASE c.closed
      BY <2>1, QuietSame DEF HandleTimers
    <2>2. CASE ~c.closed
      BY <2>2, SyncStateKeeps, SyncStateType
         DEF HandleTimers, Quiet, Evolves, ConnOK, Periods
    <2>3. QED
      BY <2>1, <2>2
  <1>2. Quiet(c, HandleTimersFatal(c))
    <2>1. [c EXCEPT !.last_error = "lib"] \in Conn
      BY DEF Conn
    <2>2. Quiet(c, [c EXCEPT !.last_error = "lib"])
      BY <2>1 DEF Quiet, Evolves, ConnOK, Conn
    <2>3. QED
      BY <2>2, QuietSame DEF HandleTimersFatal
  <1>3. QED
    BY <1>1, <1>2

(* close() asks, and settles nothing.                                      *)
LEMMA CloseQuiet ==
  ASSUME NEW c \in Conn, ConnOK(c) PROVE Quiet(c, Close(c, "app"))
  <1>1. CASE c.close_requested
    <2>1. Close(c, "app") = c
      BY <1>1 DEF Close
    <2>2. QED
      BY <2>1, QuietSame
  <1>2. CASE ~c.close_requested
    BY <1>2, CloseKeeps DEF Quiet, Evolves, ConnOK, Periods
  <1>3. QED
    BY <1>1, <1>2

(* drainEvents() touches the event queue only.                             *)
LEMMA DrainEventsQuiet ==
  ASSUME NEW c \in Conn, ConnOK(c) PROVE Quiet(c, DrainEvents(c))
  <1>1. DrainEvents(c) \in Conn
    <2>1. <<>> \in Seq(Event)
      OBVIOUS
    <2>2. [c EXCEPT !.events = <<>>] \in Conn
      BY <2>1 DEF Conn
    <2>3. QED
      BY <2>2 DEF DrainEvents
  <1>2. /\ DrainEvents(c).t = c.t /\ DrainEvents(c).closed = c.closed
        /\ DrainEvents(c).close_requested = c.close_requested
        /\ DrainEvents(c).close_packet_sent = c.close_packet_sent
    BY DEF DrainEvents, Conn
  <1>3. QED
    BY <1>1, <1>2 DEF Quiet, Evolves, ConnOK

(* drainOutgoingDatagrams() settles a close: with a packet, or because the *)
(* peer has closed.                                                        *)
LEMMA DrainEvolves ==
  ASSUME NEW c \in Conn, ConnOK(c)
  PROVE  /\ Evolves(c, DrainOutgoing(c))
         /\ DrainOutgoing(c).close_packet_sent =>
              \/ c.close_packet_sent
              \/ ClosePending(c) /\ WritesClose(c)
              \/ DrainOutgoing(c).t = "draining"
  <1>1. c.t \in {"handshake", "open"} \cup Periods
    BY DEF Conn, ConnOK
  <1> DEFINE d == DrainOutgoing(c)
  <1>2. CASE ClosePending(c)
    <2>1. /\ d \in Conn /\ d.close_requested = c.close_requested /\ d.close_packet_sent
          /\ d.closed = c.closed /\ d.t = IF WritesClose(c) THEN "closing" ELSE c.t
      BY <1>2, DrainKeeps
    <2> HIDE DEF d
    <2>2. c.close_requested /\ ~c.close_packet_sent
      BY <1>2 DEF ClosePending
    <2>3. CASE WritesClose(c)
      <3>1. d.t = "closing" /\ c.t # "draining"
        BY <2>1, <2>3 DEF WritesClose
      <3>2. d.closed
        BY <2>1, <2>2 DEF ConnOK
      <3>3. QED
        BY <1>2, <2>1, <2>2, <2>3, <3>1, <3>2
           DEF Evolves, ConnOK, d
    <2>4. CASE ~WritesClose(c)
      <3>1. c.t = "draining" /\ d.t = "draining"
        BY <1>1, <2>1, <2>2, <2>4 DEF WritesClose, ConnOK, Periods
      <3>2. QED
        BY <2>1, <2>2, <3>1 DEF Evolves, ConnOK, d
    <2>5. QED
      BY <2>3, <2>4
  <1>3. CASE ~ClosePending(c)
    <2>1. /\ d \in Conn /\ d.close_requested = c.close_requested
          /\ d.close_packet_sent = c.close_packet_sent
          /\ d.closed <=> (c.closed \/ c.t \in Periods)
          /\ d.t = c.t
      BY <1>1, <1>3, DrainKeeps DEF Periods
    <2> HIDE DEF d
    <2>2. QED
      BY <2>1 DEF Evolves, ConnOK, d
  <1>4. QED
    BY <1>2, <1>3

(* ... and its failure settles none.                                       *)
LEMMA DrainFatalQuiet ==
  ASSUME NEW c \in Conn, ConnOK(c) PROVE Quiet(c, DrainFatal(c))
  <1>1. [c EXCEPT !.last_error = "lib"] \in Conn
    BY DEF Conn
  <1>2. Quiet(c, [c EXCEPT !.last_error = "lib"])
    BY <1>1 DEF Quiet, Evolves, ConnOK, Conn
  <1>3. QED
    BY <1>2, QuietSame DEF DrainFatal
----------------------------------------------------------------------------
(* A step of the connections there are keeps the invariant when each of    *)
(* them evolves, a close that gets settled is written or lost, the table   *)
(* loses removable rows only, and no accepted connection is lost.          *)
LEMMA EndpointStep ==
  ASSUME EndpointInv,
         conns' \in [Ids -> Conn],
         \A id \in Ids : Evolves(conns[id], conns'[id]),
         \A id \in Ids : conns'[id].close_packet_sent =>
            \/ conns[id].close_packet_sent
            \/ id \in onWire' \cup discarded'
            \/ conns'[id].t = "draining",
         table' = table \/ table' = Cleaned(table, conns'),
         onWire \subseteq onWire', onWire' \subseteq Ids,
         discarded \subseteq discarded', discarded' \subseteq Ids,
         given' \in Seq(Ids), accepted' \in Seq(Ids),
         given' \o accepted' = given \o accepted, refused' = refused
  PROVE  EndpointInv'
  <1>1. /\ conns \in Seq(Conn) /\ conns' \in Seq(Conn)
        /\ Len(conns') = Len(conns) /\ DOMAIN conns' = Ids
    <2>1. conns \in Seq(Conn) /\ Len(conns) \in Nat /\ Ids = 1..Len(conns)
      BY DEF EndpointInv, TypeOK, Ids
    <2> DEFINE n == Len(conns)
    <2>2. n \in Nat /\ conns' \in [1..n -> Conn]
      BY <2>1
    <2> HIDE DEF n
    <2>3. conns' \in Seq(Conn) /\ DOMAIN conns' = 1..n
      BY <2>2, SeqDef
    <2>4. Len(conns') = n
      BY <2>2, <2>3
    <2>5. QED
      BY <2>1, <2>3, <2>4 DEF n
  <1>2. table \in Seq(Peers \X DOMAIN conns')
    BY <1>1 DEF EndpointInv, TypeOK
  <1>3. /\ table' \in Seq(Peers \X DOMAIN conns')
        /\ \A id \in Rows(table) \ Rows(table') : Removable(conns'[id])
    BY <1>2, CleanedIs
  <1>4. Managed = Rows(table) /\ Managed' = Rows(table')
    BY DEF Managed, Rows
  <1>5. Ids' = Ids
    BY <1>1 DEF Ids
  <1>6. TypeOK'
    <2>1. refused' \subseteq Peers
      BY DEF EndpointInv, TypeOK
    <2>2. QED
      BY <1>1, <1>3, <1>5, <2>1 DEF TypeOK
  <1>7. AcceptedOnce'
    BY <1>1 DEF EndpointInv, AcceptedOnce
  <1>8. ConnInv'
    BY <1>5 DEF ConnInv, Evolves
  <1>9. GoneInv'
    <2> SUFFICES ASSUME NEW id \in Ids, id \notin Managed'
                 PROVE  conns'[id].close_packet_sent \/ conns'[id].t = "draining"
      BY <1>5 DEF GoneInv
    <2>1. CASE id \notin Managed
      BY <2>1 DEF EndpointInv, GoneInv, Evolves
    <2>2. CASE id \in Managed
      <3>1. Removable(conns'[id])
        BY <1>3, <1>4, <2>2
      <3>2. ConnOK(conns'[id]) /\ conns'[id] \in Conn
        BY DEF Evolves
      <3>3. QED
        BY <3>1, <3>2 DEF Removable, ConnOK, Periods
    <2>3. QED
      BY <2>1, <2>2
  <1>10. WireInv'
    <2> SUFFICES ASSUME NEW id \in Ids, conns'[id].close_packet_sent
                 PROVE  id \in onWire' \cup discarded' \/ conns'[id].t = "draining"
      BY <1>5 DEF WireInv
    <2>1. conns[id].close_packet_sent =>
            id \in onWire \cup discarded \/ conns[id].t = "draining"
      BY DEF EndpointInv, WireInv
    <2>2. QED
      BY <2>1 DEF Evolves
  <1>11. QED
    BY <1>6, <1>7, <1>8, <1>9, <1>10 DEF EndpointInv

(* The same, for calls that settle no close and write nothing              *)
LEMMA QuietStep ==
  ASSUME EndpointInv,
         conns' \in [Ids -> Conn], \A id \in Ids : Quiet(conns[id], conns'[id]),
         table' = table \/ table' = Cleaned(table, conns'),
         UNCHANGED <<accepted, given, wire>>
  PROVE  EndpointInv'
  <1>1. /\ given \in Seq(Ids) /\ accepted \in Seq(Ids)
        /\ onWire \subseteq Ids /\ discarded \subseteq Ids
    BY DEF EndpointInv, TypeOK
  <1>2. \A id \in Ids : Evolves(conns[id], conns'[id])
                      /\ (conns'[id].close_packet_sent => conns[id].close_packet_sent)
    BY DEF Quiet
  <1>3. QED
    BY <1>1, <1>2, EndpointStep DEF wire

(* One connection changes                                                  *)
LEMMA OneChanges ==
  ASSUME EndpointInv, NEW id \in Ids, NEW d, Quiet(conns[id], d),
         conns' = [conns EXCEPT ![id] = d]
  PROVE  conns' \in [Ids -> Conn] /\ \A i \in Ids : Quiet(conns[i], conns'[i])
  <1>1. conns \in [Ids -> Conn] /\ \A i \in Ids : ConnOK(conns[i])
    BY DEF EndpointInv, TypeOK, Ids, ConnInv
  <1>2. d \in Conn
    BY DEF Quiet, Evolves
  <1>3. \A i \in Ids : Quiet(conns[i], conns[i])
    BY <1>1, QuietSame
  <1>4. \A i \in Ids : conns'[i] = IF i = id THEN d ELSE conns[i]
    BY <1>1
  <1>5. QED
    BY <1>1, <1>2, <1>3, <1>4

----------------------------------------------------------------------------
(* recv() of a datagram with a route is quiet.                             *)
LEMMA RecvKnownStep ==
  ASSUME EndpointInv, NEW p \in Peers, RecvKnown(p) PROVE EndpointInv'
  <1>1. PICK id \in Route(p) :
          /\ \/ \E in \in Inputs(conns[id].t) : conns' = [conns EXCEPT ![id] = Recv(@, in)]
             \/ conns' = [conns EXCEPT ![id] = RecvFatal(@)]
          /\ table' = Cleaned(table, conns')
          /\ UNCHANGED <<accepted, given, wire>>
    BY DEF RecvKnown
  <1>2. id \in Ids
    BY DEF Route, EndpointInv, TypeOK
  <1>3. conns[id] \in Conn /\ ConnOK(conns[id])
    BY <1>2 DEF EndpointInv, TypeOK, ConnInv, Ids
  <1>4. PICK d : conns' = [conns EXCEPT ![id] = d] /\ Quiet(conns[id], d)
    <2>1. CASE conns' = [conns EXCEPT ![id] = RecvFatal(@)]
      BY <1>3, <2>1, RecvFatalQuiet
    <2>2. CASE \E in \in Inputs(conns[id].t) : conns' = [conns EXCEPT ![id] = Recv(@, in)]
      BY <1>3, <2>2, RecvQuiet
    <2>3. QED
      BY <1>1, <2>1, <2>2
  <1>5. conns' \in [Ids -> Conn] /\ \A i \in Ids : Quiet(conns[i], conns'[i])
    BY <1>2, <1>4, OneChanges
  <1>6. QED
    BY <1>1, <1>5, QuietStep

(* So is drainEvents().                                                    *)
LEMMA DrainEventsStep ==
  ASSUME EndpointInv, drainEvents PROVE EndpointInv'
  <1>1. \A id \in Ids : conns[id] \in Conn /\ ConnOK(conns[id])
    BY DEF EndpointInv, TypeOK, ConnInv, Ids
  <1>2. \A id \in Ids : Quiet(conns[id], conns[id]) /\ Quiet(conns[id], DrainEvents(conns[id]))
    BY <1>1, QuietSame, DrainEventsQuiet
  <1>3. /\ conns' = [id \in Ids |-> IF id \notin Called(Len(table)) THEN conns[id]
                                  ELSE DrainEvents(conns[id])]
        /\ table' = table \/ table' = Cleaned(table, conns')
        /\ UNCHANGED <<accepted, given, wire>>
    BY DEF drainEvents, SweepTo
  <1>4. \A id \in Ids : Quiet(conns[id], conns'[id])
    BY <1>2, <1>3
  <1>5. conns' \in [Ids -> Conn]
    BY <1>3, <1>4 DEF Quiet, Evolves
  <1>6. QED
    BY <1>3, <1>4, <1>5, QuietStep

(* So is handleTimers(), also when the call of a row throws.               *)
LEMMA HandleTimersStep ==
  ASSUME EndpointInv, handleTimers PROVE EndpointInv'
  <1>1. \A id \in Ids : conns[id] \in Conn /\ ConnOK(conns[id])
    BY DEF EndpointInv, TypeOK, ConnInv, Ids
  <1>2. \A id \in Ids : /\ Quiet(conns[id], conns[id])
                      /\ Quiet(conns[id], HandleTimers(conns[id]))
                      /\ Quiet(conns[id], HandleTimersFatal(conns[id]))
    BY <1>1, QuietSame, TimersQuiet
  <1>3. /\ conns' = [id \in Ids |-> conns'[id]]
        /\ \A id \in Ids : conns'[id] \in
             {conns[id], HandleTimers(conns[id]), HandleTimersFatal(conns[id])}
        /\ table' = table \/ table' = Cleaned(table, conns')
    <2>1. CASE SweepTo(Len(table), FALSE, HandleTimers, HandleTimersFatal)
      BY <2>1 DEF SweepTo
    <2>2. CASE \E n \in DOMAIN table : SweepTo(n, TRUE, HandleTimers, HandleTimersFatal)
      BY <2>2 DEF SweepTo
    <2>3. QED
      BY <2>1, <2>2 DEF handleTimers
  <1>5. \A id \in Ids : Quiet(conns[id], conns'[id])
    BY <1>2, <1>3
  <1>6. conns' \in [Ids -> Conn]
    BY <1>3, <1>5 DEF Quiet, Evolves
  <1>7. UNCHANGED <<accepted, given, wire>>
    BY DEF handleTimers
  <1>8. QED
    BY <1>3, <1>5, <1>6, <1>7, QuietStep

(* drainOutgoingDatagrams() settles the closes of the table; what it wrote *)
(* reaches the caller.                                                     *)
LEMMA DrainOutgoingStep ==
  ASSUME EndpointInv, drainOutgoingDatagrams PROVE EndpointInv'
  <1>1. \A id \in Ids : conns[id] \in Conn /\ ConnOK(conns[id])
    BY DEF EndpointInv, TypeOK, ConnInv, Ids
  <1>2. /\ conns' = [id \in Ids |-> IF id \notin Called(Len(table)) THEN conns[id]
                                  ELSE DrainOutgoing(conns[id])]
        /\ table' = table \/ table' = Cleaned(table, conns')
        /\ onWire' = onWire \cup CloseWritten(Managed)
        /\ UNCHANGED <<accepted, given, discarded, refused>>
    BY DEF drainOutgoingDatagrams, SweepTo
  <1>3. Called(Len(table)) = Managed /\ Managed \subseteq Ids
    <2>1. table \in Seq(Peers \X Ids)
      BY DEF EndpointInv, TypeOK
    <2>2. QED
      BY <2>1 DEF Called, Managed
  <1>4. \A id \in Ids : Evolves(conns[id], conns'[id])
    <2>1. \A id \in Ids : /\ Evolves(conns[id], conns[id])
                        /\ Evolves(conns[id], DrainOutgoing(conns[id]))
      BY <1>1, QuietSame, DrainEvolves DEF Quiet
    <2>2. QED
      BY <1>2, <2>1
  <1>5. conns' \in [Ids -> Conn]
    BY <1>2, <1>4 DEF Evolves
  <1>6. ASSUME NEW id \in Ids, conns'[id].close_packet_sent
        PROVE  \/ conns[id].close_packet_sent
               \/ id \in onWire' \cup discarded'
               \/ conns'[id].t = "draining"
    <2>1. CASE id \notin Managed
      BY <1>2, <1>3, <1>6, <2>1
    <2>2. CASE id \in Managed
      <3>1. conns'[id] = DrainOutgoing(conns[id])
        BY <1>2, <1>3, <2>2
      <3>2. \/ conns[id].close_packet_sent
            \/ ClosePending(conns[id]) /\ WritesClose(conns[id])
            \/ conns'[id].t = "draining"
        BY <1>1, <1>6, <3>1, DrainEvolves
      <3>3. QED
        BY <1>2, <2>2, <3>2 DEF CloseWritten
    <2>3. QED
      BY <2>1, <2>2
  <1>7. onWire \subseteq onWire' /\ onWire' \subseteq Ids /\ discarded' = discarded
        /\ discarded \subseteq Ids
    BY <1>2, <1>3 DEF EndpointInv, TypeOK, CloseWritten
  <1>8. /\ given' \in Seq(Ids) /\ accepted' \in Seq(Ids)
        /\ given' \o accepted' = given \o accepted
    BY <1>2 DEF EndpointInv, TypeOK
  <1>9. QED
    BY <1>2, <1>4, <1>5, <1>6, <1>7, <1>8, EndpointStep

(* When the call of a row throws, the packets of the rows before it are    *)
(* lost.                                                                   *)
LEMMA DrainThrowsStep ==
  ASSUME EndpointInv, drainThrows PROVE EndpointInv'
  <1>1. \A id \in Ids : conns[id] \in Conn /\ ConnOK(conns[id])
    BY DEF EndpointInv, TypeOK, ConnInv, Ids
  <1>2. PICK n \in DOMAIN table :
          /\ conns' = [id \in Ids |->
                         IF id \notin Called(n) THEN conns[id]
                         ELSE IF id = table[n][2] THEN DrainFatal(conns[id])
                         ELSE DrainOutgoing(conns[id])]
          /\ table' = table \/ table' = Cleaned(table, conns')
          /\ discarded' = discarded \cup CloseWritten(Called(n - 1))
          /\ UNCHANGED <<accepted, given, onWire, refused>>
    BY DEF drainThrows, SweepTo
  <1>3. table \in Seq(Peers \X Ids) /\ n \in 1..Len(table)
    BY DEF EndpointInv, TypeOK
  <1>4. /\ Called(n - 1) \subseteq Ids
        /\ \A id \in Called(n) : id = table[n][2] \/ id \in Called(n - 1)
    <2>1. Len(table) \in Nat /\ \A i \in 1..Len(table) : table[i][2] \in Ids
      BY <1>3
    <2>2. \A i \in 1..(n - 1) : i \in 1..Len(table)
      BY <1>3, <2>1
    <2>3. \A i \in 1..n : i = n \/ i \in 1..(n - 1)
      BY <1>3
    <2>4. QED
      BY <2>1, <2>2, <2>3 DEF Called
  <1>5. \A id \in Ids : Evolves(conns[id], conns'[id])
    <2>1. \A id \in Ids : /\ Evolves(conns[id], conns[id])
                        /\ Evolves(conns[id], DrainFatal(conns[id]))
                        /\ Evolves(conns[id], DrainOutgoing(conns[id]))
      BY <1>1, QuietSame, DrainEvolves, DrainFatalQuiet DEF Quiet
    <2>2. QED
      BY <1>2, <2>1
  <1>6. conns' \in [Ids -> Conn]
    BY <1>2, <1>5 DEF Evolves
  <1>7. ASSUME NEW id \in Ids, conns'[id].close_packet_sent
        PROVE  \/ conns[id].close_packet_sent
               \/ id \in onWire' \cup discarded'
               \/ conns'[id].t = "draining"
    <2>1. CASE id \notin Called(n)
      BY <1>2, <1>7, <2>1
    <2>2. CASE id \in Called(n) /\ id = table[n][2]
      <3>1. conns'[id] = DrainFatal(conns[id])
        BY <1>2, <2>2
      <3>2. QED
        BY <1>1, <1>7, <3>1, DrainFatalQuiet DEF Quiet
    <2>3. CASE id \in Called(n) /\ id # table[n][2]
      <3>1. conns'[id] = DrainOutgoing(conns[id]) /\ id \in Called(n - 1)
        BY <1>2, <1>4, <2>3
      <3>2. \/ conns[id].close_packet_sent
            \/ ClosePending(conns[id]) /\ WritesClose(conns[id])
            \/ conns'[id].t = "draining"
        BY <1>1, <1>7, <3>1, DrainEvolves
      <3>3. QED
        BY <1>2, <3>1, <3>2 DEF CloseWritten
    <2>4. QED
      BY <2>1, <2>2, <2>3
  <1>8. discarded \subseteq discarded' /\ discarded' \subseteq Ids /\ onWire' = onWire
        /\ onWire \subseteq Ids
    BY <1>2, <1>4 DEF EndpointInv, TypeOK, CloseWritten
  <1>9. /\ given' \in Seq(Ids) /\ accepted' \in Seq(Ids)
        /\ given' \o accepted' = given \o accepted
    BY <1>2 DEF EndpointInv, TypeOK
  <1>10. QED
    BY <1>2, <1>5, <1>6, <1>7, <1>8, <1>9, EndpointStep

(* What was handed out is only moved from the queue to the caller.         *)
LEMMA DrainAcceptedStep ==
  ASSUME EndpointInv, drainAcceptedConnections PROVE EndpointInv'
  <1>1. \A id \in Ids : conns[id] \in Conn /\ ConnOK(conns[id])
    BY DEF EndpointInv, TypeOK, ConnInv, Ids
  <1>2. given \in Seq(Ids) /\ accepted \in Seq(Ids) /\ conns \in [Ids -> Conn]
    BY DEF EndpointInv, TypeOK, Ids
  <1>3. /\ given' = given \o accepted /\ accepted' = <<>>
        /\ conns' = conns /\ table' = table
        /\ onWire' = onWire /\ discarded' = discarded /\ refused' = refused
    BY DEF drainAcceptedConnections, QueueAfterDrain, wire
  <1>4. /\ given' \in Seq(Ids) /\ accepted' \in Seq(Ids)
        /\ given' \o accepted' = given \o accepted
    <2> DEFINE g == given \o accepted
    <2>1. g \in Seq(Ids) /\ <<>> \in Seq(Ids)
      BY <1>2, ConcatProperties
    <2> HIDE DEF g
    <2>2. g \o <<>> = g
      BY <2>1, ConcatEmptySeq
    <2>3. QED
      BY <1>3, <2>1, <2>2 DEF g
  <1>5. \A id \in Ids : Evolves(conns[id], conns'[id])
    BY <1>1, <1>3, QuietSame DEF Quiet
  <1>6. onWire \subseteq Ids /\ discarded \subseteq Ids
    BY DEF EndpointInv, TypeOK
  <1>7. QED
    BY <1>2, <1>3, <1>4, <1>5, <1>6, EndpointStep

(* The application on a connection it holds                                *)
LEMMA AppStep ==
  ASSUME EndpointInv, NEW id \in Ids,
         AppClose(id) \/ AppDrainOutgoing(id) \/ AppDrainEvents(id)
  PROVE  EndpointInv'
  <1>1. /\ \A i \in Ids : conns[i] \in Conn /\ ConnOK(conns[i])
        /\ conns \in [Ids -> Conn]
    BY DEF EndpointInv, TypeOK, ConnInv, Ids
  <1>2. CASE AppClose(id)
    <2> DEFINE d == Close(conns[id], "app")
    <2>1. Quiet(conns[id], d)
      BY <1>1, CloseQuiet
    <2>2. /\ conns' = [conns EXCEPT ![id] = d] /\ table' = table
          /\ UNCHANGED <<accepted, given, wire>>
      BY <1>2 DEF AppClose
    <2> HIDE DEF d
    <2>3. conns' \in [Ids -> Conn] /\ \A i \in Ids : Quiet(conns[i], conns'[i])
      BY <2>1, <2>2, OneChanges
    <2>4. QED
      BY <2>2, <2>3, QuietStep
  <1>3. CASE AppDrainEvents(id)
    <2> DEFINE d == DrainEvents(conns[id])
    <2>1. Quiet(conns[id], d)
      BY <1>1, DrainEventsQuiet
    <2>2. /\ conns' = [conns EXCEPT ![id] = d] /\ table' = table
          /\ UNCHANGED <<accepted, given, wire>>
      BY <1>3 DEF AppDrainEvents
    <2> HIDE DEF d
    <2>3. conns' \in [Ids -> Conn] /\ \A i \in Ids : Quiet(conns[i], conns'[i])
      BY <2>1, <2>2, OneChanges
    <2>4. QED
      BY <2>2, <2>3, QuietStep
  <1>4. CASE AppDrainOutgoing(id)
    <2> DEFINE d == DrainOutgoing(conns[id])
    <2>1. /\ Evolves(conns[id], d)
          /\ d.close_packet_sent =>
               \/ conns[id].close_packet_sent
               \/ ClosePending(conns[id]) /\ WritesClose(conns[id])
               \/ d.t = "draining"
      BY <1>1, DrainEvolves
    <2>2. /\ conns' = [conns EXCEPT ![id] = d] /\ table' = table
          /\ onWire' = onWire \cup CloseWritten({id})
          /\ UNCHANGED <<accepted, given, discarded, refused>>
      BY <1>4 DEF AppDrainOutgoing
    <2> HIDE DEF d
    <2>3. \A i \in Ids : conns'[i] = IF i = id THEN d ELSE conns[i]
      BY <1>1, <2>2
    <2>4. \A i \in Ids : Evolves(conns[i], conns'[i])
      BY <1>1, <2>1, <2>3, QuietSame DEF Quiet
    <2>5. conns' \in [Ids -> Conn]
      BY <1>1, <2>1, <2>2 DEF Evolves
    <2>6. ASSUME NEW i \in Ids, conns'[i].close_packet_sent
          PROVE  \/ conns[i].close_packet_sent
                 \/ i \in onWire' \cup discarded'
                 \/ conns'[i].t = "draining"
      <3>1. CASE i # id
        BY <2>3, <2>6, <3>1
      <3>2. CASE i = id
        BY <2>1, <2>2, <2>3, <2>6, <3>2 DEF CloseWritten
      <3>3. QED
        BY <3>1, <3>2
    <2>7. onWire \subseteq onWire' /\ onWire' \subseteq Ids /\ discarded' = discarded
          /\ discarded \subseteq Ids
      BY <2>2 DEF EndpointInv, TypeOK, CloseWritten
    <2>8. /\ given' \in Seq(Ids) /\ accepted' \in Seq(Ids)
          /\ given' \o accepted' = given \o accepted
      BY <2>2 DEF EndpointInv, TypeOK
    <2>9. QED
      BY <2>2, <2>4, <2>5, <2>6, <2>7, <2>8, EndpointStep
  <1>5. QED
    BY <1>2, <1>3, <1>4

(* An element appended to the second of two sequences                      *)
LEMMA ConcatAppend ==
  ASSUME NEW S, NEW q \in Seq(S), NEW r \in Seq(S), NEW e \in S
  PROVE  q \o Append(r, e) = Append(q \o r, e)
  <1>1. Append(r, e) = r \o <<e>> /\ Append(q \o r, e) = (q \o r) \o <<e>>
    BY ConcatProperties, AppendIsConcat
  <1>2. <<e>> \in Seq(S)
    OBVIOUS
  <1>3. QED
    BY <1>1, <1>2, ConcatAssociative

(* recv() of a datagram without a route adds a connection and its row.     *)
LEMMA RecvNewStep ==
  ASSUME EndpointInv, NEW p \in Peers, RecvNew(p) PROVE EndpointInv'
  <1> DEFINE n   == Len(conns)
             row == <<p, n + 1>>
             tbl == Append(table, row)
  <1>1. /\ conns \in Seq(Conn) /\ n \in Nat /\ Ids = 1..n /\ conns \in [Ids -> Conn]
        /\ table \in Seq(Peers \X Ids) /\ given \in Seq(Ids) /\ accepted \in Seq(Ids)
        /\ onWire \subseteq Ids /\ discarded \subseteq Ids /\ refused \subseteq Peers
    BY DEF EndpointInv, TypeOK, Ids
  <1>2. /\ conns' = Append(conns, AcceptedConn)
        /\ table' = Cleaned(tbl, conns')
        /\ accepted' = Append(accepted, n + 1)
        /\ given' = given /\ onWire' = onWire /\ discarded' = discarded
        /\ refused' = refused
    BY DEF RecvNew, wire
  <1>3. AcceptedConn \in Conn /\ ConnOK(AcceptedConn) /\ ~Removable(AcceptedConn)
    <2>1. <<>> \in Seq(Event)
      OBVIOUS
    <2>2. QED
      BY <2>1 DEF AcceptedConn, NewConn, Conn, ConnOK, Removable, Periods
  <1> HIDE DEF n
  <1>4. /\ conns' \in Seq(Conn) /\ Len(conns') = n + 1 /\ DOMAIN conns' = 1..(n + 1)
        /\ conns'[n + 1] = AcceptedConn
        /\ \A i \in Ids : conns'[i] = conns[i]
    <2>1. /\ conns' \in Seq(Conn) /\ Len(conns') = n + 1
          /\ \A i \in 1..n : conns'[i] = conns[i]
      BY <1>1, <1>2, <1>3, AppendProperties DEF n
    <2>2. conns'[n + 1] = AcceptedConn
      BY <1>1, <1>2, <1>3 DEF n
    <2>3. QED
      BY <1>1, <2>1, <2>2
  <1>5. /\ Ids' = 1..(n + 1) /\ Ids \subseteq Ids' /\ n + 1 \in Ids'
        /\ \A i \in Ids' : i \in Ids \/ i = n + 1
    <2>1. Ids' = 1..(n + 1)
      BY <1>4 DEF Ids
    <2>2. QED
      BY <1>1, <2>1
  <1>6. tbl \in Seq(Peers \X Ids')
    <2>1. table \in Seq(Peers \X Ids') /\ row \in Peers \X Ids'
      <3>1. Peers \X Ids \subseteq Peers \X Ids'
        BY <1>5
      <3>2. QED
        BY <1>1, <1>5, <3>1
    <2> HIDE DEF row
    <2>2. QED
      BY <2>1
  <1>7. /\ table' \in Seq(Peers \X Ids')
        /\ \A id \in Rows(tbl) \ Rows(table') : Removable(conns'[id])
    <2>1. Ids' = DOMAIN conns'
      BY DEF Ids
    <2> HIDE DEF tbl
    <2>2. QED
      BY <1>2, <1>6, <2>1, CleanedIs
  <1>8. Managed \cup {n + 1} \subseteq Rows(tbl) /\ Managed' = Rows(table')
    <2>1. /\ DOMAIN table = 1..Len(table) /\ Len(table) \in Nat
          /\ DOMAIN tbl = 1..(Len(table) + 1) /\ tbl[Len(table) + 1] = row
          /\ \A i \in 1..Len(table) : tbl[i] = table[i]
      BY <1>1, <1>6
    <2>2. row[2] = n + 1
      OBVIOUS
    <2> HIDE DEF tbl, row
    <2>3. n + 1 \in Rows(tbl)
      BY <2>1, <2>2 DEF Rows
    <2>4. Managed \subseteq Rows(tbl)
      BY <2>1 DEF Rows, Managed
    <2>5. QED
      BY <2>3, <2>4 DEF Managed, Rows
  <1> HIDE DEF tbl, row
  <1>9. TypeOK'
    <2>1. given' \in Seq(Ids') /\ accepted \in Seq(Ids')
      BY <1>1, <1>2, <1>5
    <2>2. accepted' \in Seq(Ids')
      BY <1>2, <1>5, <2>1, AppendProperties
    <2>3. QED
      BY <1>1, <1>2, <1>4, <1>5, <1>7, <2>1, <2>2 DEF TypeOK
  <1>10. AcceptedOnce'
    <2> DEFINE g == given \o accepted
               h == given \o Append(accepted, n + 1)
    <2>1. /\ g = [i \in 1..n |-> i] /\ g \in Seq(Ids')
          /\ given \in Seq(Ids') /\ accepted \in Seq(Ids')
      <3>1. given \in Seq(Ids') /\ accepted \in Seq(Ids')
        BY <1>1, <1>5
      <3>2. g = [i \in 1..n |-> i]
        BY DEF EndpointInv, AcceptedOnce, n
      <3>3. QED
        BY <3>1, <3>2, ConcatProperties
    <2> DEFINE m == n + 1
    <2>2. h = Append(g, n + 1)
      <3>1. given \in Seq(Ids') /\ accepted \in Seq(Ids') /\ m \in Ids'
        BY <1>5, <2>1
      <3> HIDE DEF m
      <3>2. given \o Append(accepted, m) = Append(given \o accepted, m)
        BY <3>1, ConcatAppend
      <3>3. QED
        BY <3>2 DEF m
    <2> HIDE DEF h
    <2>3. Len(g) = n /\ \A i \in 1..n : g[i] = i
      BY <1>1, <2>1
    <2> HIDE DEF g
    <2>4. Append(g, n + 1) = [i \in 1..(n + 1) |-> i]
      BY <1>1, <1>5, <2>1, <2>3
    <2>5. QED
      BY <1>2, <1>4, <2>2, <2>4 DEF AcceptedOnce, h
  <1>11. ConnInv'
    BY <1>3, <1>4, <1>5 DEF EndpointInv, ConnInv
  <1>12. GoneInv'
    <2> SUFFICES ASSUME NEW id \in Ids', id \notin Managed'
                 PROVE  conns'[id].close_packet_sent \/ conns'[id].t = "draining"
      BY DEF GoneInv
    <2>1. CASE id \in Ids /\ id \notin Managed
      BY <1>4, <2>1 DEF EndpointInv, GoneInv
    <2>2. CASE id = n + 1 \/ id \in Managed
      <3>1. Removable(conns'[id]) /\ ConnOK(conns'[id])
        BY <1>5, <1>7, <1>8, <1>11, <2>2 DEF ConnInv
      <3>2. QED
        BY <3>1 DEF Removable, ConnOK, Periods
    <2>3. QED
      BY <1>5, <2>1, <2>2
  <1>13. WireInv'
    <2>1. ~AcceptedConn.close_packet_sent
      BY DEF AcceptedConn, NewConn
    <2>2. QED
      BY <1>2, <1>4, <1>5, <2>1 DEF EndpointInv, WireInv
  <1>14. QED
    BY <1>9, <1>10, <1>11, <1>12, <1>13 DEF EndpointInv

(* A datagram that does not reach accept() changes nothing else.           *)
LEMMA RecvRefusedStep ==
  ASSUME EndpointInv, NEW p \in Peers, RecvRefused(p) PROVE EndpointInv'
  <1>1. /\ conns' = conns /\ table' = table /\ accepted' = accepted
        /\ given' = given /\ onWire' = onWire /\ discarded' = discarded
        /\ refused' = refused \cup {p}
    BY DEF RecvRefused
  <1>2. QED
    BY <1>1 DEF EndpointInv, TypeOK, AcceptedOnce, ConnInv, GoneInv, WireInv, Ids, Managed

----------------------------------------------------------------------------
(* EndpointInv is an invariant.                                            *)
THEOREM EndpointInvariant == Spec => []EndpointInv
  <1>1. Init => EndpointInv
    <2> SUFFICES ASSUME Init PROVE EndpointInv
      OBVIOUS
    <2>1. Ids = {} /\ Managed = {} /\ Len(conns) = 0 /\ Len(<<>>) = 0
      BY DEF Init, Ids, Managed
    <2>2. TypeOK
      BY DEF Init, TypeOK
    <2>3. AcceptedOnce
      BY <2>1, ConcatEmptySeq DEF Init, AcceptedOnce
    <2>4. QED
      BY <2>1, <2>2, <2>3 DEF EndpointInv, ConnInv, GoneInv, WireInv
  <1>2. EndpointInv /\ [Next]_vars => EndpointInv'
    <2> SUFFICES ASSUME EndpointInv, [Next]_vars PROVE EndpointInv'
      OBVIOUS
    <2>1. CASE UNCHANGED vars
      <3>1. /\ conns' = conns /\ table' = table /\ accepted' = accepted
            /\ given' = given /\ onWire' = onWire /\ discarded' = discarded
            /\ refused' = refused
        BY <2>1 DEF vars, wire
      <3>2. QED
        BY <3>1 DEF EndpointInv, TypeOK, AcceptedOnce, ConnInv, GoneInv, WireInv,
                    Ids, Managed
    <2>2. CASE Next
      BY <2>2, RecvKnownStep, RecvNewStep, RecvRefusedStep, HandleTimersStep, DrainOutgoingStep,
         DrainThrowsStep, DrainEventsStep, DrainAcceptedStep, AppStep DEF Next
    <2>3. QED
      BY <2>1, <2>2
  <1>3. QED
    BY <1>1, <1>2, PTL DEF Spec

(* Every row of the table names a connection object that exists, and every *)
(* connection keeps its types.                                             *)
THEOREM EndpointTypeCorrect == Spec => []TypeOK
  <1>1. EndpointInv => TypeOK
    BY DEF EndpointInv
  <1>2. QED
    BY <1>1, EndpointInvariant, PTL

(* drainAcceptedConnections() hands out every accepted connection once, in *)
(* the order of acceptance.                                                *)
THEOREM AcceptedAreHandedOutOnce == Spec => []AcceptedOnce
  <1>1. EndpointInv => AcceptedOnce
    BY DEF EndpointInv
  <1>2. QED
    BY <1>1, EndpointInvariant, PTL

(* A connection that close() was called on leaves the table only after its *)
(* CONNECTION_CLOSE was written, to the caller or into an array that an    *)
(* exception threw away, unless the peer closed first.                     *)
THEOREM CloseIsWrittenBeforeCleanup == Spec => []CloseFrameReturned
  <1>1. EndpointInv => CloseFrameReturned
    BY DEF EndpointInv, GoneInv, WireInv, CloseFrameReturned
  <1>2. QED
    BY <1>1, EndpointInvariant, PTL

(***************************************************************************)
(* ServerEndpoint implements Acceptor                                      *)
(***************************************************************************)

(* A table has one row for a peer and one row for a connection.            *)
Apart(tbl) ==
  \A i, j \in DOMAIN tbl :
    tbl[i][1] = tbl[j][1] \/ tbl[i][2] = tbl[j][2] => i = j

(* The clean-up leaves a table with some of the rows, apart if they were.  *)
LEMMA CleanedRows ==
  ASSUME NEW cs, NEW tbl \in Seq(Peers \X DOMAIN cs), Apart(tbl)
  PROVE  /\ Apart(Cleaned(tbl, cs))
         /\ \A i \in DOMAIN Cleaned(tbl, cs) :
              \E j \in DOMAIN tbl : tbl[j] = Cleaned(tbl, cs)[i]
         /\ \A j \in DOMAIN tbl : ~Removable(cs[tbl[j][2]]) =>
              \E i \in DOMAIN Cleaned(tbl, cs) : tbl[j] = Cleaned(tbl, cs)[i]
  <1> DEFINE S == Peers \X DOMAIN cs
             K == {r \in S : ~Removable(cs[r[2]])}
             R == {rr \in S \X S : rr[1][1] # rr[2][1] /\ rr[1][2] # rr[2][2]}
             q == Select(tbl, K)
  <1>1. q \in Seq(S) /\ q = Cleaned(tbl, cs)
    BY SelectType DEF Cleaned
  <1>2. \A e : Within(q, e) <=> e \in K /\ Within(tbl, e)
    BY SelectElements
  <1>3. \A i \in 1..Len(tbl) : tbl[i] \in S
    OBVIOUS
  <1>4. Pairwise(tbl, R)
    <2> SUFFICES ASSUME NEW i \in 1..Len(tbl), NEW j \in 1..Len(tbl), i # j
                 PROVE  <<tbl[i], tbl[j]>> \in R
      BY DEF Pairwise
    <2>1. tbl[i][1] # tbl[j][1] /\ tbl[i][2] # tbl[j][2]
      BY DEF Apart
    <2>2. QED
      BY <1>3, <2>1
  <1> HIDE DEF q
  <1>5. Pairwise(q, R)
    <2> HIDE DEF R, K, S
    <2>1. QED
      BY <1>4, SelectPairwise DEF q, S
  <1>6. /\ DOMAIN q = 1..Len(q) /\ DOMAIN tbl = 1..Len(tbl)
    BY <1>1
  <1>7. Apart(q)
    <2> SUFFICES ASSUME NEW i \in 1..Len(q), NEW j \in 1..Len(q), i # j
                 PROVE  q[i][1] # q[j][1] /\ q[i][2] # q[j][2]
      BY <1>6 DEF Apart
    <2>1. <<q[i], q[j]>> \in R
      BY <1>5 DEF Pairwise
    <2>2. QED
      BY <2>1
  <1>8. \A i \in DOMAIN q : \E j \in DOMAIN tbl : tbl[j] = q[i]
    <2> SUFFICES ASSUME NEW i \in 1..Len(q) PROVE \E j \in 1..Len(tbl) : tbl[j] = q[i]
      BY <1>6
    <2>1. Within(q, q[i])
      BY DEF Within
    <2>2. QED
      BY <1>2, <2>1 DEF Within
  <1>9. ASSUME NEW j \in DOMAIN tbl, ~Removable(cs[tbl[j][2]])
        PROVE  \E i \in DOMAIN q : tbl[j] = q[i]
    <2>1. Within(tbl, tbl[j]) /\ tbl[j] \in K
      BY <1>3, <1>6, <1>9 DEF Within
    <2>2. Within(q, tbl[j])
      BY <1>2, <2>1
    <2>3. QED
      BY <1>6, <2>2 DEF Within
  <1>10. QED
    BY <1>1, <1>7, <1>8, <1>9

(* A row for a peer without a route, and for a connection with a new       *)
(* number, is apart from the others.                                       *)
LEMMA AppendedApart ==
  ASSUME NEW p \in Peers, Route(p) = {}, NEW n \in Nat, Ids = 1..n,
         table \in Seq(Peers \X Ids), Apart(table)
  PROVE  Apart(Append(table, <<p, n + 1>>))
  <1> DEFINE row == <<p, n + 1>>
             tbl == Append(table, row)
  <1>1. /\ DOMAIN tbl = 1..(Len(table) + 1) /\ tbl[Len(table) + 1] = row
        /\ \A i \in 1..Len(table) : tbl[i] = table[i] /\ i \in DOMAIN table
        /\ Len(table) \in Nat
    OBVIOUS
  <1>2. ASSUME NEW i \in DOMAIN table PROVE table[i][1] # p /\ table[i][2] # n + 1
    <2>1. ASSUME table[i][1] = p PROVE table[i][2] \in Route(p)
      BY <2>1 DEF Route
    <2>2. table[i] \in Peers \X Ids
      OBVIOUS
    <2>3. table[i][2] # n + 1
      BY <2>2
    <2>4. QED
      BY <2>1, <2>3
  <1>3. row[1] = p /\ row[2] = n + 1
    OBVIOUS
  <1> HIDE DEF tbl, row
  <1>4. Apart(tbl)
    <2> SUFFICES ASSUME NEW i \in DOMAIN tbl, NEW j \in DOMAIN tbl, i # j
                 PROVE  tbl[i][1] # tbl[j][1] /\ tbl[i][2] # tbl[j][2]
      BY DEF Apart
    <2>1. (i \in 1..Len(table) \/ i = Len(table) + 1)
          /\ (j \in 1..Len(table) \/ j = Len(table) + 1)
      BY <1>1
    <2>2. CASE i \in 1..Len(table) /\ j \in 1..Len(table)
      BY <1>1, <2>2 DEF Apart
    <2>3. CASE i \in 1..Len(table) /\ j = Len(table) + 1
      BY <1>1, <1>2, <1>3, <2>3
    <2>4. CASE i = Len(table) + 1 /\ j \in 1..Len(table)
      BY <1>1, <1>2, <1>3, <2>4
    <2>5. QED
      BY <2>1, <2>2, <2>3, <2>4
  <1>5. QED
    BY <1>4 DEF tbl, row

(* Rows stay apart, also the row of a connection that recv() accepts from  *)
(* a peer without a route.                                                 *)
THEOREM RowsInvariant == Spec => []RowsInv
  <1>1. Init => RowsInv
    BY DEF Init, RowsInv
  <1>2. EndpointInv /\ EndpointInv' /\ RowsInv /\ [Next]_vars => RowsInv'
    <2> SUFFICES ASSUME EndpointInv, EndpointInv', RowsInv, [Next]_vars PROVE RowsInv'
      OBVIOUS
    <2>1. Apart(table) /\ (Apart(table') => RowsInv')
      BY DEF RowsInv, Apart
    <2>2. ASSUME DOMAIN conns' = Ids, table' = table \/ table' = Cleaned(table, conns')
          PROVE  RowsInv'
      <3>1. table \in Seq(Peers \X DOMAIN conns')
        BY <2>2 DEF EndpointInv, TypeOK
      <3>2. QED
        BY <2>1, <2>2, <3>1, CleanedRows
    <2>3. conns \in [Ids -> Conn]
      BY DEF EndpointInv, TypeOK, Ids
    <2>4. ASSUME NEW p \in Peers, RecvKnown(p) PROVE RowsInv'
      BY <2>2, <2>3, <2>4 DEF RecvKnown
    <2>5. ASSUME NEW p \in Peers, RecvNew(p) PROVE RowsInv'
      <3> DEFINE n   == Len(conns)
                 row == <<p, n + 1>>
                 tbl == Append(table, row)
      <3>1. conns \in Seq(Conn) /\ n \in Nat /\ Ids = 1..n /\ table \in Seq(Peers \X Ids)
        BY DEF EndpointInv, TypeOK, Ids
      <3>2. Route(p) = {} /\ conns' = Append(conns, AcceptedConn)
            /\ table' = Cleaned(tbl, conns')
        BY <2>5 DEF RecvNew
      <3>3. DOMAIN conns' = 1..(n + 1)
        BY <3>1, <3>2
      <3> HIDE DEF n
      <3>4. tbl \in Seq(Peers \X DOMAIN conns')
        <4>1. Peers \X Ids \subseteq Peers \X DOMAIN conns' /\ row \in Peers \X DOMAIN conns'
          BY <3>1, <3>3
        <4> HIDE DEF row
        <4>2. QED
          BY <3>1, <4>1
      <3>5. Apart(tbl)
        BY <2>1, <3>1, <3>2, AppendedApart
      <3> HIDE DEF tbl
      <3>6. QED
        BY <2>1, <3>2, <3>4, <3>5, CleanedRows
    <2>6. ASSUME handleTimers \/ drainOutgoingDatagrams \/ drainThrows \/ drainEvents
          PROVE  RowsInv'
      <3>1. DOMAIN conns' = Ids /\ (table' = table \/ table' = Cleaned(table, conns'))
        BY <2>6 DEF handleTimers, drainOutgoingDatagrams, drainThrows, drainEvents, SweepTo
      <3>2. QED
        BY <2>2, <3>1
    <2>7. ASSUME \/ \E p \in Peers : RecvRefused(p)
                 \/ drainAcceptedConnections
                 \/ \E id \in Ids : AppClose(id) \/ AppDrainOutgoing(id) \/ AppDrainEvents(id)
          PROVE  table' = table
      BY <2>7 DEF RecvRefused, drainAcceptedConnections, AppClose, AppDrainOutgoing, AppDrainEvents
    <2>8. table' = table => RowsInv'
      BY <2>1
    <2>9. CASE UNCHANGED vars
      BY <2>8, <2>9 DEF vars
    <2>10. QED
      BY <2>4, <2>5, <2>6, <2>7, <2>8, <2>9 DEF Next
  <1>3. QED
    BY <1>1, <1>2, EndpointInvariant, PTL DEF Spec

(* The routes of a table                                                   *)
To(tbl, p) == {r[2] : r \in {tbl[i] : i \in {j \in DOMAIN tbl : tbl[j][1] = p}}}

RoutesOf(tbl) ==
  [p \in Peers |-> IF To(tbl, p) = {} THEN 0 ELSE CHOOSE id \in To(tbl, p) : TRUE]

LEMMA RoutesIs == routes = RoutesOf(table) /\ routes' = RoutesOf(table')
  <1>1. routes = RoutesOf(table)
    BY DEF routes, RoutesOf, Route, To
  <1>2. routes' = RoutesOf(table')
    BY DEF routes, RoutesOf, Route, To
  <1>3. QED
    BY <1>1, <1>2

(* The route of a peer is the connection of its row, or there is none.     *)
LEMMA RoutesOfIs ==
  ASSUME NEW N, NEW tbl \in Seq(Peers \X N), Apart(tbl)
  PROVE  /\ RoutesOf(tbl) = [p \in Peers |-> RoutesOf(tbl)[p]]
         /\ \A i \in DOMAIN tbl : RoutesOf(tbl)[tbl[i][1]] = tbl[i][2]
         /\ \A p \in Peers :
              (\A i \in DOMAIN tbl : tbl[i][1] # p) => RoutesOf(tbl)[p] = 0
  <1>1. ASSUME NEW i \in DOMAIN tbl PROVE RoutesOf(tbl)[tbl[i][1]] = tbl[i][2]
    <2> DEFINE p == tbl[i][1]
               id == tbl[i][2]
    <2>1. p \in Peers
      <3>1. tbl[i] \in Peers \X N
        OBVIOUS
      <3>2. QED
        BY <3>1
    <2>2. id \in To(tbl, p)
      BY DEF To
    <2>3. \A k \in To(tbl, p) : k = id
      BY DEF To, Apart
    <2> HIDE DEF p, id
    <2>4. RoutesOf(tbl)[p] = CHOOSE k \in To(tbl, p) : TRUE
      BY <2>1, <2>2 DEF RoutesOf
    <2>5. (CHOOSE k \in To(tbl, p) : TRUE) \in To(tbl, p)
      BY <2>2, Zenon
    <2>6. QED
      BY <2>3, <2>4, <2>5 DEF p, id
  <1>2. ASSUME NEW p \in Peers, \A i \in DOMAIN tbl : tbl[i][1] # p
        PROVE  RoutesOf(tbl)[p] = 0
    <2>1. To(tbl, p) = {}
      BY <1>2 DEF To
    <2>2. QED
      BY <2>1 DEF RoutesOf
  <1>3. RoutesOf(tbl) = [p \in Peers |-> RoutesOf(tbl)[p]]
    BY DEF RoutesOf
  <1>4. QED
    BY <1>1, <1>2, <1>3

(* What the clean-up may remove is over.                                   *)
LEMMA RemovableIsOver ==
  ASSUME NEW c \in Conn, ConnOK(c), Removable(c) PROVE PhaseOf(c) = "over"
  BY DEF ConnOK, Removable, PhaseOf, Periods

(* The clean-up forgets some routes of connections that are over.          *)
LEMMA ForgetsSome ==
  ASSUME EndpointInv', NEW tbl \in Seq(Peers \X Ids'), Apart(tbl),
         table' = tbl \/ table' = Cleaned(tbl, conns')
  PROVE  Routing!Forgets(RoutesOf(tbl))
  <1> DEFINE gone == {p \in Peers : /\ \E i \in DOMAIN tbl : tbl[i][1] = p
                                    /\ \A i \in DOMAIN table' : table'[i][1] # p}
  <1>1. /\ conns' \in Seq(Conn) /\ Ids' = 1..Len(conns') /\ Ids' = DOMAIN conns'
        /\ \A id \in Ids' : conns'[id] \in Conn /\ ConnOK(conns'[id])
        /\ table' \in Seq(Peers \X Ids')
    BY DEF EndpointInv, TypeOK, ConnInv, Ids
  <1>2. /\ Apart(table')
        /\ \A i \in DOMAIN table' : \E j \in DOMAIN tbl : tbl[j] = table'[i]
        /\ \A j \in DOMAIN tbl : ~Removable(conns'[tbl[j][2]]) =>
             \E i \in DOMAIN table' : tbl[j] = table'[i]
    <2>1. CASE table' = tbl
      BY <2>1
    <2>2. CASE table' = Cleaned(tbl, conns')
      <3> DEFINE cs == conns'
      <3>1. tbl \in Seq(Peers \X DOMAIN cs) /\ table' = Cleaned(tbl, cs)
        BY <1>1, <2>2
      <3> HIDE DEF cs
      <3>2. /\ Apart(Cleaned(tbl, cs))
            /\ \A i \in DOMAIN Cleaned(tbl, cs) :
                 \E j \in DOMAIN tbl : tbl[j] = Cleaned(tbl, cs)[i]
            /\ \A j \in DOMAIN tbl : ~Removable(cs[tbl[j][2]]) =>
                 \E i \in DOMAIN Cleaned(tbl, cs) : tbl[j] = Cleaned(tbl, cs)[i]
        BY <3>1, CleanedRows
      <3>3. QED
        BY <3>1, <3>2 DEF cs
    <2>3. QED
      BY <2>1, <2>2
  <1>3. \A i \in DOMAIN tbl : tbl[i][1] \in Peers /\ tbl[i][2] \in Ids'
    <2>1. \A i \in DOMAIN tbl : tbl[i] \in Peers \X Ids'
      OBVIOUS
    <2>2. QED
      BY <2>1
  <1> DEFINE R == RoutesOf(tbl)
             Q == RoutesOf(table')
  <1>4. /\ \A i \in DOMAIN tbl : R[tbl[i][1]] = tbl[i][2]
        /\ \A p \in Peers : (\A i \in DOMAIN tbl : tbl[i][1] # p) => R[p] = 0
    BY RoutesOfIs
  <1>5. /\ \A i \in DOMAIN table' : Q[table'[i][1]] = table'[i][2]
        /\ \A p \in Peers : (\A i \in DOMAIN table' : table'[i][1] # p) => Q[p] = 0
        /\ Q = [p \in Peers |-> Q[p]]
    BY <1>1, <1>2, RoutesOfIs
  <1> HIDE DEF R, Q
  <1>6. ASSUME NEW p \in gone PROVE R[p] # 0 /\ phases'[R[p]] = "over"
    <2>1. PICK j \in DOMAIN tbl : tbl[j][1] = p
      OBVIOUS
    <2>2. R[p] = tbl[j][2] /\ R[p] \in Ids'
      BY <1>3, <1>4, <2>1
    <2>3. Removable(conns'[R[p]])
      BY <1>2, <2>1, <2>2
    <2>4. PhaseOf(conns'[R[p]]) = "over"
      BY <1>1, <2>2, <2>3, RemovableIsOver
    <2>5. phases' = [id \in Ids' |-> PhaseOf(conns'[id])]
      BY DEF phases
    <2>6. QED
      BY <1>1, <2>2, <2>4, <2>5
  <1>7. ASSUME NEW p \in Peers PROVE Q[p] = IF p \in gone THEN 0 ELSE R[p]
    <2>1. CASE \A i \in DOMAIN table' : table'[i][1] # p
      BY <1>4, <1>5, <2>1
    <2>2. CASE \E i \in DOMAIN table' : table'[i][1] = p
      <3>1. PICK i \in DOMAIN table' : table'[i][1] = p
        BY <2>2
      <3>2. PICK j \in DOMAIN tbl : tbl[j] = table'[i]
        BY <1>2
      <3>3. Q[p] = table'[i][2] /\ R[p] = tbl[j][2] /\ p \notin gone
        BY <1>4, <1>5, <3>1, <3>2
      <3>4. QED
        BY <3>2, <3>3
    <2>3. QED
      BY <2>1, <2>2
  <1>8. gone \in SUBSET {p \in Peers : R[p] # 0 /\ phases'[R[p]] = "over"}
    BY <1>6
  <1> HIDE DEF gone
  <1>9. routes' = [p \in Peers |-> IF p \in gone THEN 0 ELSE R[p]]
    BY <1>5, <1>7, RoutesIs DEF Q
  <1>10. QED
    BY <1>8, <1>9 DEF Routing!Forgets, R

(* What a call does to the phase of a connection: a packet may end it;     *)
LEMMA RecvPhase ==
  ASSUME NEW c \in Conn, ConnOK(c), NEW in \in Inputs(c.t)
  PROVE  PhaseOf(Recv(c, in)) \in {PhaseOf(c), "over"}
  <1> DEFINE p == ReadPkt(c, in)
  <1>1. /\ p \in Conn /\ p.close_requested = c.close_requested
        /\ p.close_packet_sent = c.close_packet_sent
        /\ IF c.t \in {"handshake", "open"} THEN p.t \in {c.t, "open", "draining"}
           ELSE p.t = c.t
    BY ReadPktKeeps
  <1>2. Recv(c, in) = SyncState(p)
    BY DEF Recv
  <1> HIDE DEF p
  <1>3. QED
    BY <1>1, <1>2, SyncStateKeeps DEF PhaseOf

(* errors, timers and the drain of the events leave it;                    *)
LEMMA QuietPhase ==
  ASSUME NEW c \in Conn
  PROVE  /\ PhaseOf(RecvFatal(c)) = PhaseOf(c)
         /\ PhaseOf(HandleTimers(c)) = PhaseOf(c)
         /\ PhaseOf(HandleTimersFatal(c)) = PhaseOf(c)
         /\ PhaseOf(DrainEvents(c)) = PhaseOf(c)
         /\ PhaseOf(DrainFatal(c)) = PhaseOf(c)
  <1>1. PhaseOf(RecvFatal(c)) = PhaseOf(c)
    BY DEF PhaseOf, RecvFatal, Conn
  <1>2. PhaseOf(HandleTimers(c)) = PhaseOf(c)
    BY SyncStateKeeps DEF PhaseOf, HandleTimers
  <1>3. PhaseOf([c EXCEPT !.last_error = "lib"]) = PhaseOf(c)
    BY DEF PhaseOf, Conn
  <1>4. PhaseOf(DrainEvents(c)) = PhaseOf(c)
    BY DEF PhaseOf, DrainEvents, Conn
  <1>5. QED
    BY <1>1, <1>2, <1>3, <1>4 DEF HandleTimersFatal, DrainFatal

(* close() asks for the end of a connection that is up;                    *)
LEMMA ClosePhase ==
  ASSUME NEW c \in Conn, ConnOK(c), ~c.close_requested
  PROVE  PhaseOf(Close(c, "app")) = IF PhaseOf(c) = "up" THEN "asked" ELSE PhaseOf(c)
  BY CloseKeeps DEF PhaseOf, ConnOK

(* and the drain ends those that have asked, with a packet.                *)
LEMMA DrainPhase ==
  ASSUME NEW c \in Conn, ConnOK(c)
  PROVE  /\ PhaseOf(DrainOutgoing(c)) = IF PhaseOf(c) = "asked" THEN "over" ELSE PhaseOf(c)
         /\ PhaseOf(c) = "asked" <=> ClosePending(c) /\ WritesClose(c)
  <1>1. c.t \in {"handshake", "open", "closing", "draining"}
    BY DEF Conn, ConnOK, Periods
  <1>2. PhaseOf(c) = "asked" <=> ClosePending(c) /\ WritesClose(c)
    BY <1>1 DEF PhaseOf, ConnOK, ClosePending, WritesClose
  <1>3. CASE ClosePending(c)
    <2>1. DrainOutgoing(c).close_packet_sent
      BY <1>3, DrainKeeps
    <2>2. PhaseOf(DrainOutgoing(c)) = "over"
      BY <2>1 DEF PhaseOf
    <2>3. PhaseOf(c) \in {"asked", "over"}
      BY <1>3 DEF PhaseOf, ClosePending
    <2>4. QED
      BY <1>2, <2>2, <2>3
  <1>4. CASE ~ClosePending(c)
    <2>1. /\ DrainOutgoing(c).close_requested = c.close_requested
          /\ DrainOutgoing(c).close_packet_sent = c.close_packet_sent
          /\ DrainOutgoing(c).t = c.t
      BY <1>1, <1>4, DrainKeeps
    <2>2. PhaseOf(DrainOutgoing(c)) = PhaseOf(c)
      BY <2>1 DEF PhaseOf
    <2>3. QED
      BY <1>2, <1>4, <2>2
  <1>5. QED
    BY <1>2, <1>3, <1>4

(* A step in which the connections ids, all of them asked to close, write  *)
(* their CONNECTION_CLOSE and nothing else happens to a phase              *)
LEMMA WritesStep ==
  ASSUME EndpointInv, EndpointInv', RowsInv,
         NEW ids \in SUBSET {id \in Ids : PhaseOf(conns[id]) = "asked"},
         DOMAIN conns' = Ids,
         \A id \in Ids : PhaseOf(conns'[id]) =
                           IF id \in ids THEN "over" ELSE PhaseOf(conns[id]),
         table' = table \/ table' = Cleaned(table, conns'),
         onWire' \cup discarded' = (onWire \cup discarded) \cup ids,
         UNCHANGED <<accepted, given>>
  PROVE  Routing!Next
  <1>1. Ids' = Ids
    BY DEF Ids
  <1>2. /\ DOMAIN phases = Ids
        /\ phases' = [id \in Ids |-> PhaseOf(conns'[id])]
        /\ \A id \in Ids : phases[id] = PhaseOf(conns[id])
    BY <1>1 DEF phases
  <1>3. phases' = [id \in DOMAIN phases |-> IF id \in ids THEN "over" ELSE phases[id]]
    BY <1>2
  <1>4. Routing!Forgets(routes)
    <2>1. table \in Seq(Peers \X Ids') /\ Apart(table)
      BY <1>1 DEF EndpointInv, TypeOK, RowsInv, Apart
    <2>2. Routing!Forgets(RoutesOf(table))
      BY <2>1, ForgetsSome
    <2>3. QED
      BY <2>2, RoutesIs
  <1>5. Routing!WriteCloses(ids)
    BY <1>3, <1>4 DEF Routing!WriteCloses
  <1>6. ids \in SUBSET {id \in DOMAIN phases : phases[id] = "asked"}
    BY <1>2
  <1>7. QED
    BY <1>5, <1>6 DEF Routing!Next

(* A step in which nothing happens to any phase                            *)
LEMMA NothingWritten ==
  ASSUME EndpointInv, EndpointInv', RowsInv, DOMAIN conns' = Ids,
         \A id \in Ids : PhaseOf(conns'[id]) = PhaseOf(conns[id]),
         table' = table \/ table' = Cleaned(table, conns'),
         onWire' \cup discarded' = onWire \cup discarded,
         UNCHANGED <<accepted, given>>
  PROVE  Routing!Next
  <1> DEFINE none == {}
  <1>1. /\ none \in SUBSET {id \in Ids : PhaseOf(conns[id]) = "asked"}
        /\ onWire' \cup discarded' = (onWire \cup discarded) \cup none
        /\ \A id \in Ids : PhaseOf(conns'[id]) =
                           IF id \in none THEN "over" ELSE PhaseOf(conns[id])
    OBVIOUS
  <1> HIDE DEF none
  <1>2. QED
    BY <1>1, WritesStep

(* A datagram for a connection there is                                    *)
LEMMA RecvKnownRoutes ==
  ASSUME EndpointInv, EndpointInv', RowsInv, NEW p \in Peers, RecvKnown(p)
  PROVE  Routing!Next
  <1>1. PICK id \in Route(p) :
          /\ \/ \E in \in Inputs(conns[id].t) : conns' = [conns EXCEPT ![id] = Recv(@, in)]
             \/ conns' = [conns EXCEPT ![id] = RecvFatal(@)]
          /\ table' = Cleaned(table, conns')
          /\ UNCHANGED <<accepted, given, wire>>
    BY DEF RecvKnown
  <1>2. /\ id \in Ids /\ conns \in Seq(Conn) /\ Ids = 1..Len(conns)
        /\ conns[id] \in Conn /\ ConnOK(conns[id])
    <2>1. id \in Ids
      BY DEF Route, EndpointInv, TypeOK
    <2>2. QED
      BY <2>1 DEF EndpointInv, TypeOK, ConnInv, Ids
  <1>3. PICK d : /\ conns' = [conns EXCEPT ![id] = d]
                 /\ PhaseOf(d) \in {PhaseOf(conns[id]), "over"}
    <2>1. CASE conns' = [conns EXCEPT ![id] = RecvFatal(@)]
      BY <1>2, <2>1, QuietPhase
    <2>2. CASE \E in \in Inputs(conns[id].t) : conns' = [conns EXCEPT ![id] = Recv(@, in)]
      BY <1>2, <2>2, RecvPhase
    <2>3. QED
      BY <1>1, <2>1, <2>2
  <1>4. /\ DOMAIN conns' = Ids /\ conns'[id] = d
        /\ \A i \in Ids : i # id => conns'[i] = conns[i]
    BY <1>2, <1>3 DEF Ids
  <1>5. CASE PhaseOf(d) = PhaseOf(conns[id])
    <2>1. \A i \in Ids : PhaseOf(conns'[i]) = PhaseOf(conns[i])
      BY <1>4, <1>5
    <2>2. onWire' \cup discarded' = onWire \cup discarded
      BY <1>1 DEF wire
    <2>3. QED
      BY <1>1, <1>4, <2>1, <2>2, NothingWritten
  <1>6. CASE PhaseOf(d) = "over"
    <2>1. Ids' = Ids
      BY <1>4 DEF Ids
    <2>2. table \in Seq(Peers \X Ids') /\ Apart(table)
      BY <2>1 DEF EndpointInv, TypeOK, RowsInv, Apart
    <2>3. Routing!Forgets(routes)
      <3>1. Routing!Forgets(RoutesOf(table))
        BY <1>1, <2>2, ForgetsSome
      <3>2. QED
        BY <3>1, RoutesIs
    <2>4. routes[p] = id
      <3>1. PICK i \in DOMAIN table : table[i][1] = p /\ table[i][2] = id
        BY DEF Route
      <3>2. RoutesOf(table)[p] = id
        BY <2>2, <3>1, RoutesOfIs
      <3>3. QED
        BY <3>2, RoutesIs
    <2>5. phases' = [phases EXCEPT ![id] = "over"]
      <3>1. phases' = [i \in Ids |-> PhaseOf(conns'[i])] /\ phases = [i \in Ids |-> PhaseOf(conns[i])]
        BY <2>1 DEF phases
      <3>2. \A i \in Ids : PhaseOf(conns'[i]) = IF i = id THEN "over" ELSE PhaseOf(conns[i])
        BY <1>4, <1>6
      <3>3. QED
        BY <3>1, <3>2
    <2>6. onWire' = onWire /\ discarded' = discarded /\ UNCHANGED <<accepted, given>>
      BY <1>1 DEF wire
    <2>7. id # 0
      BY <1>2
    <2>8. Routing!PeerCloses(p)
      BY <2>3, <2>4, <2>5, <2>6, <2>7 DEF Routing!PeerCloses
    <2>9. QED
      BY <2>8 DEF Routing!Next
  <1>7. QED
    BY <1>3, <1>5, <1>6

(* A datagram that is accepted                                             *)
LEMMA RecvNewRoutes ==
  ASSUME EndpointInv, EndpointInv', RowsInv, NEW p \in Peers, RecvNew(p)
  PROVE  Routing!Next
  <1> DEFINE n   == Len(conns)
             row == <<p, n + 1>>
             tbl == Append(table, row)
             up  == [id \in 1..n |-> PhaseOf(conns[id])]
  <1>1. /\ conns \in Seq(Conn) /\ n \in Nat /\ Ids = 1..n
        /\ table \in Seq(Peers \X Ids) /\ Apart(table)
    BY DEF EndpointInv, TypeOK, Ids, RowsInv, Apart
  <1>2. /\ Route(p) = {} /\ conns' = Append(conns, AcceptedConn)
        /\ table' = Cleaned(tbl, conns')
        /\ accepted' = Append(accepted, n + 1)
        /\ given' = given /\ onWire' = onWire /\ discarded' = discarded
    BY DEF RecvNew, wire
  <1>3. /\ Ids' = 1..(n + 1) /\ DOMAIN conns' = Ids'
        /\ conns'[n + 1] = AcceptedConn /\ \A i \in 1..n : conns'[i] = conns[i]
    BY <1>1, <1>2 DEF Ids
  <1>4. phases = up
    BY <1>1 DEF phases
  <1>5. PhaseOf(AcceptedConn) = "up"
    BY DEF PhaseOf, AcceptedConn, NewConn
  <1>6. \A id \in 1..n : PhaseOf(conns[id]) \in {"up", "asked", "over"}
    BY DEF PhaseOf
  <1> HIDE DEF n
  <1>7. up \in Seq({"up", "asked", "over"}) /\ Len(up) = n
    <2>1. up \in [1..n -> {"up", "asked", "over"}]
      BY <1>6
    <2> HIDE DEF up
    <2>2. up \in Seq({"up", "asked", "over"}) /\ DOMAIN up = 1..n
      BY <1>1, <2>1, SeqDef
    <2>3. QED
      BY <1>1, <2>1, <2>2
  <1>8. phases' = Append(phases, "up")
    <2>1. phases' = [id \in 1..(n + 1) |-> PhaseOf(conns'[id])]
      BY <1>3 DEF phases
    <2>2. \A id \in 1..(n + 1) : PhaseOf(conns'[id]) = IF id = n + 1 THEN "up" ELSE up[id]
      <3>1. \A id \in 1..(n + 1) : id = n + 1 \/ id \in 1..n
        BY <1>1
      <3>2. \A id \in 1..n : up[id] = PhaseOf(conns[id]) /\ id # n + 1
        BY <1>1
      <3>3. QED
        BY <1>3, <1>5, <3>1, <3>2
    <2> HIDE DEF up
    <2>3. Append(up, "up") = [id \in 1..(n + 1) |-> IF id = n + 1 THEN "up" ELSE up[id]]
      <3> DEFINE T == {"up", "asked", "over"}
                 a == Append(up, "up")
      <3>1. up \in Seq(T) /\ "up" \in T
        BY <1>7
      <3> HIDE DEF T
      <3>2. /\ a = [id \in 1..(n + 1) |-> a[id]]
            /\ \A id \in 1..(n + 1) : a[id] = IF id = n + 1 THEN "up" ELSE up[id]
        <4>1. a \in Seq(T) /\ Len(a) = n + 1 /\ a[n + 1] = "up"
              /\ \A id \in 1..n : a[id] = up[id]
          BY <1>1, <1>7, <3>1
        <4> HIDE DEF a
        <4>2. a = [id \in 1..(n + 1) |-> a[id]]
          BY <1>1, <4>1
        <4>3. \A id \in 1..(n + 1) : id = n + 1 \/ id \in 1..n
          BY <1>1
        <4>4. \A id \in 1..(n + 1) : a[id] = IF id = n + 1 THEN "up" ELSE up[id]
          BY <4>1, <4>3
        <4>5. QED
          BY <4>2, <4>4
      <3> HIDE DEF a
      <3>3. a = [id \in 1..(n + 1) |-> IF id = n + 1 THEN "up" ELSE up[id]]
        BY <3>2
      <3>4. QED
        BY <3>3 DEF a
    <2>4. QED
      BY <1>4, <2>1, <2>2, <2>3
  <1> HIDE DEF up
  <1>9. Len(phases') = n + 1
    BY <1>1, <1>4, <1>7, <1>8
  <1>10. /\ DOMAIN tbl = 1..(Len(table) + 1) /\ tbl[Len(table) + 1] = row
         /\ \A i \in 1..Len(table) : tbl[i] = table[i] /\ i \in DOMAIN table
         /\ Len(table) \in Nat /\ DOMAIN table = 1..Len(table)
    BY <1>1
  <1>11. tbl \in Seq(Peers \X Ids')
    <2>1. Peers \X Ids \subseteq Peers \X Ids' /\ row \in Peers \X Ids'
      BY <1>1, <1>3
    <2> HIDE DEF row
    <2>2. QED
      BY <1>1, <2>1
  <1>12. \A i \in DOMAIN table : table[i][1] # p
    <2>1. ASSUME NEW i \in DOMAIN table, table[i][1] = p PROVE table[i][2] \in Route(p)
      BY <2>1 DEF Route
    <2>2. QED
      BY <1>2, <2>1
  <1>13. row[1] = p /\ row[2] = n + 1
    OBVIOUS
  <1>14. Apart(tbl)
    BY <1>1, <1>2, AppendedApart
  <1> HIDE DEF row, tbl
  <1>15. RoutesOf(tbl) = [routes EXCEPT ![p] = n + 1]
    <2> DEFINE R == RoutesOf(table)
               Q == RoutesOf(tbl)
    <2>1. /\ R = [q \in Peers |-> R[q]]
          /\ \A i \in DOMAIN table : R[table[i][1]] = table[i][2]
          /\ \A q \in Peers : (\A i \in DOMAIN table : table[i][1] # q) => R[q] = 0
      BY <1>1, RoutesOfIs
    <2>2. /\ Q = [q \in Peers |-> Q[q]]
          /\ \A i \in DOMAIN tbl : Q[tbl[i][1]] = tbl[i][2]
          /\ \A q \in Peers : (\A i \in DOMAIN tbl : tbl[i][1] # q) => Q[q] = 0
      BY <1>11, <1>14, RoutesOfIs
    <2> HIDE DEF R, Q
    <2>3. Q[p] = n + 1
      BY <1>10, <1>13, <2>2
    <2>4. ASSUME NEW q \in Peers, q # p PROVE Q[q] = R[q]
      <3>1. CASE \E i \in DOMAIN table : table[i][1] = q
        <4>1. PICK i \in 1..Len(table) : table[i][1] = q
          BY <1>10, <3>1
        <4>2. tbl[i] = table[i] /\ i \in DOMAIN tbl
          BY <1>10
        <4>3. QED
          BY <1>10, <2>1, <2>2, <4>1, <4>2
      <3>2. CASE \A i \in DOMAIN table : table[i][1] # q
        <4>1. \A i \in DOMAIN tbl : tbl[i][1] # q
          BY <1>10, <1>13, <2>4, <3>2
        <4>2. QED
          BY <2>1, <2>2, <3>2, <4>1
      <3>3. QED
        BY <3>1, <3>2
    <2>5. Q = [R EXCEPT ![p] = n + 1]
      BY <2>1, <2>2, <2>3, <2>4
    <2>6. QED
      BY <2>5, RoutesIs DEF Q, R
  <1>16. Routing!Forgets([routes EXCEPT ![p] = n + 1])
    <2>1. Routing!Forgets(RoutesOf(tbl))
      BY <1>2, <1>11, <1>14, ForgetsSome
    <2>2. QED
      BY <1>15, <2>1
  <1>17. routes[p] = 0
    <2>1. RoutesOf(table)[p] = 0
      BY <1>1, <1>12, RoutesOfIs
    <2>2. QED
      BY <2>1, RoutesIs
  <1>18. Routing!Accept(p)
    BY <1>2, <1>8, <1>9, <1>16, <1>17 DEF Routing!Accept
  <1>19. QED
    BY <1>18 DEF Routing!Next

(* A sweep of the table in which nobody writes a CONNECTION_CLOSE          *)
LEMMA QuietSweepRoutes ==
  ASSUME EndpointInv, EndpointInv', RowsInv, handleTimers \/ drainEvents
  PROVE  Routing!Next
  <1>1. \A id \in Ids : conns[id] \in Conn
    BY DEF EndpointInv, TypeOK, Ids
  <1>2. \A id \in Ids : /\ PhaseOf(HandleTimers(conns[id])) = PhaseOf(conns[id])
                        /\ PhaseOf(HandleTimersFatal(conns[id])) = PhaseOf(conns[id])
                        /\ PhaseOf(DrainEvents(conns[id])) = PhaseOf(conns[id])
    BY <1>1, QuietPhase
  <1>3. /\ DOMAIN conns' = Ids
        /\ \A id \in Ids : conns'[id] \in {conns[id], HandleTimers(conns[id]),
                                           HandleTimersFatal(conns[id]), DrainEvents(conns[id])}
        /\ table' = table \/ table' = Cleaned(table, conns')
    <2>1. CASE drainEvents
      BY <2>1 DEF drainEvents, SweepTo
    <2>2. CASE SweepTo(Len(table), FALSE, HandleTimers, HandleTimersFatal)
      BY <2>2 DEF SweepTo
    <2>3. CASE \E n \in DOMAIN table : SweepTo(n, TRUE, HandleTimers, HandleTimersFatal)
      BY <2>3 DEF SweepTo
    <2>4. QED
      BY <2>1, <2>2, <2>3 DEF handleTimers
  <1>4. \A id \in Ids : PhaseOf(conns'[id]) = PhaseOf(conns[id])
    BY <1>2, <1>3
  <1>5. UNCHANGED <<accepted, given>> /\ onWire' = onWire /\ discarded' = discarded
    BY DEF handleTimers, drainEvents, wire
  <1>6. QED
    BY <1>3, <1>4, <1>5, NothingWritten

(* The drain of the endpoint: of every connection, or of those before the  *)
(* one that throws.  A row is drained once, since the rows are apart.      *)
LEMMA DrainRoutes ==
  ASSUME EndpointInv, EndpointInv', RowsInv, drainOutgoingDatagrams \/ drainThrows
  PROVE  Routing!Next
  <1>1. /\ \A id \in Ids : conns[id] \in Conn /\ ConnOK(conns[id])
        /\ table \in Seq(Peers \X Ids) /\ Managed \subseteq Ids
    BY DEF EndpointInv, TypeOK, ConnInv, Ids, Managed
  <1>2. \A id \in Ids :
          /\ PhaseOf(DrainFatal(conns[id])) = PhaseOf(conns[id])
          /\ PhaseOf(DrainOutgoing(conns[id])) =
               IF PhaseOf(conns[id]) = "asked" THEN "over" ELSE PhaseOf(conns[id])
          /\ PhaseOf(conns[id]) = "asked" <=> ClosePending(conns[id]) /\ WritesClose(conns[id])
    BY <1>1, QuietPhase, DrainPhase
  <1>3. PICK drained \in SUBSET Ids :
          /\ DOMAIN conns' = Ids
          /\ \A id \in drained : conns'[id] = DrainOutgoing(conns[id])
          /\ \A id \in Ids \ drained : conns'[id] \in {conns[id], DrainFatal(conns[id])}
          /\ table' = table \/ table' = Cleaned(table, conns')
          /\ onWire' \cup discarded' = (onWire \cup discarded) \cup CloseWritten(drained)
          /\ UNCHANGED <<accepted, given>>
    <2>1. CASE drainOutgoingDatagrams
      <3>1. Called(Len(table)) = Managed
        BY <1>1 DEF Called, Managed
      <3>2. /\ conns' = [id \in Ids |-> IF id \notin Called(Len(table)) THEN conns[id]
                                      ELSE DrainOutgoing(conns[id])]
            /\ table' = table \/ table' = Cleaned(table, conns')
            /\ onWire' = onWire \cup CloseWritten(Managed)
            /\ UNCHANGED <<accepted, given, discarded, refused>>
        BY <2>1 DEF drainOutgoingDatagrams, SweepTo
      <3>3. /\ DOMAIN conns' = Ids
            /\ \A id \in Managed : conns'[id] = DrainOutgoing(conns[id])
            /\ \A id \in Ids \ Managed : conns'[id] = conns[id]
        BY <1>1, <3>1, <3>2
      <3>4. onWire' \cup discarded' = (onWire \cup discarded) \cup CloseWritten(Managed)
        BY <3>2
      <3>5. QED
        BY <1>1, <3>2, <3>3, <3>4
    <2>2. CASE drainThrows
      <3>1. PICK n \in DOMAIN table :
              /\ conns' = [id \in Ids |->
                             IF id \notin Called(n) THEN conns[id]
                             ELSE IF id = table[n][2] THEN DrainFatal(conns[id])
                             ELSE DrainOutgoing(conns[id])]
              /\ table' = table \/ table' = Cleaned(table, conns')
              /\ discarded' = discarded \cup CloseWritten(Called(n - 1))
              /\ UNCHANGED <<accepted, given, onWire, refused>>
        BY <2>2 DEF drainThrows, SweepTo
      <3>2. n \in 1..Len(table) /\ Len(table) \in Nat /\ DOMAIN table = 1..Len(table)
        BY <1>1
      <3>3. \A i \in 1..(n - 1) : i \in 1..n /\ i \in DOMAIN table /\ i # n
        BY <3>2
      <3>4. Called(n - 1) \subseteq Ids
        <4>1. \A i \in DOMAIN table : table[i][2] \in Ids
          BY <1>1
        <4>2. QED
          BY <3>3, <4>1 DEF Called
      <3>5. \A id \in Called(n - 1) : id \in Called(n) /\ id # table[n][2]
        BY <3>3 DEF Called, RowsInv
      <3>6. \A id \in Called(n) : id \in Called(n - 1) \/ id = table[n][2]
        <4>1. \A i \in 1..n : i \in 1..(n - 1) \/ i = n
          BY <3>2
        <4>2. QED
          BY <4>1 DEF Called
      <3>7. \A id \in Called(n - 1) : conns'[id] = DrainOutgoing(conns[id])
        BY <3>1, <3>4, <3>5
      <3>8. \A id \in Ids \ Called(n - 1) : conns'[id] \in {conns[id], DrainFatal(conns[id])}
        BY <3>1, <3>6
      <3>9. onWire' \cup discarded' = (onWire \cup discarded) \cup CloseWritten(Called(n - 1))
        BY <3>1
      <3>10. DOMAIN conns' = Ids
        BY <3>1
      <3>11. QED
        BY <3>1, <3>4, <3>7, <3>8, <3>9, <3>10
    <2>3. QED
      BY <2>1, <2>2
  <1> DEFINE ids == CloseWritten(drained)
  <1>4. /\ ids \in SUBSET {id \in Ids : PhaseOf(conns[id]) = "asked"}
        /\ \A id \in Ids : id \in ids <=> id \in drained /\ PhaseOf(conns[id]) = "asked"
    BY <1>2 DEF CloseWritten
  <1> HIDE DEF ids
  <1>5. ASSUME NEW id \in Ids
        PROVE  PhaseOf(conns'[id]) = IF id \in ids THEN "over" ELSE PhaseOf(conns[id])
    <2>1. CASE id \in drained
      BY <1>2, <1>3, <1>4, <2>1
    <2>2. CASE id \notin drained
      BY <1>2, <1>3, <1>4, <2>2
    <2>3. QED
      BY <2>1, <2>2
  <1>6. onWire' \cup discarded' = (onWire \cup discarded) \cup ids
    BY <1>3 DEF ids
  <1>7. QED
    BY <1>3, <1>4, <1>5, <1>6, WritesStep

(* The application on a connection it holds                                *)
LEMMA AppRoutes ==
  ASSUME EndpointInv, EndpointInv', RowsInv, NEW id \in Ids,
         AppClose(id) \/ AppDrainOutgoing(id) \/ AppDrainEvents(id)
  PROVE  [Routing!Next]_<<routes, phases, accepted, given, onWire \cup discarded>>
  <1>1. /\ conns \in [Ids -> Conn] /\ ConnOK(conns[id])
        /\ PhaseOf(conns[id]) \in {"up", "asked", "over"}
    BY DEF EndpointInv, TypeOK, ConnInv, Ids, PhaseOf
  <1>2. CASE AppDrainEvents(id)
    <2>1. conns' = [conns EXCEPT ![id] = DrainEvents(conns[id])] /\ table' = table
          /\ UNCHANGED <<accepted, given, wire>>
      BY <1>2 DEF AppDrainEvents
    <2>2. DOMAIN conns' = Ids /\ \A i \in Ids : PhaseOf(conns'[i]) = PhaseOf(conns[i])
      BY <1>1, <2>1, QuietPhase
    <2>3. onWire' \cup discarded' = onWire \cup discarded
      BY <2>1 DEF wire
    <2>4. QED
      BY <2>1, <2>2, <2>3, NothingWritten
  <1>3. CASE AppDrainOutgoing(id)
    <2> DEFINE ids == CloseWritten({id})
               d == DrainOutgoing(conns[id])
    <2>1. /\ conns' = [conns EXCEPT ![id] = d] /\ table' = table
          /\ onWire' = onWire \cup ids
          /\ UNCHANGED <<accepted, given, discarded, refused>>
      BY <1>3 DEF AppDrainOutgoing
    <2>2. PhaseOf(d) = IF PhaseOf(conns[id]) = "asked" THEN "over" ELSE PhaseOf(conns[id])
      BY <1>1, DrainPhase
    <2>3. /\ ids \in SUBSET {i \in Ids : PhaseOf(conns[i]) = "asked"}
          /\ \A i \in Ids : i \in ids <=> i = id /\ PhaseOf(conns[id]) = "asked"
      BY <1>1, DrainPhase DEF CloseWritten
    <2> HIDE DEF ids, d
    <2>4. DOMAIN conns' = Ids /\ \A i \in Ids : conns'[i] = IF i = id THEN d ELSE conns[i]
      BY <1>1, <2>1
    <2>5. \A i \in Ids : PhaseOf(conns'[i]) = IF i \in ids THEN "over" ELSE PhaseOf(conns[i])
      BY <2>2, <2>3, <2>4
    <2>6. onWire' \cup discarded' = (onWire \cup discarded) \cup ids
      BY <2>1
    <2>7. QED
      BY <2>1, <2>3, <2>4, <2>5, <2>6, WritesStep
  <1>4. CASE AppClose(id)
    <2> DEFINE d == Close(conns[id], "app")
    <2>1. /\ conns' = [conns EXCEPT ![id] = d] /\ table' = table
          /\ UNCHANGED <<accepted, given, wire>>
          /\ Held(id) /\ ~conns[id].close_requested
      BY <1>4 DEF AppClose
    <2>2. PhaseOf(d) = IF PhaseOf(conns[id]) = "up" THEN "asked" ELSE PhaseOf(conns[id])
      BY <1>1, <2>1, ClosePhase
    <2> HIDE DEF d
    <2>3. /\ DOMAIN conns' = Ids /\ Ids' = Ids
          /\ \A i \in Ids : conns'[i] = IF i = id THEN d ELSE conns[i]
      BY <1>1, <2>1 DEF Ids
    <2>4. /\ phases = [i \in Ids |-> PhaseOf(conns[i])]
          /\ phases' = [i \in Ids |-> PhaseOf(conns'[i])]
      BY <2>3 DEF phases
    <2>5. routes' = routes
      BY <2>1, RoutesIs
    <2>6. onWire' \cup discarded' = onWire \cup discarded
      BY <2>1 DEF wire
    <2>7. CASE PhaseOf(conns[id]) = "up"
      <3>1. phases' = [phases EXCEPT ![id] = "asked"] /\ phases[id] = "up" /\ id \in DOMAIN phases
        BY <2>2, <2>3, <2>4, <2>7
      <3>2. Routing!Ask(id)
        BY <2>1, <2>5, <2>6, <3>1 DEF Routing!Ask, Held
      <3>3. QED
        BY <3>1, <3>2 DEF Routing!Next
    <2>8. CASE PhaseOf(conns[id]) # "up"
      <3>1. phases' = phases
        BY <2>2, <2>3, <2>4, <2>8
      <3>2. QED
        BY <2>1, <2>5, <2>6, <3>1
    <2>9. QED
      BY <2>7, <2>8
  <1>5. QED
    BY <1>2, <1>3, <1>4

(* The endpoint implements Acceptor: one connection holds the route of a   *)
(* peer until its close is settled, also when a sweep is cut short; its    *)
(* CONNECTION_CLOSE is written once at most; accepted connections are      *)
(* handed out once, in order.                                              *)
THEOREM AcceptorImplemented == Spec => ImplementsAcceptor
  <1>1. Init => Routing!Init
    <2> SUFFICES ASSUME Init PROVE Routing!Init
      OBVIOUS
    <2>1. \A p \in Peers : Route(p) = {}
      BY DEF Init, Route
    <2>2. routes = [p \in Peers |-> 0]
      BY <2>1 DEF routes
    <2>3. phases = <<>>
      BY DEF Init, phases, Ids
    <2>4. QED
      BY <2>2, <2>3 DEF Init, Routing!Init
  <1> DEFINE side == <<routes, phases, accepted, given, onWire \cup discarded>>
  <1>2. EndpointInv /\ EndpointInv' /\ RowsInv /\ [Next]_vars => [Routing!Next]_side
    <2> SUFFICES ASSUME EndpointInv, EndpointInv', RowsInv, [Next]_vars
                 PROVE  [Routing!Next]_side
      OBVIOUS
    <2>1. CASE UNCHANGED vars \/ \E p \in Peers : RecvRefused(p)
      <3>1. UNCHANGED <<conns, table, accepted, given, onWire, discarded>>
        BY <2>1 DEF vars, wire, RecvRefused
      <3>2. routes' = routes /\ phases' = phases
        BY <3>1, RoutesIs DEF phases, Ids
      <3>3. QED
        BY <3>1, <3>2
    <2>2. CASE drainAcceptedConnections
      <3>1. /\ given' = given \o accepted /\ accepted' = <<>>
            /\ UNCHANGED <<conns, table, onWire, discarded>>
        BY <2>2 DEF drainAcceptedConnections, QueueAfterDrain, wire
      <3>2. routes' = routes /\ phases' = phases
        BY <3>1, RoutesIs DEF phases, Ids
      <3>3. Routing!HandOut
        BY <3>1, <3>2 DEF Routing!HandOut
      <3>4. QED
        BY <3>3 DEF Routing!Next
    <2>3. CASE \E p \in Peers : RecvKnown(p) \/ RecvNew(p)
      BY <2>3, RecvKnownRoutes, RecvNewRoutes
    <2>4. CASE handleTimers \/ drainEvents
      BY <2>4, QuietSweepRoutes
    <2>5. CASE drainOutgoingDatagrams \/ drainThrows
      BY <2>5, DrainRoutes
    <2>6. CASE \E id \in Ids : AppClose(id) \/ AppDrainOutgoing(id) \/ AppDrainEvents(id)
      BY <2>6, AppRoutes
    <2>7. QED
      BY <2>1, <2>2, <2>3, <2>4, <2>5, <2>6 DEF Next
  <1>3. QED
    BY <1>1, <1>2, EndpointInvariant, RowsInvariant, PTL
       DEF Spec, ImplementsAcceptor, Routing!Spec
=============================================================================
