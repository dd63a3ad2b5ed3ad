--------------------------- MODULE ServerEndpoint ---------------------------
(***************************************************************************)
(* ServerEndpoint: the table of the connections of one server socket, keyed *)
(* by the peer's address, the queue of accepted connections, and the        *)
(* methods that sweep the table.  Each connection is a record of module     *)
(* Connection.  The application may also hold a connection it got from      *)
(* drainAcceptedConnections() and call its methods itself.                  *)
(*                                                                          *)
(* A sweep calls one method of every connection in the table's order.  The  *)
(* call that throws is itself reported as a success; PHP makes no further   *)
(* call while the exception is pending: call_user_function then reports     *)
(* success (PHP 8.2 and later: the sweep ends with its cleanup) or failure  *)
(* (before: it returns at once).                                            *)
(***************************************************************************)
EXTENDS Connection, Selection

CONSTANTS
  Peers,        \* peer addresses
  MaxConns,     \* bound: connections accepted
  MaxEvents,    \* bound: a queue this long takes no more stream events
  Failures,     \* whether ngtcp2 may fail with an error that is thrown
  Dispatch      \* what recv() may find under the name "accept": see RecvRefused

ASSUME EndpointAssumption ==
  /\ MaxConns \in Nat
  /\ MaxEvents \in Nat
  /\ Failures \in BOOLEAN
  /\ Dispatch \subseteq {"method", "missing"}

VARIABLES
  conns,        \* the connection objects created, by number
  table,        \* endpoint->connections: <<peer, connection number>> in order
  accepted,     \* endpoint->accepted_queue
  given,        \* history: what drainAcceptedConnections() has returned
  onWire,       \* history: connections whose CONNECTION_CLOSE reached the caller
  discarded,    \* history: those whose CONNECTION_CLOSE an exception threw away
  refused       \* history: peers whose Initial did not reach accept()

wire == <<onWire, discarded, refused>>

vars == <<conns, table, accepted, given, wire>>

Ids == DOMAIN conns

Managed == {table[i][2] : i \in DOMAIN table}

Init ==
  /\ conns = <<>>
  /\ table = <<>>
  /\ accepted = <<>>
  /\ given = <<>>
  /\ onWire = {}
  /\ discarded = {}
  /\ refused = {}

(* Fault: a connection is removed as soon as it is closed                  *)
Removable_AtOnce(c) == c.closed

(* Fault: a connection the peer closed is kept until close() is called     *)
Removable_OnlyRequested(c) == c.closed /\ c.close_packet_sent

Removable(c) == c.closed /\ (~c.close_requested \/ c.close_packet_sent)

(* php_quic_server_endpoint_cleanup_connections, with connections cs       *)
Cleaned(tbl, cs) == Select(tbl, {r \in Peers \X DOMAIN cs : ~Removable(cs[r[2]])})

----------------------------------------------------------------------------
(* recv(): a datagram from peer p is routed by its address                 *)

(* Fault: a closed connection no longer counts as the peer's               *)
Route_SkipsClosed(p) ==
  {r[2] : r \in {table[i] : i \in {j \in DOMAIN table : /\ table[j][1] = p
                                                       /\ ~conns[table[j][2]].closed}}}

Route(p) == {r[2] : r \in {table[i] : i \in {j \in DOMAIN table : table[j][1] = p}}}

RecvKnown(p) ==
  \E id \in Route(p) :
    /\ \/ \E in \in Inputs(conns[id].t) :
            /\ in = "stream" => Len(conns[id].events) < MaxEvents
            /\ conns' = [conns EXCEPT ![id] = Recv(@, in)]
       \/ /\ Failures /\ conns[id].t \in {"handshake", "open"}
          /\ conns' = [conns EXCEPT ![id] = RecvFatal(@)]
    /\ table' = Cleaned(table, conns')
    /\ UNCHANGED <<accepted, given, wire>>

(* ServerConnection::accept: a server connection that has read its Initial *)
AcceptedConn == NewConn("handshake")

(* no route: the datagram is accepted; when accept throws nothing changes  *)
RecvNew(p) ==
  LET id == Len(conns) + 1 IN
  /\ "method" \in Dispatch /\ Route(p) = {} /\ id <= MaxConns
  /\ conns' = Append(conns, AcceptedConn)
  /\ table' = Cleaned(Append(table, <<p, id>>), conns')
  /\ accepted' = Append(accepted, id)
  /\ UNCHANGED <<given, wire>>

(* recv() looks for a function "accept", not for the method: PHP's         *)
(* call_user_function ignores the function table it is given, and takes    *)
(* the name for a global one when there is no object.  There is none, and  *)
(* recv() throws before it adds a row.  "missing" is the source as it      *)
(* stands, "method" is what its other methods are written for.             *)
RecvRefused(p) ==
  /\ "missing" \in Dispatch /\ Route(p) = {}
  /\ refused' = refused \cup {p}
  /\ UNCHANGED <<conns, table, accepted, given, onWire, discarded>>

----------------------------------------------------------------------------
(* Sweeps.  The call that throws, if any, is the one of row n; the rows up *)
(* to n have been called (all of them when n is the length of the table).  *)

Called(n) == {table[i][2] : i \in 1..n}

SweepTo(n, threw, Op(_), FailOp(_)) ==
  /\ conns' = [id \in Ids |->
                 IF id \notin Called(n) THEN conns[id]
                 ELSE IF threw /\ id = table[n][2] THEN FailOp(conns[id])
                 ELSE Op(conns[id])]
  /\ \/ table' = Cleaned(table, conns')
     \/ threw /\ n < Len(table) /\ UNCHANGED table

handleTimers ==
  /\ \/ SweepTo(Len(table), FALSE, HandleTimers, HandleTimersFatal)
     \/ \E n \in DOMAIN table :
          /\ Failures /\ ~conns[table[n][2]].closed
          /\ SweepTo(n, TRUE, HandleTimers, HandleTimersFatal)
  /\ UNCHANGED <<accepted, given, wire>>

(* The connections among ids whose CONNECTION_CLOSE a call writes          *)
CloseWritten(ids) == {id \in ids : ClosePending(conns[id]) /\ WritesClose(conns[id])}

drainOutgoingDatagrams ==
  /\ SweepTo(Len(table), FALSE, DrainOutgoing, DrainFatal)
  /\ onWire' = onWire \cup CloseWritten(Managed)
  /\ UNCHANGED <<accepted, given, discarded, refused>>

(* the call of row n throws: what the rows before it wrote is lost with    *)
(* the aggregate array                                                     *)
drainThrows ==
  /\ Failures
  /\ \E n \in DOMAIN table :
       /\ SweepTo(n, TRUE, DrainOutgoing, DrainFatal)
       /\ discarded' = discarded \cup CloseWritten(Called(n - 1))
  /\ UNCHANGED <<accepted, given, onWire, refused>>

(* drainEvents() of a connection does not throw                            *)
drainEvents ==
  /\ SweepTo(Len(table), FALSE, DrainEvents, DrainEvents)
  /\ UNCHANGED <<accepted, given, wire>>

(* Fault: the queue is returned and not emptied                            *)
QueueAfterDrain_Kept == accepted

QueueAfterDrain == <<>>

drainAcceptedConnections ==
  /\ accepted # <<>>
  /\ given' = given \o accepted
  /\ accepted' = QueueAfterDrain
  /\ UNCHANGED <<conns, table, wire>>

----------------------------------------------------------------------------
(* The application on a connection it holds                                *)

Held(id) == \E i \in DOMAIN given : given[i] = id

AppClose(id) ==
  /\ Held(id) /\ ~conns[id].close_requested
  /\ conns' = [conns EXCEPT ![id] = Close(@, "app")]
  /\ UNCHANGED <<table, accepted, given, wire>>

AppDrainOutgoing(id) ==
  /\ Held(id)
  /\ conns' = [conns EXCEPT ![id] = DrainOutgoing(@)]
  /\ onWire' = onWire \cup CloseWritten({id})
  /\ UNCHANGED <<table, accepted, given, discarded, refused>>

AppDrainEvents(id) ==
  /\ Held(id) /\ conns[id].events # <<>>
  /\ conns' = [conns EXCEPT ![id] = DrainEvents(@)]
  /\ UNCHANGED <<table, accepted, given, wire>>

Next ==
  \/ \E p \in Peers : RecvKnown(p) \/ RecvNew(p) \/ RecvRefused(p)
  \/ handleTimers
  \/ drainOutgoingDatagrams
  \/ drainThrows
  \/ drainEvents
  \/ drainAcceptedConnections
  \/ \E id \in Ids : AppClose(id) \/ AppDrainOutgoing(id) \/ AppDrainEvents(id)

Spec == Init /\ [][Next]_vars

(* The server's loop keeps draining the endpoint's datagrams, also after   *)
(* an exception; ngtcp2 does not fail in every drain.                      *)
FairSpec == Spec /\ WF_vars(drainOutgoingDatagrams)
----------------------------------------------------------------------------
(* Every row of the table names a connection object that exists.           *)
TypeOK ==
  /\ conns \in Seq(Conn)
  /\ table \in Seq(Peers \X Ids)
  /\ accepted \in Seq(Ids) /\ given \in Seq(Ids)
  /\ onWire \subseteq Ids /\ discarded \subseteq Ids /\ refused \subseteq Peers

(* drainAcceptedConnections() returns every connection recv() accepted,    *)
(* once, in the order of acceptance, also one that was closed and removed  *)
(* from the table in the meantime.                                         *)
AcceptedOnce == given \o accepted = [i \in 1..Len(conns) |-> i]

(* A connection that close() was called on leaves the table only after its *)
(* CONNECTION_CLOSE was written, to the caller or into an array that the   *)
(* exception of another connection threw away, unless the peer closed      *)
(* first and no such packet may be sent.                                   *)
CloseFrameReturned ==
  \A id \in Ids :
    conns[id].close_requested /\ id \notin Managed
      => id \in onWire \cup discarded \/ conns[id].t = "draining"

(* The table does not leak: a closed connection leaves it, as long as the  *)
(* server keeps draining.                                                  *)
ClosedLeaves ==
  \A id \in 1..MaxConns :
    (id \in Managed /\ conns[id].closed) ~> id \notin Managed

(* An Initial from an address without a connection is handed to            *)
(* ServerConnection::accept().                                             *)
InitialsAccepted == refused = {}
----------------------------------------------------------------------------
(* The inductive invariant of the proofs.  The endpoint notices a period   *)
(* of the close in the call that enters it, only a close() that was asked  *)
(* for writes a packet, and nothing but close() or the peer ends a         *)
(* connection.                                                             *)
ConnOK(c) ==
  /\ c.t # "initial"
  /\ c.t \in Periods => c.closed
  /\ c.t = "closing" => c.close_packet_sent
  /\ c.close_packet_sent => c.close_requested
  /\ c.close_requested => c.closed
  /\ c.closed => c.close_requested \/ c.t \in Periods

ConnInv == \A id \in Ids : ConnOK(conns[id])

(* What leaves the table has settled its close, or the peer closed it.     *)
GoneInv ==
  \A id \in Ids \ Managed : conns[id].close_packet_sent \/ conns[id].t = "draining"

(* A close that is settled was written, unless the peer closed.            *)
WireInv ==
  \A id \in Ids :
    conns[id].close_packet_sent =>
      id \in onWire \cup discarded \/ conns[id].t = "draining"

(* What the table is for: one row for a peer, one for a connection.        *)
RowsInv ==
  \A i, j \in DOMAIN table :
    table[i][1] = table[j][1] \/ table[i][2] = table[j][2] => i = j

EndpointInv == TypeOK /\ AcceptedOnce /\ ConnInv /\ GoneInv /\ WireInv

(* How the endpoint stands to its peers: the connection a peer is routed   *)
(* to, and how far the close of each connection has come                   *)
routes == [p \in Peers |-> IF Route(p) = {} THEN 0 ELSE CHOOSE id \in Route(p) : TRUE]

PhaseOf(c) == IF c.close_packet_sent \/ c.t = "draining" THEN "over"
              ELSE IF c.close_requested THEN "asked" ELSE "up"

phases == [id \in Ids |-> PhaseOf(conns[id])]

Routing == INSTANCE Acceptor
  WITH route <- routes, phase <- phases, queue <- accepted, frames <- onWire \cup discarded

(* Whatever the datagrams, the calls and the exceptions in the middle of a *)
(* sweep: one connection holds a peer's route until its close is settled,  *)
(* its CONNECTION_CLOSE is written at most once and only if the            *)
(* application closed it first, and every accepted connection is handed    *)
(* out once, in order.  See Acceptor.                                      *)
ImplementsAcceptor == Routing!Spec
============================================================================
