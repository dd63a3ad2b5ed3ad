------------------------------ MODULE Acceptor ------------------------------
(***************************************************************************)
(* What a server endpoint promises: of the connections it accepts, one at  *)
(* a time holds the route of a peer, from its acceptance until it is over, *)
(* so that no datagram reaches a connection it was not meant for and a     *)
(* peer is not accepted again before; the application gets each connection *)
(* once, in the order of acceptance; and a connection the application      *)
(* closes is over when its CONNECTION_CLOSE is written, once, or when the  *)
(* peer has closed it before.                                              *)
(***************************************************************************)
EXTENDS Naturals, Sequences

CONSTANT Peers

VARIABLES
  route,   \* of each peer: the number of its connection, 0 for none
  phase,   \* of each connection: "up", "asked" (close() was called) or "over"
  queue,   \* connections accepted and not handed out yet
  given,   \* connections handed out
  frames   \* connections whose CONNECTION_CLOSE was written

Init ==
  /\ route = [p \in Peers |-> 0]
  /\ phase = <<>>
  /\ queue = <<>>
  /\ given = <<>>
  /\ frames = {}

(* From the routes r, some of connections that are over are forgotten.     *)
Forgets(r) ==
  \E gone \in SUBSET {p \in Peers : r[p] # 0 /\ phase'[r[p]] = "over"} :
    route' = [p \in Peers |-> IF p \in gone THEN 0 ELSE r[p]]

(* A datagram of a peer without a route becomes a connection               *)
Accept(p) ==
  /\ route[p] = 0
  /\ phase' = Append(phase, "up")
  /\ Forgets([route EXCEPT ![p] = Len(phase')])
  /\ queue' = Append(queue, Len(phase'))
  /\ UNCHANGED <<given, frames>>

(* The peer closes the connection it is routed to                          *)
PeerCloses(p) ==
  /\ route[p] # 0
  /\ phase' = [phase EXCEPT ![route[p]] = "over"]
  /\ Forgets(route)
  /\ UNCHANGED <<queue, given, frames>>

(* The application closes a connection it was given                        *)
Ask(id) ==
  /\ phase[id] = "up" /\ \E i \in DOMAIN given : given[i] = id
  /\ phase' = [phase EXCEPT ![id] = "asked"]
  /\ UNCHANGED <<route, queue, given, frames>>

(* The CONNECTION_CLOSE of some of the closed connections is written       *)
WriteCloses(ids) ==
  /\ phase' = [id \in DOMAIN phase |-> IF id \in ids THEN "over" ELSE phase[id]]
  /\ frames' = frames \cup ids
  /\ Forgets(route)
  /\ UNCHANGED <<queue, given>>

HandOut ==
  /\ given' = given \o queue
  /\ queue' = <<>>
  /\ UNCHANGED <<route, phase, frames>>

Next ==
  \/ \E p \in Peers : Accept(p) \/ PeerCloses(p)
  \/ \E id \in DOMAIN phase : Ask(id)
  \/ \E ids \in SUBSET {id \in DOMAIN phase : phase[id] = "asked"} : WriteCloses(ids)
  \/ HandOut

Spec == Init /\ [][Next]_<<route, phase, queue, given, frames>>
============================================================================
