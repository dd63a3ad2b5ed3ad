--------------------------- MODULE CloseProtocol ---------------------------
(***************************************************************************)
(* What a connection promises about its end, whoever ends it: the events   *)
(* of the close it tells the application, in the order it tells them, what *)
(* isClosed() and isDraining() say, and whether the peer is told.          *)
(***************************************************************************)
EXTENDS Sequences

VARIABLES
  told,      \* the ConnectionClosed and ConnectionDraining events, in order
  closed,    \* isClosed()
  draining,  \* isDraining()
  sent       \* a CONNECTION_CLOSE packet was written

vars == <<told, closed, draining, sent>>

Closed(by_peer) == [type |-> "ConnectionClosed", by_peer |-> by_peer]
Draining        == [type |-> "ConnectionDraining", by_peer |-> TRUE]

Init == told = <<>> /\ ~closed /\ ~draining /\ ~sent

(* The application closes a connection that is up                          *)
CloseLocally ==
  /\ ~closed
  /\ closed' = TRUE
  /\ told' = Append(told, Closed(FALSE))
  /\ UNCHANGED <<draining, sent>>

(* The peer closes, first or after the application                         *)
CloseByPeer ==
  /\ ~draining
  /\ draining' = TRUE /\ closed' = TRUE
  /\ told' = told \o IF closed THEN <<Draining>> ELSE <<Draining, Closed(TRUE)>>
  /\ UNCHANGED sent

(* The peer is told, once, of a close it has not made itself               *)
TellPeer ==
  /\ closed /\ ~draining /\ ~sent
  /\ sent' = TRUE
  /\ UNCHANGED <<told, closed, draining>>

Next == CloseLocally \/ CloseByPeer \/ TellPeer

Spec == Init /\ [][Next]_vars
============================================================================
