----------------------------- MODULE Lifecycle -----------------------------
(***************************************************************************)
(* One connection from its construction to its close: the methods of       *)
(* Connection called in any order, against a peer and an ngtcp2 that may   *)
(* complete the handshake, close, fall silent or fail at any moment.       *)
(***************************************************************************)
EXTENDS Connection, Selection

CONSTANTS
  FirstStates,  \* "initial" for a client, "handshake" for an accepted server
  Codes,        \* the errors close() may be given: "app0" when the code is zero
  Failures,     \* whether ngtcp2 may fail with an error that is thrown
  MaxStream     \* bound: stream events the peer causes

ASSUME LifecycleAssumption ==
  /\ FirstStates \subseteq {"initial", "handshake"}
  /\ Codes \subseteq {"app", "app0"}
  /\ Failures \in BOOLEAN
  /\ MaxStream \in Nat

VARIABLES
  c,        \* the connection
  log,      \* history: every event pushed
  asked,    \* history: the error given to the first close(), or "none"
  carried   \* history: the last_error the CONNECTION_CLOSE packet carried

vars == <<c, log, asked, carried>>

Init ==
  /\ c \in {NewConn(t) : t \in FirstStates}
  /\ log = <<>>
  /\ asked = "none"
  /\ carried = "none"

Occurs(type) == \E i \in DOMAIN log : log[i].type = type

(* The connection becomes d; the events d has more are logged              *)
Becomes(d) ==
  /\ c' = d
  /\ log' = log \o SubSeq(d.events, Len(c.events) + 1, Len(d.events))

StreamBound == Len(SelectSeq(log, LAMBDA e : e.type = "Stream")) < MaxStream

recv(in) ==
  /\ in \in Inputs(c.t) /\ (in = "stream" => StreamBound)
  /\ Becomes(Recv(c, in))
  /\ UNCHANGED <<asked, carried>>

recvFatal ==
  /\ Failures /\ c.t \in {"handshake", "open"}
  /\ Becomes(RecvFatal(c))
  /\ UNCHANGED <<asked, carried>>

onTimeout ==
  /\ Becomes(HandleTimers(c))
  /\ UNCHANGED <<asked, carried>>

(* the handshake timed out, or ngtcp2 failed                               *)
onTimeoutFatal ==
  /\ Failures /\ ~c.closed
  /\ Becomes(HandleTimersFatal(c))
  /\ UNCHANGED <<asked, carried>>

close(err) ==
  /\ Becomes(Close(c, err))
  /\ asked' = IF c.close_requested THEN asked ELSE err
  /\ UNCHANGED carried

drainOutgoingDatagrams ==
  /\ Becomes(DrainOutgoing(c))
  /\ carried' = IF ClosePending(c) /\ WritesClose(c) THEN c.last_error ELSE carried
  /\ UNCHANGED asked

drainFatal ==
  /\ Failures
  /\ Becomes(DrainFatal(c))
  /\ UNCHANGED <<asked, carried>>

drainEvents ==
  /\ c' = DrainEvents(c)
  /\ UNCHANGED <<log, asked, carried>>

(* The peer is silent for the idle timeout                                 *)
IdleExpires ==
  /\ c.t \in {"handshake", "open"} /\ ~c.idle
  /\ c' = [c EXCEPT !.idle = TRUE]
  /\ UNCHANGED <<log, asked, carried>>

Next ==
  \/ \E in \in {"data", "finished", "stream", "close"} : recv(in)
  \/ recvFatal
  \/ onTimeout
  \/ onTimeoutFatal
  \/ \E err \in Codes : close(err)
  \/ drainOutgoingDatagrams
  \/ drainFatal
  \/ drainEvents
  \/ IdleExpires

Spec == Init /\ [][Next]_vars

(* The event loop of the application keeps calling drainOutgoingDatagrams  *)
(* and onTimeout, as the examples and the README ask it to, and calls them *)
(* again after an exception; ngtcp2 does not fail every time.              *)
FairSpec == /\ Spec
            /\ WF_vars(drainOutgoingDatagrams)
            /\ WF_vars(onTimeout)
----------------------------------------------------------------------------
(* Every field keeps its type; last_error is always one of the errors a    *)
(* CONNECTION_CLOSE can carry.                                             *)
TypeOK ==
  /\ c \in Conn /\ log \in Seq(Event)
  /\ asked \in {"none"} \cup Codes /\ carried \in {"none", "lib", "app", "app0"}

(* isClosed() and the ConnectionClosed event agree at the end of every     *)
(* call: the connection says it is closed when, and only when, the event   *)
(* has been pushed, and it is pushed once, whatever the order of close(),  *)
(* a CONNECTION_CLOSE from the peer and the close packet.                  *)
ClosedOnce ==
  LET closings == {i \in DOMAIN log : log[i].type = "ConnectionClosed"} IN
  /\ c.closed <=> closings # {}
  /\ \A i, j \in closings : i = j

(* ConnectionClosed says by_peer only when the peer closed.                *)
ByPeerHonest ==
  \A i \in DOMAIN log :
    log[i].type = "ConnectionClosed" /\ log[i].by_peer => c.t = "draining"

(* ngtcp2's closing and draining periods never go unnoticed: no call       *)
(* returns with the transport gone and the flags unset.                    *)
PeriodsNoticed == /\ c.t \in Periods => c.closed
                  /\ c.t = "draining" => c.draining /\ Occurs("ConnectionDraining")

(* The CONNECTION_CLOSE packet carries the error given to close(), also    *)
(* when recv() or onTimeout() fails before or after the call.  Holds while *)
(* the code is not zero: recv() takes a zero code for no error at all.     *)
CloseReasonKept == carried # "none" => carried = asked

(* The strengthening that makes these inductive: each announcement is in   *)
(* the log once the flag that guards it is set, the connection drains only *)
(* because the peer closed, and last_error is the reason given to close()  *)
(* until the close packet is settled, as long as the code is not zero.     *)
AnnouncedInv ==
  /\ c.closed <=> c.close_event_emitted
  /\ c.close_event_emitted <=> Occurs("ConnectionClosed")
  /\ c.draining <=> c.draining_event_emitted
  /\ c.draining_event_emitted <=> Occurs("ConnectionDraining")
  /\ c.draining => c.t = "draining"

RequestInv ==
  /\ c.close_requested => c.closed /\ c.last_error # "none"
  /\ c.close_packet_sent => c.close_requested
  /\ c.close_requested <=> asked # "none"
  /\ carried # "none" => c.close_packet_sent /\ c.t \in Periods

ReasonInv ==
  /\ ClosePending(c) => c.last_error = asked
  /\ CloseReasonKept

LifecycleInv == /\ TypeOK /\ AnnouncedInv /\ RequestInv
                /\ ClosedOnce /\ ByPeerHonest /\ PeriodsNoticed

(* close() completes, also when there is no packet to write because the    *)
(* client has sent nothing or the peer closed first: close_packet_sent is  *)
(* what lets the transmit loop and the endpoint's cleanup go on.           *)
CloseCompletes == c.close_requested ~> c.close_packet_sent

(* A connection whose idle timer has expired ends up closed, unless the    *)
(* peer speaks again.                                                      *)
IdleCloses == c.idle ~> c.closed \/ ~c.idle

(* The events that announce the end of a connection                        *)
EndEvents == {e \in Event : e.type \in {"ConnectionClosed", "ConnectionDraining"}}

(* Whatever the order of close(), the peer's CONNECTION_CLOSE, the drains, *)
(* timeouts and failures, the application and the peer are told of the end *)
(* as CloseProtocol says: each event once and in order, with the flags,    *)
(* and a CONNECTION_CLOSE only for a close of our own.                     *)
Promise == INSTANCE CloseProtocol WITH
  told     <- Select(log, EndEvents),
  closed   <- c.closed,
  draining <- c.draining,
  sent     <- carried # "none"

ImplementsClose == Promise!Spec
============================================================================
