----------------------------- MODULE Connection -----------------------------
(***************************************************************************)
(* The life of one php_quic_connection, as operators on a record: its      *)
(* flags, its event queue and what it can observe of ngtcp2.  Lifecycle    *)
(* runs one such record, ServerEndpoint a table of them.                   *)
(*                                                                         *)
(* t is ngtcp2's state: "initial" (a client that has sent nothing),        *)
(* "handshake", "open", and the closing and draining periods of RFC 9000.  *)
(* idle says that the idle timer has expired.  last_error is the ccerr a   *)
(* CONNECTION_CLOSE will carry: "lib" for an error of ngtcp2, "app" and    *)
(* "app0" for an error of the application with a code other than, and      *)
(* equal to, zero.  Streams are in module Streams; here they show as the   *)
(* events a packet pushes.                                                 *)
(***************************************************************************)
EXTENDS Naturals, Sequences

Periods == {"closing", "draining"}

EventType == {"HandshakeCompleted", "ConnectionClosed", "ConnectionDraining", "Stream"}

Event == [type : EventType, by_peer : BOOLEAN]

Conn == [t : {"initial", "handshake", "open"} \cup Periods, idle : BOOLEAN,
         last_error : {"none", "lib", "app", "app0"}, events : Seq(Event),
         established : BOOLEAN, closed : BOOLEAN, draining : BOOLEAN,
         close_requested : BOOLEAN, close_packet_sent : BOOLEAN,
         close_event_emitted : BOOLEAN, draining_event_emitted : BOOLEAN]

(* create_object, then __construct (a client) or accept() (a server)       *)
NewConn(t) ==
  [t |-> t, idle |-> FALSE, last_error |-> "none", events |-> <<>>,
   established |-> FALSE, closed |-> FALSE, draining |-> FALSE,
   close_requested |-> FALSE, close_packet_sent |-> FALSE,
   close_event_emitted |-> FALSE, draining_event_emitted |-> FALSE]

PushEvent(c, type, by_peer) ==
  [c EXCEPT !.events = Append(@, [type |-> type, by_peer |-> by_peer])]

----------------------------------------------------------------------------
(* php_quic_connection_sync_state: first the draining period, then either  *)

SyncDraining(c) ==
  IF c.draining_event_emitted THEN [c EXCEPT !.draining = TRUE]
  ELSE PushEvent([c EXCEPT !.draining = TRUE, !.draining_event_emitted = TRUE],
                 "ConnectionDraining", TRUE)

(* Fault: the event does not look whether close() has announced it         *)
SyncClosed_Repeats(c) ==
  PushEvent([c EXCEPT !.closed = TRUE, !.close_event_emitted = TRUE],
            "ConnectionClosed", TRUE)

SyncClosed(c) ==
  IF c.close_event_emitted THEN [c EXCEPT !.closed = TRUE]
  ELSE PushEvent([c EXCEPT !.closed = TRUE, !.close_event_emitted = TRUE],
                 "ConnectionClosed", TRUE)

(* Fault: the close is announced before the draining period                *)
SyncState_ClosedFirst(c) ==
  LET d == IF c.t \in Periods THEN SyncClosed(c) ELSE c
  IN IF d.t = "draining" THEN SyncDraining(d) ELSE d

SyncState(c) ==
  LET d == IF c.t = "draining" THEN SyncDraining(c) ELSE c
  IN IF d.t \in Periods THEN SyncClosed(d) ELSE d

----------------------------------------------------------------------------
(* recv(): ngtcp2_conn_read_pkt and the callbacks it runs.  A client that  *)
(* has sent nothing ignores input; in the closing and draining periods     *)
(* ngtcp2 answers CLOSING and DRAINING and nothing changes.                *)

HandshakeCompletedCb(c) ==
  IF c.established THEN c
  ELSE PushEvent([c EXCEPT !.established = TRUE], "HandshakeCompleted", FALSE)

(* What a datagram from the peer can be to ngtcp2 in state t               *)
Inputs(t) == CASE t = "handshake" -> {"data", "finished", "close"}
               [] t = "open" -> {"data", "stream", "close"}
               [] OTHER -> {"data"}

ReadPkt(c, in) ==
  LET d == IF c.t \in {"handshake", "open"} THEN [c EXCEPT !.idle = FALSE] ELSE c
  IN CASE in = "data" -> d
       [] in = "finished" -> HandshakeCompletedCb([d EXCEPT !.t = "open"])
       [] in = "stream" -> PushEvent(d, "Stream", FALSE)
       [] in = "close" -> [d EXCEPT !.t = "draining"]

(* Fault: an error code of ngtcp2 leaves recv() without sync_state         *)
Recv_SkipsSync(c, in) == IF in = "close" THEN ReadPkt(c, in) ELSE SyncState(ReadPkt(c, in))

Recv(c, in) == SyncState(ReadPkt(c, in))

(* Fault: the error of read_pkt replaces the one there is                  *)
RecvFatal_Overwrites(c) == [c EXCEPT !.last_error = "lib"]

(* an error of read_pkt: thrown, with last_error set unless it has a code  *)
RecvFatal(c) ==
  [c EXCEPT !.last_error = IF @ \in {"lib", "app"} THEN @ ELSE "lib"]

----------------------------------------------------------------------------
(* php_quic_connection_handle_timers: nothing for a closed connection;     *)
(* after handle_expiry (also when it answers IDLE_CLOSE), sync_state       *)
HandleTimers(c) == IF c.closed THEN c ELSE SyncState(c)

(* Fault: the number ngtcp2 returned is stored, not the error it stands for *)
HandleTimersFatal_StoresRv(c) == IF c.closed THEN c ELSE [c EXCEPT !.last_error = "rv"]

HandleTimersFatal(c) == IF c.closed THEN c ELSE [c EXCEPT !.last_error = "lib"]

----------------------------------------------------------------------------
(* Fault: the event is left to sync_state                                  *)
Close_LeavesEvent(c, err) ==
  IF c.close_requested THEN c
  ELSE [c EXCEPT !.last_error = err, !.close_requested = TRUE]

(* close(): err is "app" or "app0"                                         *)
Close(c, err) ==
  LET d == [c EXCEPT !.last_error = err, !.close_requested = TRUE, !.closed = TRUE]
  IN IF c.close_requested THEN c
     ELSE IF c.close_event_emitted THEN d
     ELSE PushEvent([d EXCEPT !.close_event_emitted = TRUE], "ConnectionClosed", FALSE)

----------------------------------------------------------------------------
(* drainOutgoingDatagrams(): the close packet first, then the loop         *)

ClosePending(c) == c.close_requested /\ ~c.close_packet_sent

(* write_connection_close writes a packet only while the connection is up; *)
(* otherwise it returns 0                                                  *)
WritesClose(c) == c.t \in {"handshake", "open"}

(* Fault: close_packet_sent is set only when a packet was written          *)
DrainClose_OnlyIfWritten(c) ==
  IF WritesClose(c) THEN [c EXCEPT !.t = "closing", !.close_packet_sent = TRUE] ELSE c

DrainClose(c) == [c EXCEPT !.t = IF WritesClose(c) THEN "closing" ELSE @,
                           !.close_packet_sent = TRUE]

(* The loop, as seen from here: the first flight of a client starts the    *)
(* handshake; in the closing and draining periods nothing is written.      *)
DrainLoop(c) == SyncState(IF c.t = "initial" THEN [c EXCEPT !.t = "handshake"] ELSE c)

DrainOutgoing(c) == IF ClosePending(c) THEN DrainClose(c) ELSE DrainLoop(c)

DrainFatal(c) == IF ClosePending(c) THEN c ELSE [c EXCEPT !.last_error = "lib"]

DrainEvents(c) == [c EXCEPT !.events = <<>>]
============================================================================
