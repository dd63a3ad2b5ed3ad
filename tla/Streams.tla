------------------------------ MODULE Streams ------------------------------
(***************************************************************************)
(* The stream table of one QUIC connection: what the Stream methods, the   *)
(* ngtcp2 callbacks and the transmit loop of                               *)
(* Connection::drainOutgoingDatagrams() do to php_quic_stream_entry.       *)
(*                                                                         *)
(* Bytes are counted, not stored.  PHP runs one thread, so no call         *)
(* interleaves with another; what interleaves is the ORDER of the calls    *)
(* with the callbacks that packets trigger, and the answers ngtcp2 gives   *)
(* to each iteration of the transmit loop.  ngtcp2 itself is external: the *)
(* variables tr, tNext, tLimit, tConn, cwnd, ppe and ctl hold what the     *)
(* extension can observe of it.  How the connection reaches its closed     *)
(* state is the subject of module Lifecycle; here it is three short        *)
(* actions.                                                                *)
(***************************************************************************)
EXTENDS Integers, Sequences

CONSTANTS
  StreamIds,     \* the stream ids of the instance
  IsServer,      \* ngtcp2_conn_is_server()
  WriteSizes,    \* lengths of the strings passed to write() and end()
  MaxBytes,      \* bound: bytes the application hands to one stream
  MaxRx,         \* bound: bytes the peer sends on one stream
  MaxCredit,     \* bound: flow control credit the peer grants one stream
  MaxCwnd,       \* bound: packets the congestion window lets through
  Env,           \* optional behaviours of the instance: see ConstantsAssumption
  MaxDatagrams   \* datagrams one drain call returns at most (256 in the code)

ASSUME ConstantsAssumption ==
  /\ StreamIds \subseteq Nat
  /\ IsServer \in BOOLEAN
  /\ WriteSizes \subseteq Nat
  /\ MaxBytes \in Nat
  /\ MaxRx \in Nat
  /\ MaxCredit \in Nat
  /\ MaxCwnd \in Nat
  /\ Env \subseteq {"fatal", "stop", "reset", "close"}
  /\ MaxDatagrams \in Nat \ {0}

VARIABLES
  entry,         \* connection->streams: the entry of each stream id
  order,         \* insertion order of the hash table
  nextId,        \* next_bidi_stream_id (TRUE) and next_uni_stream_id (FALSE)
  connClosed,    \* connection->closed
  closing,       \* close_requested and close_packet_sent: "no", "requested", "sent"
  pc,            \* "drain" inside the loop of drainOutgoingDatagrams()
  forceConnOnly, \* the loop's force_conn_only
  ndgram,        \* the loop's emitted
  result,        \* how the last drain call ended: returned, threw, threw "mismatch"
  pushed,        \* the events the last step pushed
  tr,            \* ngtcp2's view of each stream
  tNext,         \* the id ngtcp2 gives to the next local stream of a kind
  tLimit,        \* number of streams of a kind the peer lets ngtcp2 open
  tConn,         \* "open", "closing" or "draining"
  cwnd,          \* packets the congestion window still lets through
  ppe,           \* ngtcp2 holds a partial packet (it answered WRITE_MORE)
  ctl,           \* ngtcp2 has control frames to send (an ACK, a RESET_STREAM)
  accepted,      \* history: bytes write() and end() took for a stream
  dropped        \* history: bytes discard_tx_entry threw away

table    == <<entry, order>>
flags    == <<connClosed, closing>>
loopVars == <<pc, forceConnOnly, ndgram, result>>
tIds     == <<tNext, tLimit>>
packet   == <<cwnd, ppe, ctl>>
tVars    == <<tr, tIds, tConn, packet>>
history  == <<accepted, dropped>>
vars     == <<table, nextId, flags, loopVars, pushed, tVars, history>>

----------------------------------------------------------------------------
(* Stream ids: bit 0 tells who opened the stream, bit 1 whether it is      *)
(* unidirectional.                                                         *)

Bidi(s)  == (s \div 2) % 2 = 0
Local(s) == s % 2 = IF IsServer THEN 1 ELSE 0
RemoteUni(s) == ~Bidi(s) /\ ~Local(s)
MinId(bidi)  == (IF bidi THEN 0 ELSE 2) + (IF IsServer THEN 1 ELSE 0)

Entry == [present : BOOLEAN, tx_len : Nat, tx_offset : Nat, rx_len : Nat,
          readable : BOOLEAN, writable : BOOLEAN, closed : BOOLEAN,
          reset : BOOLEAN, fin_sent : BOOLEAN, fin_recv : BOOLEAN,
          fin_pending : BOOLEAN, pending_open : BOOLEAN]

NoEntry ==
  [present |-> FALSE, tx_len |-> 0, tx_offset |-> 0, rx_len |-> 0,
   readable |-> FALSE, writable |-> FALSE, closed |-> FALSE,
   reset |-> FALSE, fin_sent |-> FALSE, fin_recv |-> FALSE,
   fin_pending |-> FALSE, pending_open |-> FALSE]

EntryAlloc == [NoEntry EXCEPT !.present = TRUE, !.writable = TRUE]

(* php_quic_connection_open_stream_entry: the entry there is, or a new one *)
OpenEntry(s) == IF entry[s].present THEN entry[s] ELSE EntryAlloc

PutEntry(s, e) ==
  /\ entry' = [entry EXCEPT ![s] = e]
  /\ order' = IF entry[s].present THEN order ELSE Append(order, s)

(* ngtcp2's view: wr is the sending side ("none" before the stream is      *)
(* open, "gone" after stream_close), rd the receiving side                 *)
Transport == [wr : {"none", "open", "fin", "shut", "gone"},
              rd : {"open", "done"}, sent : Nat, credit : Nat]

NoTransport == [wr |-> "none", rd |-> "open", sent |-> 0, credit |-> 0]

Opened(s) == [NoTransport EXCEPT
                !.wr = IF RemoteUni(s) THEN "shut" ELSE "open",
                !.rd = IF Local(s) /\ ~Bidi(s) THEN "done" ELSE "open"]

ReadDone(t) == [t EXCEPT !.rd = "done"]

(* ngtcp2 takes n bytes of the stream into a packet, the FIN if fin        *)
Framed(t, n, fin) == [t EXCEPT !.sent = @ + n, !.credit = @ - n,
                               !.wr = IF fin THEN "fin" ELSE @]

Event(type, s) == [type |-> type, stream |-> s]

Init ==
  /\ entry = [s \in StreamIds |-> NoEntry]
  /\ order = <<>>
  /\ nextId = [bidi \in BOOLEAN |-> IF bidi THEN 0 ELSE 2]
  /\ connClosed = FALSE
  /\ closing = "no"
  /\ pc = "idle"
  /\ forceConnOnly = FALSE
  /\ ndgram = 0
  /\ result = "returned"
  /\ pushed = {}
  /\ tr = [s \in StreamIds |-> NoTransport]
  /\ tNext = [bidi \in BOOLEAN |-> MinId(bidi)]
  /\ tLimit = [bidi \in BOOLEAN |-> 0]
  /\ tConn = "open"
  /\ cwnd = MaxCwnd
  /\ ppe = FALSE
  /\ ctl = FALSE
  /\ accepted = [s \in StreamIds |-> 0]
  /\ dropped = [s \in StreamIds |-> 0]

----------------------------------------------------------------------------
(* Opening streams                                                         *)

(* ngtcp2 looks at the peer's limit only, not at the state of the connection *)
CanOpen(bidi) == tNext[bidi] \div 4 < tLimit[bidi]

TransportOpen(bidi) ==
  /\ tr' = [tr EXCEPT ![tNext[bidi]] = Opened(tNext[bidi])]
  /\ tNext' = [tNext EXCEPT ![bidi] = @ + 4]

(* Fault: the counter is reset by every call                               *)
EnsuredNextId_Restarts(bidi) == MinId(bidi)

(* php_quic_connection_ensure_next_stream_id                               *)
EnsuredNextId(bidi) ==
  IF nextId[bidi] < MinId(bidi) \/ nextId[bidi] % 4 # MinId(bidi) % 4
  THEN MinId(bidi) ELSE nextId[bidi]

LocalOpened(e, pending) == [e EXCEPT !.pending_open = pending, !.writable = TRUE]

(* What openStream() and openUniStream() do once the id is known           *)
FinishOpen(s, pending) ==
  /\ PutEntry(s, LocalOpened(OpenEntry(s), pending))
  /\ pushed' = {Event("StreamOpened", s), Event("StreamWritable", s)}

(* Fault: the counter is not moved past the id ngtcp2 gave                 *)
NextIdAfter_Same(bidi, id) == EnsuredNextId(bidi)

NextIdAfter(bidi, id) ==
  IF id >= EnsuredNextId(bidi) THEN id + 4 ELSE EnsuredNextId(bidi)

(* openStream() (bidi) and openUniStream(): ngtcp2 opens the stream        *)
OpenNow(bidi) ==
  /\ pc = "idle" /\ ~connClosed /\ CanOpen(bidi)
  /\ tNext[bidi] \in StreamIds
  /\ TransportOpen(bidi)
  /\ FinishOpen(tNext[bidi], FALSE)
  /\ nextId' = [nextId EXCEPT ![bidi] = NextIdAfter(bidi, tNext[bidi])]
  /\ UNCHANGED <<flags, loopVars, tLimit, tConn, packet, history>>

(* the same calls when ngtcp2 answers STREAM_ID_BLOCKED: an id is reserved *)
OpenBlocked(bidi) ==
  /\ pc = "idle" /\ ~connClosed /\ ~CanOpen(bidi)
  /\ EnsuredNextId(bidi) \in StreamIds
  /\ FinishOpen(EnsuredNextId(bidi), TRUE)
  /\ nextId' = [nextId EXCEPT ![bidi] = EnsuredNextId(bidi) + 4]
  /\ UNCHANGED <<flags, loopVars, tVars, history>>

----------------------------------------------------------------------------
(* Stream methods                                                          *)

Appended(e, n) == [e EXCEPT !.tx_len = @ + n, !.writable = FALSE]

Write(s, n) ==
  /\ pc = "idle" /\ entry[s].present /\ ~RemoteUni(s)
  /\ ~entry[s].closed /\ ~entry[s].fin_sent /\ ~entry[s].fin_pending
  /\ accepted[s] + n <= MaxBytes
  /\ PutEntry(s, Appended(entry[s], n))
  /\ accepted' = [accepted EXCEPT ![s] = @ + n]
  /\ pushed' = {}
  /\ UNCHANGED <<nextId, flags, loopVars, tVars, dropped>>

Ended(e, n) == [e EXCEPT !.tx_len = @ + n, !.fin_pending = TRUE, !.writable = FALSE]

(* end() with n bytes of final data (0 for none)                           *)
End(s, n) ==
  /\ pc = "idle" /\ entry[s].present /\ ~RemoteUni(s)
  /\ accepted[s] + n <= MaxBytes
  /\ PutEntry(s, Ended(entry[s], n))
  /\ accepted' = [accepted EXCEPT ![s] = @ + n]
  /\ pushed' = {}
  /\ UNCHANGED <<nextId, flags, loopVars, tVars, dropped>>

(* Fault: the length read is not cut to what the buffer holds              *)
Consumed_Unclamped(e, n) == [e EXCEPT !.rx_len = @ - (n + 1), !.readable = @]

(* Fault: a partial read clears the flag                                   *)
Consumed_ClearsReadable(e, n) == [e EXCEPT !.rx_len = @ - n, !.readable = FALSE]

Consumed(e, n) == [e EXCEPT !.rx_len = @ - n, !.readable = e.rx_len > n]

(* read(): n is the requested length cut to what the buffer holds          *)
Read(s, n) ==
  /\ pc = "idle" /\ n \in 1..entry[s].rx_len
  /\ PutEntry(s, Consumed(entry[s], n))
  /\ pushed' = {}
  /\ UNCHANGED <<nextId, flags, loopVars, tVars, history>>

(* ngtcp2_conn_shutdown_stream: RESET_STREAM and STOP_SENDING, nothing for *)
(* a stream ngtcp2 does not know                                           *)
Shutdown(t) ==
  IF t.wr \in {"none", "gone"} THEN t
  ELSE [t EXCEPT !.wr = IF @ = "open" THEN "shut" ELSE @, !.rd = "done"]

LocallyReset(e) ==
  [e EXCEPT !.reset = TRUE, !.closed = TRUE, !.readable = FALSE,
            !.writable = FALSE, !.fin_pending = FALSE, !.pending_open = FALSE]

Reset(s) ==
  /\ "reset" \in Env /\ pc = "idle" /\ entry[s].present
  /\ PutEntry(s, LocallyReset(entry[s]))
  /\ tr' = IF connClosed THEN tr ELSE [tr EXCEPT ![s] = Shutdown(@)]
  /\ ctl' = (ctl \/ (~connClosed /\ tr[s] # Shutdown(tr[s])))
  /\ pushed' = {Event("StreamReset", s)}
  /\ UNCHANGED <<nextId, flags, loopVars, tIds, tConn, cwnd, ppe, history>>

----------------------------------------------------------------------------
(* Callbacks: what packets handed to recv() do                             *)

InRecv == pc = "idle" /\ tConn = "open"

SetWritable(e, writable) == [e EXCEPT !.writable = writable]

StreamOpenCb(s) ==
  /\ InRecv /\ ~Local(s) /\ tr[s].wr = "none"
  /\ tr' = [tr EXCEPT ![s] = Opened(s)]
  /\ PutEntry(s, SetWritable(OpenEntry(s), Bidi(s)))
  /\ pushed' = {Event("StreamOpened", s)}
  /\ UNCHANGED <<nextId, flags, loopVars, tIds, tConn, packet, history>>

(* The peer knows a stream it opened, or one it received a frame of        *)
PeerKnows(s) == ~Local(s) \/ tr[s].sent > 0 \/ tr[s].wr = "fin"

PeerSends(s) == /\ InRecv /\ tr[s].wr \notin {"none", "gone"}
                /\ tr[s].rd = "open" /\ PeerKnows(s)

Received(e, n, fin) ==
  [e EXCEPT !.rx_len = @ + n, !.readable = @ \/ e.rx_len + n > 0,
            !.fin_recv = @ \/ fin]

RecvStreamDataCb(s, n, fin) ==
  LET e == OpenEntry(s) IN
  /\ PeerSends(s)
  /\ e.rx_len + n <= MaxRx /\ (n > 0 \/ fin)
  /\ PutEntry(s, Received(e, n, fin))
  /\ tr' = IF fin THEN [tr EXCEPT ![s] = ReadDone(@)] ELSE tr
  /\ ctl' = TRUE
  /\ pushed' = IF ~e.readable /\ e.rx_len + n > 0
               THEN {Event("StreamReadable", s)} ELSE {}
  /\ UNCHANGED <<nextId, flags, loopVars, tIds, tConn, cwnd, ppe, history>>

PeerReset(e) == [e EXCEPT !.reset = TRUE, !.closed = TRUE, !.writable = FALSE]

(* RESET_STREAM from the peer: it ends the peer's sending side only        *)
StreamResetCb(s) ==
  /\ "reset" \in Env /\ PeerSends(s)
  /\ PutEntry(s, PeerReset(OpenEntry(s)))
  /\ tr' = [tr EXCEPT ![s] = ReadDone(@)]
  /\ ctl' = TRUE
  /\ pushed' = {Event("StreamReset", s)}
  /\ UNCHANGED <<nextId, flags, loopVars, tIds, tConn, cwnd, ppe, history>>

(* Fault: the entry of a stream ngtcp2 forgot is not marked closed         *)
BothClosed_LeavesOpen(e) == [e EXCEPT !.writable = FALSE]

BothClosed(e) == [e EXCEPT !.closed = TRUE, !.writable = FALSE]

(* Both sides are finished: ngtcp2 forgets the stream                      *)
StreamCloseCb(s) ==
  /\ InRecv /\ tr[s].wr \in {"fin", "shut"} /\ tr[s].rd = "done"
  /\ PutEntry(s, BothClosed(OpenEntry(s)))
  /\ tr' = [tr EXCEPT ![s] = [@ EXCEPT !.wr = "gone"]]
  /\ pushed' = {Event("StreamClosed", s)}
  /\ UNCHANGED <<nextId, flags, loopVars, tIds, tConn, packet, history>>

(* An ACK for data of s; it also frees the congestion window               *)
AckWakes(e) == /\ e.present /\ ~e.closed /\ ~e.reset /\ ~e.fin_sent
               /\ ~e.writable

AckedStreamDataCb(s) ==
  /\ InRecv /\ (tr[s].sent > 0 \/ tr[s].wr = "fin")
  /\ \/ /\ AckWakes(entry[s])
        /\ PutEntry(s, SetWritable(entry[s], TRUE))
        /\ pushed' = {Event("StreamWritable", s)}
     \/ /\ ~AckWakes(entry[s])
        /\ pushed' = {}
        /\ UNCHANGED table
  /\ cwnd' = MaxCwnd
  /\ UNCHANGED <<nextId, flags, loopVars, tr, tIds, tConn, ppe, ctl, history>>

(* An ACK for packets without stream data frees the window, too            *)
WindowOpens ==
  /\ InRecv /\ cwnd < MaxCwnd
  /\ cwnd' = MaxCwnd
  /\ pushed' = {}
  /\ UNCHANGED <<table, nextId, flags, loopVars, tr, tIds, tConn, ppe, ctl, history>>

(* STOP_SENDING: ngtcp2 resets the sending side; no callback is registered *)
StopSending(s) ==
  /\ "stop" \in Env /\ InRecv /\ tr[s].wr = "open" /\ PeerKnows(s)
  /\ tr' = [tr EXCEPT ![s] = [@ EXCEPT !.wr = "shut"]]
  /\ ctl' = TRUE
  /\ pushed' = {}
  /\ UNCHANGED <<table, nextId, flags, loopVars, tIds, tConn, cwnd, ppe, history>>

(* MAX_STREAM_DATA (or the initial limit): credit for s                    *)
GrantCredit(s) ==
  /\ InRecv /\ tr[s].wr = "open" /\ tr[s].credit < MaxCredit
  /\ tr' = [tr EXCEPT ![s] = [@ EXCEPT !.credit = MaxCredit]]
  /\ ctl' = TRUE
  /\ pushed' = {}
  /\ UNCHANGED <<table, nextId, flags, loopVars, tIds, tConn, cwnd, ppe, history>>

(* The handshake's transport parameters, or MAX_STREAMS                    *)
RaiseLimit(bidi) ==
  /\ InRecv /\ 4 * tLimit[bidi] + MinId(bidi) \in StreamIds
  /\ tLimit' = [tLimit EXCEPT ![bidi] = @ + 1]
  /\ pushed' = {}
  /\ UNCHANGED <<table, nextId, flags, loopVars, tr, tNext, tConn, packet, history>>

----------------------------------------------------------------------------
(* The connection closes: close(), the CONNECTION_CLOSE packet of the      *)
(* first drain after it, a CONNECTION_CLOSE from the peer                  *)

Close ==
  /\ "close" \in Env /\ pc = "idle" /\ closing = "no"
  /\ connClosed' = TRUE
  /\ closing' = "requested"
  /\ pushed' = {}
  /\ UNCHANGED <<table, nextId, loopVars, tVars, history>>

DrainClose ==
  /\ pc = "idle" /\ closing = "requested"
  /\ closing' = "sent"
  /\ tConn' \in IF tConn = "open" THEN {"open", "closing"} ELSE {tConn}
  /\ pushed' = {}
  /\ UNCHANGED <<table, nextId, connClosed, loopVars, tr, tIds, packet, history>>

PeerClose ==
  /\ "close" \in Env /\ InRecv
  /\ tConn' = "draining"
  /\ connClosed' = TRUE
  /\ pushed' = {}
  /\ UNCHANGED <<table, nextId, closing, loopVars, tr, tIds, packet, history>>

----------------------------------------------------------------------------
(* The transmit loop of drainOutgoingDatagrams()                           *)

(* Fault: the entry of a closed stream is served like any other            *)
HasTx_Closed(e) == e.present /\ (e.tx_offset < e.tx_len \/ e.fin_pending)

HasTx(e) == /\ e.present /\ ~e.closed /\ ~e.reset
            /\ e.tx_offset < e.tx_len \/ e.fin_pending

(* Fault: an entry with nothing to send ends the search                    *)
Picks_FirstOnly(s) == order # <<>> /\ order[1] = s /\ HasTx(entry[s])

(* php_quic_connection_pick_tx_stream: the first such entry of the table   *)
Picks(s) ==
  \E i \in DOMAIN order :
    /\ order[i] = s /\ HasTx(entry[s])
    /\ \A j \in 1..(i - 1) : ~HasTx(entry[order[j]])

Remaining(e) == e.tx_len - e.tx_offset

(* The four steps of php_quic_connection_update_tx_entry: the bytes ngtcp2 *)
(* took (w is wdatalen, -1 when it took none), the FIN, the release of an  *)
(* exhausted buffer, the wake-up of the writer                             *)

(* Fault: a write is taken as complete whatever wdatalen says              *)
Taken_IgnoresWdatalen(e, w) == [e EXCEPT !.tx_offset = e.tx_len]

Taken(e, w) ==
  LET off == e.tx_offset + IF w > 0 THEN w ELSE 0
  IN [e EXCEPT !.tx_offset = IF off > e.tx_len THEN e.tx_len ELSE off]

FinMarked(e, fin) ==
  IF fin /\ e.fin_pending /\ e.tx_offset >= e.tx_len
  THEN [e EXCEPT !.fin_pending = FALSE, !.fin_sent = TRUE, !.writable = FALSE]
  ELSE e

(* Fault: tx_offset survives the release of the buffer it points into      *)
Released_KeepsOffset(e) ==
  IF e.tx_offset >= e.tx_len /\ e.tx_len > 0 THEN [e EXCEPT !.tx_len = 0] ELSE e

Released(e) ==
  IF e.tx_offset >= e.tx_len /\ e.tx_len > 0
  THEN [e EXCEPT !.tx_len = 0, !.tx_offset = 0]
  ELSE e

Woken(e) ==
  IF /\ ~e.fin_pending /\ ~e.fin_sent /\ ~e.closed /\ ~e.writable
     /\ e.tx_offset = 0 /\ e.tx_len = 0
  THEN [e EXCEPT !.writable = TRUE]
  ELSE e

(* Fault: the test for an empty buffer comes before its release            *)
UpdateTx_WakesTooEarly(e, w, fin_attempted, packet_emitted) ==
  Released(Woken(FinMarked(Taken(e, w), fin_attempted /\ packet_emitted)))

UpdateTx(e, w, fin_attempted, packet_emitted) ==
  Woken(Released(FinMarked(Taken(e, w), fin_attempted /\ packet_emitted)))

(* php_quic_connection_discard_tx_entry                                    *)
DiscardTx(e) == [e EXCEPT !.tx_len = 0, !.tx_offset = 0, !.fin_pending = FALSE,
                          !.fin_sent = TRUE, !.writable = FALSE]

(* the StreamWritable event of update_tx_entry, on the rising edge         *)
ApplyUpdate(s, e) ==
  /\ entry' = [entry EXCEPT ![s] = e]
  /\ pushed' = IF e.writable /\ ~entry[s].writable
               THEN {Event("StreamWritable", s)} ELSE {}
  /\ UNCHANGED order

(* Leaving the loop: the trailing sync_state                               *)
Break ==
  /\ pc' = "idle"
  /\ ndgram' = 0
  /\ connClosed' = (connClosed \/ tConn # "open")
  /\ UNCHANGED result

Continue == UNCHANGED <<pc, ndgram, result, connClosed>>

Throw(kind) ==
  /\ pc' = "idle"
  /\ ndgram' = 0
  /\ result' = kind
  /\ UNCHANGED connClosed

(* A finished packet: the datagram is appended and the cap is tested       *)
Emit ==
  /\ cwnd' = IF cwnd > 0 THEN cwnd - 1 ELSE 0
  /\ ppe' = FALSE
  /\ ctl' = FALSE
  /\ \/ /\ ndgram + 1 < MaxDatagrams
        /\ ndgram' = ndgram + 1
        /\ UNCHANGED <<pc, result, connClosed>>
     \/ ndgram + 1 >= MaxDatagrams /\ Break

DrainBegin ==
  /\ pc = "idle" /\ closing # "requested"
  /\ pc' = "drain"
  /\ result' = "returned"
  /\ pushed' = {}
  /\ UNCHANGED <<table, nextId, flags, forceConnOnly, ndgram, tVars, history>>

(* The iteration goes to stream s, whose entry ngtcp2 is to know           *)
Target(s) == /\ pc = "drain" /\ ~forceConnOnly /\ Picks(s)
             /\ ~entry[s].pending_open

(* writev_stream found room: it took n bytes of s, with the FIN once       *)
(* nothing is left.  more: it answered WRITE_MORE, else it emitted.        *)
WriteFrame(s, n, more) ==
  LET e == entry[s]
      all == n = Remaining(e) IN
  /\ Target(s) /\ tConn = "open" /\ tr[s].wr = "open" /\ cwnd > 0
  /\ n <= Remaining(e) /\ n <= tr[s].credit /\ (n > 0 \/ all)
  /\ tr' = [tr EXCEPT ![s] = Framed(@, n, e.fin_pending /\ all)]
  /\ ApplyUpdate(s, UpdateTx(e, n, e.fin_pending, ~more))
  /\ \/ more /\ ppe' = TRUE /\ Continue /\ UNCHANGED <<cwnd, ctl>>
     \/ ~more /\ Emit
  /\ UNCHANGED <<nextId, closing, forceConnOnly, tIds, tConn, history>>

(* writev_stream emitted a packet that carries no frame of s: the partial  *)
(* packet was full, or the congestion window lets only an ACK leave        *)
(* (wdatalen = -1)                                                         *)
WriteOther(s) ==
  /\ Target(s) /\ tConn = "open" /\ tr[s].wr = "open"
  /\ ppe \/ (ctl /\ cwnd = 0)
  /\ ApplyUpdate(s, UpdateTx(entry[s], -1, entry[s].fin_pending, TRUE))
  /\ Emit
  /\ UNCHANGED <<nextId, closing, forceConnOnly, tr, tIds, tConn, history>>

(* nwrite = 0: the congestion window is closed and nothing else is due     *)
WriteNothing(s) ==
  /\ Target(s) /\ tConn = "open" /\ tr[s].wr = "open"
  /\ cwnd = 0 /\ ~ppe /\ ~ctl
  /\ ApplyUpdate(s, UpdateTx(entry[s], -1, entry[s].fin_pending, FALSE))
  /\ Break
  /\ UNCHANGED <<nextId, closing, forceConnOnly, tVars, history>>

(* Faults: a blocked stream ends the loop, or is tried again at once       *)
RetryConnOnly_Breaks == Break /\ UNCHANGED forceConnOnly

RetryConnOnly_Spins == Continue /\ UNCHANGED forceConnOnly

RetryConnOnly == Continue /\ forceConnOnly' = TRUE

(* STREAM_DATA_BLOCKED: retry once without stream payload                  *)
WriteDataBlocked(s) ==
  /\ Target(s) /\ tConn = "open" /\ tr[s].wr = "open"
  /\ Remaining(entry[s]) > 0 /\ tr[s].credit = 0
  /\ ApplyUpdate(s, UpdateTx(entry[s], -1, entry[s].fin_pending, FALSE))
  /\ RetryConnOnly
  /\ UNCHANGED <<nextId, closing, tVars, history>>

(* STREAM_SHUT_WR, also after the close: ngtcp2 looks at the stream before *)
(* its own state.  The buffered bytes are dropped.                         *)
Shut(s) == tr[s].wr \in {"fin", "shut"}

WriteShut(s) ==
  /\ Target(s) /\ Shut(s)
  /\ entry' = [entry EXCEPT ![s] = DiscardTx(@)]
  /\ dropped' = [dropped EXCEPT ![s] = @ + Remaining(entry[s])]
  /\ pushed' = {}
  /\ Continue
  /\ UNCHANGED <<order, nextId, closing, forceConnOnly, tVars, accepted>>

(* A reserved stream is opened before its first frame                      *)
OpenPending(s) ==
  LET bidi == Bidi(s) IN
  /\ pc = "drain" /\ ~forceConnOnly /\ Picks(s) /\ entry[s].pending_open
  /\ CanOpen(bidi) /\ tNext[bidi] \in StreamIds
  /\ TransportOpen(bidi)
  /\ \/ /\ tNext[bidi] = s
        /\ entry' = [entry EXCEPT ![s] = [@ EXCEPT !.pending_open = FALSE]]
        /\ Continue
     \/ /\ tNext[bidi] # s
        /\ Throw("mismatch")
        /\ UNCHANGED entry
  /\ pushed' = {}
  /\ UNCHANGED <<order, nextId, closing, forceConnOnly, tLimit, tConn, packet, history>>

(* No stream of this iteration can be opened                               *)
NoneToOpen ==
  \A s \in StreamIds : Picks(s) /\ entry[s].pending_open => ~CanOpen(Bidi(s))

(* An iteration without stream payload: forced, nothing to send, or the    *)
(* stream to open is blocked                                               *)
ConnOnly ==
  /\ pc = "drain" /\ tConn = "open"
  /\ \/ forceConnOnly
     \/ NoneToOpen /\ \A s \in StreamIds : Picks(s) => entry[s].pending_open

WriteConnOnly ==
  /\ ConnOnly
  /\ \/ (ppe \/ ctl) /\ Emit
     \/ ~ppe /\ ~ctl /\ Break /\ UNCHANGED packet
  /\ forceConnOnly' = FALSE
  /\ pushed' = {}
  /\ UNCHANGED <<table, nextId, closing, tr, tIds, tConn, history>>

(* NGTCP2_ERR_CLOSING, NGTCP2_ERR_DRAINING                                 *)
WriteClosing ==
  /\ pc = "drain" /\ tConn # "open" /\ (forceConnOnly \/ NoneToOpen)
  /\ \A s \in StreamIds : Target(s) => ~Shut(s)
  /\ Break
  /\ forceConnOnly' = FALSE
  /\ pushed' = {}
  /\ UNCHANGED <<table, nextId, closing, tVars, history>>

(* Any other error of ngtcp2 is thrown                                     *)
WriteFatal ==
  /\ "fatal" \in Env /\ pc = "drain" /\ tConn = "open"
  /\ Throw("threw")
  /\ forceConnOnly' = FALSE
  /\ pushed' = {}
  /\ UNCHANGED <<table, nextId, closing, tVars, history>>

DrainStep ==
  \/ \E s \in StreamIds :
       \/ \E n \in 0..MaxBytes, more \in BOOLEAN : WriteFrame(s, n, more)
       \/ WriteOther(s)
       \/ WriteNothing(s)
       \/ WriteDataBlocked(s)
       \/ WriteShut(s)
       \/ OpenPending(s)
  \/ WriteConnOnly
  \/ WriteClosing
  \/ WriteFatal

AppCall ==
  \/ \E bidi \in BOOLEAN : OpenNow(bidi) \/ OpenBlocked(bidi)
  \/ \E s \in StreamIds :
       \/ \E n \in WriteSizes : Write(s, n)
       \/ \E n \in WriteSizes \cup {0} : End(s, n)
       \/ \E n \in 1..MaxRx : Read(s, n)
       \/ Reset(s)
  \/ Close
  \/ DrainClose
  \/ DrainBegin

Packet ==
  \/ \E s \in StreamIds :
       \/ StreamOpenCb(s)
       \/ \E n \in 0..MaxRx, fin \in BOOLEAN : RecvStreamDataCb(s, n, fin)
       \/ StreamResetCb(s)
       \/ StreamCloseCb(s)
       \/ AckedStreamDataCb(s)
       \/ StopSending(s)
       \/ GrantCredit(s)
  \/ WindowOpens
  \/ \E bidi \in BOOLEAN : RaiseLimit(bidi)
  \/ PeerClose

Next == AppCall \/ Packet \/ DrainStep

Spec == Init /\ [][Next]_vars

(* The loop of drainOutgoingDatagrams() runs until it leaves: PHP does not *)
(* suspend it.  No other call is assumed ever to come.                     *)
FairSpec == Spec /\ WF_vars(DrainStep)

(* The application keeps draining, and the peer keeps acknowledging, keeps *)
(* reading every stream and lets streams be opened.                        *)
FlowSpec == /\ FairSpec
            /\ WF_vars(DrainBegin)
            /\ SF_vars(WindowOpens)
            /\ \A s \in StreamIds : SF_vars(GrantCredit(s))
            /\ \A bidi \in BOOLEAN : SF_vars(RaiseLimit(bidi))
----------------------------------------------------------------------------
(* Properties                                                              *)

(* Every field of the table keeps its type; in particular the lengths and  *)
(* offsets of the buffers (size_t and uint64_t in the code) never go below *)
(* zero.                                                                   *)
TypeOK ==
  /\ entry \in [StreamIds -> Entry]
  /\ order \in Seq(StreamIds)
  /\ nextId \in [BOOLEAN -> Nat]
  /\ connClosed \in BOOLEAN /\ closing \in {"no", "requested", "sent"}
  /\ pc \in {"idle", "drain"} /\ forceConnOnly \in BOOLEAN
  /\ ndgram \in Nat /\ result \in {"returned", "threw", "mismatch"}
  /\ tr \in [StreamIds -> Transport]
  /\ tNext \in [BOOLEAN -> Nat] /\ tLimit \in [BOOLEAN -> Nat]
  /\ tConn \in {"open", "closing", "draining"}
  /\ cwnd \in Nat /\ ppe \in BOOLEAN /\ ctl \in BOOLEAN
  /\ accepted \in [StreamIds -> Nat] /\ dropped \in [StreamIds -> Nat]

(* No byte is lost or sent twice: what write() and end() took is what      *)
(* ngtcp2 consumed, plus what update_tx_entry still keeps beyond           *)
(* tx_offset, plus what discard_tx_entry dropped.                          *)
Conservation ==
  \A s \in StreamIds :
    accepted[s] = tr[s].sent + Remaining(entry[s]) + dropped[s]

(* The strengthening that makes Conservation inductive: offsets stay       *)
(* inside their buffers, an id without an entry has no state, and ngtcp2   *)
(* has not used the ids it will give out next.                             *)
BufferInv == \A s \in StreamIds : entry[s].tx_offset <= entry[s].tx_len

AbsentInv == \A s \in StreamIds : ~entry[s].present => entry[s] = NoEntry

FreshInv ==
  \A bidi \in BOOLEAN :
    /\ tNext[bidi] % 4 = MinId(bidi)
    /\ \A s \in StreamIds :
         s % 4 = MinId(bidi) /\ s >= tNext[bidi] => tr[s] = NoTransport

UnopenedInv == \A s \in StreamIds : tr[s].wr = "none" => tr[s] = NoTransport

TxInv == /\ TypeOK /\ BufferInv /\ AbsentInv /\ FreshInv /\ UnopenedInv
         /\ Conservation

(* pick_tx_stream never hands ngtcp2 a stream it does not have (it would   *)
(* answer STREAM_NOT_FOUND, which drainOutgoingDatagrams() throws).        *)
StreamKnown ==
  \A s \in StreamIds :
    HasTx(entry[s]) /\ ~entry[s].pending_open => tr[s].wr \notin {"none", "gone"}

(* A stream that takes more data and has nothing buffered says so:         *)
(* otherwise an application that waits for StreamWritable waits forever.   *)
(* Holds while write() is not given an empty string: write("") clears the  *)
(* flag and leaves nothing for update_tx_entry to do.                      *)
NoLostWakeup ==
  \A s \in StreamIds :
    LET e == entry[s] IN
    /\ e.present /\ ~RemoteUni(s) /\ ~e.closed /\ ~e.fin_pending /\ ~e.fin_sent
    /\ e.tx_len = 0
    => e.writable

(* drainOutgoingDatagrams() never returns while ngtcp2 holds a partial     *)
(* packet: bytes it was told are consumed would wait for the next call.    *)
PartialFlushed ==
  pc = "idle" /\ result = "returned" /\ tConn = "open" => ~ppe

(* When a FIN leaves, every byte the application handed over has left      *)
(* before it or with it.  That it leaves at all is another matter: see     *)
(* FinSentHonest.                                                          *)
FinCarriesAll ==
  [][\A s \in StreamIds :
       tr[s].wr = "open" /\ tr'[s].wr = "fin" => tr'[s].sent = accepted[s]]_vars

(* The id the next blocked openStream() would reserve belongs to no stream *)
(* of the table.                                                           *)
NextIdAbove ==
  \A s \in StreamIds :
    entry[s].present /\ Local(s) => s < nextId[Bidi(s)]

(* A stream ngtcp2 has opened never becomes "pending open" again: the      *)
(* transmit loop would open a second stream in its name.                   *)
OpenedStaysOpen ==
  [][\A s \in StreamIds :
       entry[s].present /\ ~entry[s].pending_open => ~entry'[s].pending_open]_vars

(* isReadable() tells whether read() has bytes to return, until the stream *)
(* is reset.                                                               *)
ReadableHonest ==
  \A s \in StreamIds :
    entry[s].present /\ ~entry[s].reset
      => (entry[s].readable <=> entry[s].rx_len > 0)

(* The inductive invariant behind these: what ngtcp2's view of a stream    *)
(* allows its entry to say.  A stream with an entry that is neither        *)
(* reserved nor closed is open in ngtcp2, the entry of one that ngtcp2     *)
(* forgot is closed, a local stream that has sent anything has an entry,   *)
(* and bytes are dropped only after the sending side is over.              *)
OpenedInv ==
  \A s \in StreamIds :
    /\ entry[s].present /\ ~entry[s].pending_open /\ ~entry[s].closed => tr[s].wr # "none"
    /\ tr[s].wr = "gone" => entry[s].closed
    /\ Local(s) /\ (tr[s].wr \in {"fin", "shut", "gone"} \/ tr[s].sent > 0)
         => entry[s].present
    /\ tr[s].wr \in {"none", "open"} => dropped[s] = 0

(* The counters of ids are unused or of the right kind.                    *)
CounterInv ==
  \A bidi \in BOOLEAN : nextId[bidi] < MinId(bidi) \/ nextId[bidi] % 4 = MinId(bidi)

FlagInv == /\ OpenedInv /\ CounterInv /\ NextIdAbove /\ ReadableHonest /\ PartialFlushed
           /\ 0 \notin WriteSizes => NoLostWakeup

(* Bytes end() takes behind a FIN that is marked as sent have a FIN of     *)
(* their own to come.                                                      *)
FinInv ==
  \A s \in StreamIds :
    entry[s].fin_sent /\ ~entry[s].closed /\ Remaining(entry[s]) > 0 => entry[s].fin_pending

(* The sending side of a stream: what its entry keeps and ngtcp2's view    *)
SideOf(e, t) ==
  [waiting |-> Remaining(e), sent |-> t.sent, phase |-> t.wr, closed |-> e.closed,
   ended |-> e.closed \/ e.fin_pending \/ e.fin_sent]

sides == [s \in StreamIds |-> SideOf(entry[s], tr[s])]

Side == INSTANCE SendSide WITH stream <- sides, Sizes <- WriteSizes \cup {0}

(* Whatever the calls, the packets and the answers of ngtcp2: bytes leave  *)
(* once and only while the stream is open on both accounts, the last one   *)
(* of an ended stream with the FIN; write() adds nothing to an ended one;  *)
(* update_tx_entry and discard_tx_entry never give up a byte that could    *)
(* still be sent.  See SendSide.                                           *)
ImplementsSendSide == Side!Spec

(* drainOutgoingDatagrams() returns or throws, whatever ngtcp2 answers.    *)
DrainTerminates == pc = "drain" ~> pc = "idle"

(* Bytes handed to a stream that stays open leave, whatever the other      *)
(* streams of the table do: the transmit loop always serves the first      *)
(* stream with data, blocked or not, so the ones behind it depend on the   *)
(* peer to release that one.                                               *)
BytesLeave ==
  \A s \in StreamIds :
    Remaining(entry[s]) > 0 ~> Remaining(entry[s]) = 0 \/ entry[s].closed

(* Every StreamOpened event announces a stream that was not there before;  *)
(* in particular two calls of openStream() return two streams.             *)
FreshStreamPerOpen ==
  [][\A s \in StreamIds :
       Event("StreamOpened", s) \in pushed' => ~entry[s].present]_vars

(* fin_sent is set only when ngtcp2 has taken the FIN (or the sending side *)
(* was reset).                                                             *)
FinSentHonest ==
  \A s \in StreamIds : entry[s].fin_sent => tr[s].wr # "open"
============================================================================
