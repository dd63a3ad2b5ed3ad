# TLA+ models of ext-ngtcp2

ext-ngtcp2 is a PHP extension that exposes ngtcp2 as a Sans-I/O QUIC transport:
the application feeds datagrams to `recv()`, calls `onTimeout()`, and collects
datagrams and events from `drainOutgoingDatagrams()` and `drainEvents()`. PHP
runs one thread, so no two calls overlap. What is hard is the *order* of the
calls, the callbacks that packets trigger between them, the answers ngtcp2 gives
to each iteration of the transmit loop, and calls that throw half-way.

`PROJECT.json` lists components, runs, mutants, findings, hazards, theorems and,
for every definition, the source lines it models.

## Inventory

| Component | State | Operations | Correct when | Modelled |
|---|---|---|---|---|
| Stream table (`connection.c`, `stream.c`, `callbacks.c`, `buffer.c`) | per stream: rx/tx buffers, `tx_offset`, eight flags; next ids | `openStream`, `openUniStream`, `write`, `end`, `read`, `reset`; five stream callbacks; the loop of `drainOutgoingDatagrams` | no byte lost or repeated; the FIN follows the last byte; a waiting writer is woken; ids are unique; the loop ends | `Streams`, `SendSide` |
| Connection lifecycle (`connection.c`, `callbacks.c`) | `established`, `draining`, `closed`, `close_*`, `last_error`, events | `recv`, `onTimeout` (`handleTimers`, `tick`), `close`, both drains | the close is announced once, truthfully, is never missed and completes | `Connection`, `Lifecycle`, `CloseProtocol` |
| Server endpoint (`server_endpoint.c`) | table of connections by peer address, accept queue | `recv`, `handleTimers`, `drainOutgoingDatagrams`, `drainEvents`, `drainAcceptedConnections`, cleanup | nothing leaves the table too early or stays for ever; every accepted connection is handed out once; a sweep reaches everyone; a peer has one connection at a time | `ServerEndpoint`, `Acceptor` |
| Event queue (`queue.c`) | linked list: head, tail, size, nodes | push, pop, destroy | first in, first out; no pointer to freed memory | `EventQueue`, `EventQueueList` |
| `ServerConnection::accept` (`server_connection.c`) | strings, addresses, a connection, a TLS session while it runs | validation stages, TLS, `ngtcp2_conn_server_new`, first `read_pkt` | a failing stage loses nothing and frees nothing twice; all or nothing | `Setup` |
| Client construction (`connection.c`), TLS set-up (`tls_gnutls.c`) | the pointers of the connection object | `__construct`, `init_native`, `init_client`, `init_server`, `cleanup`, `free_obj` | the same, also when the constructor is called again | `Setup` |
| `ClientConfig`, `ServerConfig` | addresses and nullable strings | constructors, `with*()` | no empty string is ever kept | `Setup` |
| Timers (`connection.c`, `server_endpoint.c`) | none of their own: two clocks, ngtcp2's deadlines | `getNextTimeout`, `getNextExpiry`, `getTimeoutAt` | the application wakes in time and near a deadline, and no due timer is forgotten | `Timers` |
| Address (`address.c`) | host and port | `fromString`, the routing key | accepts its two forms only, reads them back; keys of different peers differ | `Address` |
| Datagram, event objects, registration | values | constructors, getters | – | no: they store what they are given |

How they interact: the endpoint calls methods of its connections in table order;
a connection calls ngtcp2, which calls back into the stream table and the event
queue; the application holds `Connection` and `Stream` objects that point into
the same tables, also after the endpoint has let go of a connection.

## Modules

| Module | Role |
|---|---|
| `Streams` | the stream table of one connection and the transmit loop |
| `StreamsProofs` | theorems about `Streams`: types and conservation of bytes |
| `SendSide` | what a stream promises of its sending side; `Streams` implements it |
| `StreamFlagsProofs` | theorems about `Streams`: flags, ids, the FIN, the partial packet, and that it implements `SendSide` |
| `Connection` | one connection's flags, events and `last_error`, as operators on a record |
| `Lifecycle` | one such record under every order of calls |
| `Selection` | the elements of a sequence that are in a set, which `Lifecycle` and `ServerEndpoint` use |
| `OperatorProofs` | induction over numbers, lemmas about `Selection` and the operators of `Connection` |
| `LifecycleProofs` | theorems about `Lifecycle`, among them that it implements `CloseProtocol` |
| `ServerEndpoint` | a table of such records, the accept queue and the sweeps |
| `Acceptor` | what a server endpoint promises; `ServerEndpoint` implements it |
| `ServerEndpointProofs` | theorems about `ServerEndpoint`, among them that it implements `Acceptor` |
| `EventQueue` | what the event queue promises |
| `EventQueueList` | the linked list of `queue.c` |
| `EventQueueProofs` | the list is well formed and implements `EventQueue` |
| `CloseProtocol` | what a connection promises about its end; `Lifecycle` implements it |
| `Timers` | deadlines, clocks, and the application that sleeps on them |
| `TimersProofs` | theorems about `Timers` |
| `Setup` | how connection objects come to life, fail half-way and end: who owns what |
| `SetupProofs` | theorems about `Setup` and `Address` |
| `Address` | the address parser and the routing key, as operators |
| `MC*` | the modules TLC runs; the constants are in the `.cfg` files |

Definitions named `X_Something` are variants of `X` with a plausible bug
(marked "Fault"). They are not used by the specifications; each shows that a
property would notice the bug.

### Streams

`entry` is `connection->streams` with `order` its insertion order; the fields of
an entry are those of `php_quic_stream_entry`, with buffers replaced by their
lengths. `nextId` is the pair of id counters. One iteration of the loop is one
step; the local variables that survive an iteration (`force_conn_only`,
`emitted`) are variables of the model. `pushed` holds the events of the last
step.

ngtcp2 is external. The model keeps what the extension can observe of it:

* `tr`: for each stream, the state of its sending and receiving side, bytes
  taken and flow-control credit;
* `tNext`, `tLimit`: the next local id and the number of streams the peer
  allows. Before the handshake the limit is 0, so `openStream()` is "blocked";
* `cwnd`, `ppe`, `ctl`: whether a packet may leave, whether a partial packet is
  held (after `WRITE_MORE`), whether connection-level frames are due. The window
  opens with an acknowledgement of stream data (`AckedStreamDataCb`) or of other
  packets (`WindowOpens`).

ngtcp2 looks at the stream before it looks at its own closing or draining
period, so `STREAM_SHUT_WR` comes first (`Shut`). `writev_stream` then has these
answers, each an action: a frame of `n` bytes
with or without a finished packet (`WriteFrame`), a packet without a frame of
this stream (`WriteOther`, `wdatalen = -1`), nothing (`WriteNothing`),
`STREAM_DATA_BLOCKED`, `STREAM_SHUT_WR`, closing/draining, any other error.
`STREAM_DATA_BLOCKED` without a stream cannot occur.

`Env` switches optional behaviour on per instance: `"fatal"` (ngtcp2 fails),
`"stop"` (STOP_SENDING), `"reset"` (both kinds of reset), `"close"`.

`SendSide` is the abstract specification of one stream's sending side: bytes
that wait, bytes sent, whether the stream was ended or closed, and its phase
(not open yet, open, FIN sent, shut, gone). A stream of `Streams` maps to it by
what its buffer holds behind `tx_offset`, the bytes ngtcp2 took, the flags
`fin_pending`, `fin_sent` and `closed`, and the sending side of `tr`. Reading,
events, the packet in the making and the bookkeeping of the loop are stutters.

### Connection and Lifecycle

The record `Conn` has the flags of `php_quic_connection`, the event queue as a
sequence, the class of `last_error`, and `t`, ngtcp2's state. Each method is an
operator from record to record; `...Fatal` is the path on which it throws.
`sync_state` is part of every operator whose code calls it. In the closing and
draining periods ngtcp2 reads nothing; `write_connection_close` writes nothing
before the client's first flight and in those periods, and returns 0 there, so
the code's branch for a negative non-fatal result is not reached.
An exception of the transmit loop that leaves `last_error` alone (the id
mismatch) belongs to `Streams`.

`Lifecycle` adds history variables: every event ever pushed (`log`), the error
of the first `close()` (`asked`) and the error on the wire (`carried`).

`CloseProtocol` is the abstract specification of the end of a connection: the
close events told so far, `isClosed()`, `isDraining()`, and whether a
CONNECTION_CLOSE went out. It has three steps: the application closes, the peer
closes, the peer is told. `Lifecycle` maps to it by the close events of `log`,
the two flags, and `carried # "none"`; every other call is a stutter.

### ServerEndpoint

`table` is the hash of connections in insertion order, keyed by peer. A sweep
calls one method on each row. A throwing call is itself reported as a success to
the C code; while the exception is pending PHP makes no further call and reports
success (PHP 8.2 and later: the sweep runs to its cleanup) or failure (before:
the method returns). Both are modelled. When a call of
`drainOutgoingDatagrams()` throws, the array with the datagrams collected so far
is lost (`discarded`). The application may call `close()` and
both drains on a connection it got from the accept queue, also after the
endpoint has removed it. It does not call `recv()` or `onTimeout()` on one
itself: these go through the endpoint.

What `recv()` does with the first datagram of a peer depends on `Dispatch`, what
it finds under the name `accept`. `"missing"` is the source as it stands:
`call_user_function` ignores the function table it is given
(`server_endpoint.c:78`), the name means a global function that does not exist,
and `recv()` throws before it adds a row (`RecvRefused`, run `endpoint_accept`).
With `"method"` the call reaches `ServerConnection::accept()`, which all the rest
of the class is written for (`RecvNew`). The run `endpoint` has both; its
connections exist in the code only once the dispatch is repaired. So what is
checked and proved of the endpoint holds of the code as it is, where the table
stays empty, and of the code with that one call repaired.

`Acceptor` is the abstract specification of the whole: the one connection each
peer is routed to, how far the close of each connection has come (up, asked,
over), the connections accepted, handed out and closed with a packet. A route
may be forgotten only when its connection is over, and a peer is accepted only
without a route. The table, the sweeps with their exceptions and the flags of
the connections map to it; timers, events and failures are stutters.

### Timers

A table of `Rows` connections of which only the deadline (`expiry`) is kept. One
call of `getNextTimeout()` or `getNextExpiry()` is several steps: one per row,
and for `getNextExpiry()` one per clock, with `Tick` between them, because the
clocks run on. A tick is a fraction `1/MS` of a millisecond. The application
sleeps for what it was told, or until a datagram comes, and calls
`handleTimers()`, whose sweep may throw at any row. A due timer is armed again,
or the connection closes, or ngtcp2 answers `IDLE_CLOSE`: the call then succeeds,
nothing is armed and the connection does not close (run `lifecycle_idle`), so the
timer stays due, in this sweep and every later one, until a datagram revives the
connection. `idle` is the history of these rows. From then on `getNextTimeout()`
answers 0 for the whole table and the application does not sleep any more;
`NotTooEarly` admits this, since a deadline in the past is a deadline, and says
no more than that nobody is woken without one near.
A client's loop is the table with one row. `expiry = None` stands for a
connection that answers null.

An absolute answer is turned into a sleep with the same wall clock it was made
with; a wall clock that is set while the application sleeps is not modelled.

### Setup

`heap` counts, per kind, what is alive: the three strings `accept()` copies,
ngtcp2 connections, TLS sessions and credentials, and the references to the two
addresses. `held` and `obj` are the owners. The stages of `accept()` and
`__construct()` are actions in the order of the code; each may fail, by a choice
where the reason lies in a library. An error path does what the code's lines do,
stage by stage (`TlsUndone`, `Abandon`, `Release`). The configurations may be
changed between two calls, since `with*()` works in place.

One object is alive at a time; the objects do not share anything but the
configurations.

### Address

Operators on sequences of characters, translated from the C string functions
the code calls, with the places where the length of the PHP string and the
terminating NUL disagree. The properties are statements about all texts up to a
length; `MCSetup` evaluates them once, in the initial state.

### EventQueue and EventQueueList

`EventQueueList` has the memory: which nodes are allocated, and what each cell
holds after it was freed and reused. `emalloc` may return any free node.

## Runs

Passing runs (distinct states in brackets):

| Run | Shows |
|---|---|
| `streams_one` [570k] | one client stream, all of `Env`, two bytes each way: lengths in range, bytes conserved, ngtcp2 never asked for a stream it forgot, no lost wake-up, `isReadable()` true to the buffer, no partial packet left behind, FIN with the last byte; the sending side implements `SendSide` |
| `streams_ids` [294k] | two local streams of a server, opened before and after the limit is known: reserved ids are fresh, no stream is opened twice, the loop ends |
| `streams_flow` [110k] | two streams behind flow control: the bytes of either leave in the end, although the loop serves only the first stream with data |
| `lifecycle` [564] | client and server, every order of calls, failures: closed once, honest `by_peer`, periods noticed, close error kept, close completes; the whole implements `CloseProtocol` |
| `endpoint` [243k] | two peers, two connections, throwing calls: table well formed, accept queue exact, close frame written before removal, closed connections leave; the whole implements `Acceptor` |
| `timers` [99k] | two connections, both methods, clocks that run during the calls: never late by more than the call itself, no wake-up without a deadline near, every due timer reaches ngtcp2 behind rows that throw or have idled out |
| `setup` [51k] | every stage of both set-ups failing: no double free, no loss but the two that are counted, all or nothing; the address parser and the routing key |
| `eventqueue` [1.8k] | list well formed, refinement of the abstract queue |

Runs that end in a violation, each a disagreement between the code and one of
its documents, comments or tests (quoted under `findings`):

| Run | Shows |
|---|---|
| `streams_alias` | a blocked `openStream()` and the next one share an id |
| `streams_fin` | a FIN can be marked sent without being sent |
| `lifecycle_idle` | an idle timeout never closes the connection |
| `endpoint_accept` | `recv()` throws for every new peer: the endpoint accepts nobody |

The models also contain these behaviours of the code, which a reader may want to
know and no run of its own is spent on: reserved streams written out of order
make the drain throw its id mismatch error (`OpenPending`, same cause as
`streams_alias`); an ACK between `end()` and the FIN makes the stream "writable"
(`AckWakes`); `end(data)` after the stream's own FIN has its data dropped
(`WriteShut`); HandshakeCompleted can follow ConnectionClosed when datagrams are
handed in between `close()` and the drain of the close packet (`recv`); a timer
call that throws keeps the later connections of the sweep from being called
(`handleTimers`); a drain that throws loses the CONNECTION_CLOSE another
connection wrote before it in the same sweep, and the cleanup may remove that
connection all the same (`drainThrows`; `CloseFrameReturned` with `discarded`
left out is violated by it, against docs/server_endpoint_plan.md:239, "close
frames are emitted through `drainOutgoingDatagrams()`"); a connection the peer
closes leaves the table inside `recv()`, and its ConnectionClosed event is then
found on the connection object only, not by the endpoint's `drainEvents()`
(`RecvKnown`); `accept()` loses three
strings when the datagram is empty or not an Initial (`AcceptDecode`), and a
second `__construct()` loses the ngtcp2 connection of the first
(`ConstructNative`).

### Bounds

Two bytes per stream and one byte of credit give partial writes, blocked writes
and a buffer reused after its release. Two streams give the id reservation in
both orders and one stream before another in the table. Two packets of
congestion window and a cap of 3 datagrams (256 in the code) reach both ends of
the loop. Two connections give one before and one after the throwing call of a
sweep. In `streams_flow` one byte and one unit of credit per stream are enough
for the first stream to be blocked while the second has data. Two rows with two
ticks to the millisecond give deadlines inside a millisecond, a call that is
overtaken by the clock, and a row behind the one that throws; two ticks may pass
inside a call (`MaxLag`), which reaches the next millisecond from either side,
and seven in all (`MaxTime`). One loss of each kind (`MaxLost`) only stops the
counters. Texts of up to five characters over nine (a letter, a digit, the
signs, blank, separator and NUL) give every branch of the parser with a
character to spare on the `[h]:1` form; `MaxPort` is 11, so that one and two
digits are in range and a number above it is not. Hosts of up to three characters
are printed and read back, the keys of hosts of up to two (`MaxPeer`) are
compared in pairs, with ports on both sides of zero and with one to three
digits; the theorems about `Address` hold for texts and hosts of every length.
Three nodes give a middle node
and reuse of every address. `MaxStream` and `MaxEvents` only stop the event
queue from growing.

Two properties are stated with a restriction, because the code breaks them
otherwise: `NoLostWakeup` holds for writes of at least one byte (`write('')`
clears `writable` and nothing sets it again), and `CloseReasonKept` for non-zero
codes (`recv()` takes a zero code for "no error"). `PeersApart` is about hosts
without an embedded NUL, which the `%s` of the key would cut.

Deadlock is checked for `eventqueue`. In the other runs it is off: the bounds on
bytes, packets and connections let a behaviour come to rest.

### Fairness

* `Streams`: weak fairness of the loop's iterations only. PHP does not suspend
  the loop. No call is assumed to come.
* `Lifecycle`: weak fairness of the drain and of `onTimeout`: the event loop the
  README and the examples ask the application to run. Calls may throw any number
  of times, but are repeated and do not throw for ever. On an
  idle connection `onTimeout` changes nothing, so `lifecycle_idle` ends in
  stuttering although the call is made for ever.
* `Streams`, `FlowSpec`: in addition the application keeps calling
  `drainOutgoingDatagrams` (weak), and the peer keeps acknowledging, keeps
  reading every stream and allows the streams the application has asked for
  (strong, as these can only happen between two calls). Needed for `BytesLeave`:
  a peer that never reads the first stream of the table blocks the ones behind
  it for good, because the loop serves the first one only. `BytesLeave` shows
  that a stream gets its turn once those before it are done, not that it gets it
  while they wait for credit.
* `ServerEndpoint`: weak fairness of a `drainOutgoingDatagrams` that does not
  throw.
* `Timers`: calls return (weak), time goes on, and the application calls
  `handleTimers` when its sleep is over, without an exception now and then
  (strong, since datagrams may cut sleeps short again and again). A row that
  fails in every sweep is thus excluded: it would keep the rows behind it waiting
  until the application drops it.

## Proofs

`StreamsProofs`, for every set of stream ids, all sizes and all limits, from
`ConstantsAssumption` alone:

* `TxInvariant`: `Spec => []TxInv`. `Conservation` (accepted = sent + buffered
  beyond the offset + dropped) is not inductive by itself. It needs that offsets
  stay inside their buffers (`BufferInv`, or a release would change what
  remains), that an id without an entry has no state (`AbsentInv`, or a new
  entry would forget bytes), and that an id ngtcp2 is about to give out has sent
  nothing (`FreshInv`, `UnopenedInv`, or opening a stream would reset its
  count). `TxInv` is their conjunction with `TypeOK`.
* `StreamsTypeCorrect` and `NoByteLost` follow.

The proof splits the invariant into the control variables (`ControlOK`) and the
streams' part (`DataInv`), and the steps into calls, packets and loop
iterations. Lemmas say what each operator on an entry does to `tx_len`,
`tx_offset` and `Remaining`.

`StreamFlagsProofs`, from the same assumption:

* `FlagInvariant`: `Spec => [](TxInv /\ FlagInv)`. The flags of an entry are
  right only as far as they agree with what ngtcp2 knows of the stream, which is
  `OpenedInv`: a stream with an entry that is neither reserved nor closed is open
  in ngtcp2; the entry of one that ngtcp2 forgot is closed; a local stream that
  has sent anything has an entry (or `openStream()` could reserve an id in use);
  and bytes are dropped only after the sending side is over. `CounterInv` says
  that an id counter is unset or of the right kind modulo 4, without which
  `NextIdAbove` would not survive the next reservation.
* `PickedIsKnown`, `ReadableIsHonest`, `CounterIsAbove` and `PartialIsFlushed`
  follow, and so does `NoWakeupLost`, under the hypothesis that nobody calls
  `write('')`, which breaks the property in the code (see Bounds).
* `OpenedStreamsStayOpen` and `FinComesLast` are about steps. The first follows
  from `NextIdAbove`: a reserved id is above every id of the table. The second
  follows from `Conservation`: when the frame with the FIN empties the buffer,
  and nothing was dropped because the sending side was open, what was sent is
  what was accepted.

The streams' part is one formula about one stream (`StreamOK`, `Wakes`), so that
a step is about the one stream it touches; the ids (`IdsInv`) and the partial
packet have their own lemmas.

* `FinInvariant` and `SendSideImplemented`: every step is a step of `SendSide` on
  one stream, or a stutter. A FIN can be marked as sent without being sent (run
  `streams_fin`), and `end()` then takes bytes behind it; `FinInv` says that they
  have a FIN of their own pending, so that a frame that carries the last of them
  carries one too. `TxInv` gives the rest: without `BufferInv` the bytes that
  wait would not be what a frame takes from, and without `AbsentInv` a new entry
  would begin with bytes nobody handed over.

`OperatorProofs`: `Select` is a recursive function on the length of a sequence,
and what it returns needs induction. The induction goes over a *set* of numbers
(`SetInduction`), since a set, unlike an operator, can be a parameter of a
theorem that the provers use: `SelectEmpty`, `SelectAppend`, `SelectType` and
`SelectElements` say what `Select` gives for every sequence, and `SelectPairwise`
that it keeps whatever relates any two elements. `SetupProofs` uses
`SetInduction` for the digits of a number. For `Connection`,
lemmas say what `sync_state`, `ReadPkt`, `Close` and the drain do to each flag
and which events they push.

`LifecycleProofs`, from the module's assumptions:

* `LifecycleInvariant`: `Spec => []LifecycleInv`. `ClosedOnce` is not inductive:
  the guard in the code is a flag, so `AnnouncedInv` ties each flag to the event
  it guards; and a connection drains only because the peer closed, which
  `ByPeerHonest` needs. `RequestInv` says how far a close has come.
* `LifecycleTypeCorrect`, `ClosedIsAnnouncedOnce`, `ByPeerIsHonest` and
  `PeriodsAreNoticed` follow.
* `CloseReasonIsKept`, under the hypothesis that no error code is zero, which
  breaks the property in the code (see Bounds): while a close is pending,
  `last_error` is what the first `close()` was given (`ReasonInv`).
* `LifecycleImplementsClose`: every step is a step of `CloseProtocol` or a
  stutter.

The calls come in three shapes: nothing about the end happens (`Quiet`), the
application closes (`ClosesLocally`), the peer closes (`PeerCloses`). Each call
is shown to have one of them, and the invariant and the refinement are proved
once per shape.

`ServerEndpointProofs`, for any peers and any number of connections:

* `EndpointInvariant`: `Spec => []EndpointInv`. `CloseFrameReturned` needs to
  know, of every connection also outside the table, that its flags agree with
  ngtcp2's period (`ConnInv`), that what left the table had its close settled or
  was closed by the peer (`GoneInv`), and that a settled close was written
  (`WireInv`). The last must hold of connections the application drains itself.
* `EndpointTypeCorrect`, `AcceptedAreHandedOutOnce` and
  `CloseIsWrittenBeforeCleanup` follow.
* `RowsInvariant`: the table has one row for a peer and one for a connection.
* `AcceptorImplemented`: every step is a step of `Acceptor` or a stutter. The
  rows matter twice: the route of a peer is a function of the table only because
  of them, and a row that throws in a drain is not among those whose packets
  were written before it. What the clean-up removes is over, by `ConnInv`
  (`RemovableIsOver`, `ForgetsSome`); what each call does to a phase is a lemma
  about one connection (`RecvPhase`, `QuietPhase`, `ClosePhase`, `DrainPhase`).

A sweep that may stop at any row is reduced to what one call does to one
connection (`Evolves`, and `Quiet` for calls that leave its end alone); the
clean-up is `Select` on the table, so that what it removes is known from
`SelectElements`.

`TimersProofs`, for any number of connections, any resolution of the clock and
any time that passes inside a call (`TimersAssumption`):

* `TimersInvariant`: `Spec => []TimersInv`. A call of `getNextTimeout()` is many
  steps, with both clocks running, so the invariant is about the answer so far:
  were it returned now, it would wake the application in time for each row asked
  (`RowsAsked`), and `lag` bounds how old it is. `RowInHand` is the same for the
  row that has read one clock and waits for the other.
* `TimersTypeCorrect`, `NeverSleepsPastADeadline` and `WakesNearADeadline` follow; the
  last two are about the step that returns.

`EventQueueProofs`, for any events and any set of nodes, from `NullAssumption`:

* `ListCorrect`: `Spec => []ListInv`. The history `chain` (nodes in push order)
  ties head, tail, size, next pointers and allocation together.
* `QueueImplementsFifo`: every step of the list is a step of the abstract queue,
  whose contents are read along `chain`.

`SetupProofs`, for any bound on the counted losses:

* `SetupInvariant`: `Spec => []SetupInv`, the conjunction of `TypeOK`,
  `StageInv`, `Ownership`, `AllOrNothing` and `SessionOutlives`. `Ownership`
  alone is not inductive: what an error path frees is right only for what that
  stage has allocated, and `StageInv` says, stage by stage, who holds what.
* `SetupOwnership`, `SetupWhole`, `SetupSession` and `SetupTypeCorrect` follow.

The proof reads `Ownership` as a balance (`Balanced`): of each kind, what is
alive is what the owners hold plus what was lost. Four lemmas say that
allocating, freeing, losing and overwriting keep the balance when owners and
losses change with the heap; then there is one lemma for each group of stages.

The rest of `SetupProofs` is about `Address`, for all characters and all lengths
of texts and hosts, from `AddressAssumption`:

* `AddressParsed`: what `fromString()` accepts is one of the two forms, with the
  host and the port it returns. This is about places in a text: the first and the
  last colon, the closing bracket, the NUL (`ParseEndpointSound`).
* `AddressReadBack`: a printed address is parsed to itself. The digits are the
  reason why it takes induction: the value of the decimal form of a number is
  that number (`DecimalValue`), by `SetInduction` along the prefixes.
* `AddressKeysApart`: a host may hold the separator, a port may not; so the last
  separator of a key tells where the host ends (`KeyDetermines`), and equal
  digits mean equal ports.

Every invariant, every action property and every refinement of a passing run is
thus proved for all values of the constants. Only model-checked are the liveness
properties (`DrainTerminates`, `BytesLeave`, `CloseCompletes`, `ClosedLeaves`,
`TimerHandled`), since the prover reasons neither about fairness nor about
ENABLED.

## Not modelled

Contents of bytes and of packets; ngtcp2's loss recovery; the TLS handshake and
the settings given to GnuTLS; name resolution (`to_sockaddr` is "good" or
"bad"); connection ids and migration; reference counts of event reasons;
flow-control credit granted to the peer (the code never extends it); `Datagram`
and the event objects, which store what they are given and never change;
registration of the classes at module start.

## Plan

Done: the stream table and transmit loop with the abstract sending side, the
connection's life with its abstract close protocol, the endpoint with its
abstract acceptor, the event queue with its refinement, timers, set-up with TLS
and configurations, addresses; and the proofs of every safety property, action
property and refinement that the runs check.

Left:

1. an abstract receiving side of a stream, to go with `SendSide`;
2. the composition of `Streams` with `Connection`: that a stream event of the
   one is an event of the other's queue, in order.
