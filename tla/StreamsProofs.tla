--------------------------- MODULE StreamsProofs ---------------------------
(* Proofs about Streams, for every set of stream ids and every bound.      *)
EXTENDS Streams, TLAPS

(* MinId is one of the four two-bit kinds of QUIC stream ids.              *)
LEMMA MinIdType ==
  ASSUME NEW bidi \in BOOLEAN
  PROVE  MinId(bidi) \in 0..3
  BY ConstantsAssumption DEF MinId

(***************************************************************************)
(* What the operators on one entry do                                      *)
(***************************************************************************)

(* u is an entry with the same transmit buffer as e.                       *)
SameTx(e, u) == /\ u \in Entry /\ u.present = e.present
                /\ u.tx_len = e.tx_len /\ u.tx_offset = e.tx_offset

(* The entry of an id that is not in the table holds nothing.              *)
LEMMA NoEntryFacts ==
  NoEntry \in Entry /\ ~NoEntry.present /\ NoEntry.tx_len = 0 /\ NoEntry.tx_offset = 0
  <1>1. NoEntry \in Entry
    BY DEF Entry, NoEntry
  <1>2. QED
    BY <1>1 DEF NoEntry

(* entry_alloc returns a well-formed entry with empty buffers.             *)
LEMMA EntryAllocFacts ==
  EntryAlloc \in Entry /\ EntryAlloc.present /\ EntryAlloc.tx_len = 0
  /\ EntryAlloc.tx_offset = 0
  <1>1. EntryAlloc \in Entry
    BY DEF Entry, NoEntry, EntryAlloc
  <1>2. QED
    BY <1>1 DEF NoEntry, EntryAlloc

(* The types of the flags that the entry operators test.                   *)
LEMMA FieldTypes ==
  ASSUME NEW e \in Entry
  PROVE  /\ e.tx_len \in Nat /\ e.tx_offset \in Nat /\ e.rx_len \in Nat
         /\ e.present \in BOOLEAN /\ e.readable \in BOOLEAN
         /\ e.writable \in BOOLEAN /\ e.fin_recv \in BOOLEAN
  BY DEF Entry

(* Opening, resetting and closing a stream leave its tx buffer alone.      *)
LEMMA SameTxOperators ==
  ASSUME NEW e \in Entry, NEW b \in BOOLEAN
  PROVE  /\ SameTx(e, LocalOpened(e, b))
         /\ SameTx(e, SetWritable(e, b))
         /\ SameTx(e, LocallyReset(e))
         /\ SameTx(e, PeerReset(e))
         /\ SameTx(e, BothClosed(e))
         /\ SameTx(e, [e EXCEPT !.pending_open = FALSE])
         /\ SameTx(e, Woken(e))
         /\ SameTx(e, FinMarked(e, b))
  <1>1. SameTx(e, LocalOpened(e, b)) /\ SameTx(e, SetWritable(e, b))
    BY DEF SameTx, Entry, LocalOpened, SetWritable
  <1>2. SameTx(e, LocallyReset(e)) /\ SameTx(e, PeerReset(e))
    BY DEF SameTx, Entry, LocallyReset, PeerReset
  <1>3. SameTx(e, BothClosed(e)) /\ SameTx(e, [e EXCEPT !.pending_open = FALSE])
    BY DEF SameTx, Entry, BothClosed
  <1>4. SameTx(e, Woken(e))
    BY DEF SameTx, Entry, Woken
  <1>5. SameTx(e, FinMarked(e, b))
    BY DEF SameTx, Entry, FinMarked
  <1>6. QED
    BY <1>1, <1>2, <1>3, <1>4, <1>5

(* recv_stream_data_cb leaves the tx buffer alone.                         *)
LEMMA ReceivedFacts ==
  ASSUME NEW e \in Entry, NEW n \in Nat, NEW fin \in BOOLEAN
  PROVE  SameTx(e, Received(e, n, fin))
  <1>1. e.rx_len + n \in Nat
    BY FieldTypes
  <1>2. (e.readable \/ e.rx_len + n > 0) \in BOOLEAN /\ (e.fin_recv \/ fin) \in BOOLEAN
    BY FieldTypes
  <1>3. QED
    BY <1>1, <1>2 DEF SameTx, Entry, Received

(* read() of at most what is buffered leaves the tx buffer alone.          *)
LEMMA ConsumedFacts ==
  ASSUME NEW e \in Entry, NEW n \in 1..e.rx_len
  PROVE  SameTx(e, Consumed(e, n))
  <1>1. e.rx_len - n \in Nat
    BY FieldTypes
  <1>2. (e.rx_len > n) \in BOOLEAN
    OBVIOUS
  <1>3. QED
    BY <1>1, <1>2 DEF SameTx, Entry, Consumed

(* write() and end() add their bytes to what remains to be sent.           *)
LEMMA AppendFacts ==
  ASSUME NEW e \in Entry, NEW n \in Nat
  PROVE  /\ Appended(e, n) \in Entry /\ Appended(e, n).present = e.present
         /\ Appended(e, n).tx_len = e.tx_len + n
         /\ Appended(e, n).tx_offset = e.tx_offset
         /\ Ended(e, n) \in Entry /\ Ended(e, n).present = e.present
         /\ Ended(e, n).tx_len = e.tx_len + n
         /\ Ended(e, n).tx_offset = e.tx_offset
  <1>1. e.tx_len + n \in Nat
    BY FieldTypes
  <1>2. QED
    BY <1>1 DEF Entry, Appended, Ended

(* Taking w bytes, at most what remains, moves the offset by w.            *)
LEMMA TakenFacts ==
  ASSUME NEW e \in Entry, NEW w \in Int,
         e.tx_offset <= e.tx_len, w <= Remaining(e)
  PROVE  /\ Taken(e, w) \in Entry /\ Taken(e, w).present = e.present
         /\ Taken(e, w).tx_len = e.tx_len
         /\ Taken(e, w).tx_offset = e.tx_offset + IF w > 0 THEN w ELSE 0
         /\ Taken(e, w).tx_offset <= e.tx_len
  <1> DEFINE off == e.tx_offset + IF w > 0 THEN w ELSE 0
             cut == IF off > e.tx_len THEN e.tx_len ELSE off
  <1>1. cut \in Nat /\ cut = off /\ off <= e.tx_len
    BY FieldTypes DEF Remaining
  <1>2. Taken(e, w) = [e EXCEPT !.tx_offset = cut]
    BY DEF Taken
  <1> HIDE DEF off, cut
  <1>3. Taken(e, w) \in Entry /\ Taken(e, w).present = e.present
        /\ Taken(e, w).tx_len = e.tx_len /\ Taken(e, w).tx_offset = cut
    BY <1>1, <1>2 DEF Entry
  <1>4. QED
    BY <1>1, <1>3 DEF off

(* Releasing an exhausted buffer does not change what remains.             *)
LEMMA ReleasedFacts ==
  ASSUME NEW e \in Entry, e.tx_offset <= e.tx_len
  PROVE  /\ Released(e) \in Entry /\ Released(e).present = e.present
         /\ Released(e).tx_offset <= Released(e).tx_len
         /\ Remaining(Released(e)) = Remaining(e)
  <1>1. CASE e.tx_offset >= e.tx_len /\ e.tx_len > 0
    <2> DEFINE z == [e EXCEPT !.tx_len = 0, !.tx_offset = 0]
    <2>1. Released(e) = z
      BY <1>1 DEF Released
    <2>7. z \in Entry /\ z.present = e.present /\ z.tx_len = 0 /\ z.tx_offset = 0
      BY DEF Entry
    <2> HIDE DEF z
    <2>2. Released(e) \in Entry /\ Released(e).present = e.present
          /\ Released(e).tx_len = 0 /\ Released(e).tx_offset = 0
      BY <2>1, <2>7
    <2>3. e.tx_len \in Nat /\ e.tx_offset \in Nat
      BY FieldTypes
    <2>4. Remaining(e) = 0
      BY <1>1, <2>3 DEF Remaining
    <2>5. Remaining(Released(e)) = 0
      BY <2>2 DEF Remaining
    <2>6. QED
      BY <2>2, <2>4, <2>5
  <1>2. CASE ~(e.tx_offset >= e.tx_len /\ e.tx_len > 0)
    BY <1>2 DEF Released
  <1>3. QED
    BY <1>1, <1>2

(* update_tx_entry moves exactly the bytes ngtcp2 reports out of the       *)
(* buffer, whatever happens to the FIN.                                    *)
LEMMA UpdateTxFacts ==
  ASSUME NEW e \in Entry, NEW w \in Int, NEW f \in BOOLEAN, NEW p \in BOOLEAN,
         e.tx_offset <= e.tx_len, w <= Remaining(e)
  PROVE  /\ UpdateTx(e, w, f, p) \in Entry
         /\ UpdateTx(e, w, f, p).present = e.present
         /\ UpdateTx(e, w, f, p).tx_offset <= UpdateTx(e, w, f, p).tx_len
         /\ Remaining(UpdateTx(e, w, f, p))
              = Remaining(e) - IF w > 0 THEN w ELSE 0
  <1> DEFINE a == Taken(e, w)
             b == FinMarked(a, f /\ p)
             c == Released(b)
             d == Woken(c)
  <1>1. /\ a \in Entry /\ a.present = e.present /\ a.tx_len = e.tx_len
        /\ a.tx_offset = e.tx_offset + IF w > 0 THEN w ELSE 0
        /\ a.tx_offset <= a.tx_len
    BY TakenFacts
  <1> HIDE DEF a
  <1>2. SameTx(a, b)
    BY <1>1, SameTxOperators
  <1> HIDE DEF b
  <1>3. b \in Entry /\ b.tx_offset <= b.tx_len
    BY <1>1, <1>2 DEF SameTx
  <1>4. /\ c \in Entry /\ c.present = b.present
        /\ c.tx_offset <= c.tx_len /\ Remaining(c) = Remaining(b)
    BY <1>3, ReleasedFacts
  <1> HIDE DEF c
  <1>5. SameTx(c, d)
    BY <1>4, SameTxOperators
  <1>6. UpdateTx(e, w, f, p) = d
    BY DEF UpdateTx, a, b, c, d
  <1> HIDE DEF d
  <1>7. Remaining(d) = Remaining(c) /\ Remaining(b) = Remaining(a)
    BY <1>2, <1>5 DEF SameTx, Remaining
  <1>8. Remaining(a) = Remaining(e) - IF w > 0 THEN w ELSE 0
    BY <1>1, FieldTypes DEF Remaining
  <1>9. QED
    BY <1>1, <1>2, <1>3, <1>4, <1>5, <1>6, <1>7, <1>8 DEF SameTx

(* discard_tx_entry leaves nothing to send.                                *)
LEMMA DiscardTxFacts ==
  ASSUME NEW e \in Entry
  PROVE  /\ DiscardTx(e) \in Entry /\ DiscardTx(e).present = e.present
         /\ DiscardTx(e).tx_len = 0 /\ DiscardTx(e).tx_offset = 0
  BY DEF Entry, DiscardTx

(***************************************************************************)
(* What the operators on ngtcp2's view of one stream do                    *)
(***************************************************************************)

(* v is a view with the same offset as t, of a stream that is open.        *)
SameSent(t, v) == v \in Transport /\ v.sent = t.sent /\ v.wr # "none"

(* A stream ngtcp2 has not opened has sent nothing.                        *)
LEMMA NoTransportFacts ==
  NoTransport \in Transport /\ NoTransport.sent = 0 /\ NoTransport.wr = "none"
  BY DEF Transport, NoTransport

(* A stream ngtcp2 has just opened has sent nothing.                       *)
LEMMA OpenedFacts ==
  ASSUME NEW s \in Nat
  PROVE  Opened(s) \in Transport /\ Opened(s).sent = 0 /\ Opened(s).wr # "none"
  <1>1. Opened(s) \in Transport /\ Opened(s).sent = 0
    BY DEF Transport, NoTransport, Opened
  <1>2. QED
    BY <1>1 DEF NoTransport, Opened

(* Shutting either side of a stream leaves its offset alone.               *)
LEMMA SameSentOperators ==
  ASSUME NEW t \in Transport, t.wr # "none"
  PROVE  /\ SameSent(t, ReadDone(t))
         /\ SameSent(t, Shutdown(t))
         /\ SameSent(t, [t EXCEPT !.wr = "gone"])
         /\ SameSent(t, [t EXCEPT !.wr = "shut"])
         /\ SameSent(t, [t EXCEPT !.credit = MaxCredit])
  <1>1. SameSent(t, ReadDone(t)) /\ SameSent(t, [t EXCEPT !.wr = "gone"])
    BY DEF SameSent, Transport, ReadDone
  <1>2. SameSent(t, Shutdown(t))
    BY DEF SameSent, Transport, Shutdown
  <1>3. SameSent(t, [t EXCEPT !.wr = "shut"])
    BY DEF SameSent, Transport
  <1>4. SameSent(t, [t EXCEPT !.credit = MaxCredit])
    BY ConstantsAssumption DEF SameSent, Transport
  <1>5. QED
    BY <1>1, <1>2, <1>3, <1>4

(* A frame of n bytes moves the offset of the stream by n.                 *)
LEMMA FramedFacts ==
  ASSUME NEW t \in Transport, NEW n \in Nat, NEW fin \in BOOLEAN,
         n <= t.credit, t.wr # "none"
  PROVE  /\ Framed(t, n, fin) \in Transport
         /\ Framed(t, n, fin).sent = t.sent + n
         /\ Framed(t, n, fin).wr # "none"
  <1>1. t.sent + n \in Nat /\ t.credit - n \in Nat
    BY DEF Transport
  <1>2. QED
    BY <1>1 DEF Transport, Framed
(***************************************************************************)
(* The invariant                                                           *)
(***************************************************************************)

(* The empty table satisfies the invariant.                                *)
LEMMA InitTxInv == Init => TxInv
  <1> SUFFICES ASSUME Init PROVE TxInv
    OBVIOUS
  <1>1. TypeOK
    <2>1. tNext \in [BOOLEAN -> Nat]
      BY MinIdType DEF Init
    <2>2. entry \in [StreamIds -> Entry] /\ tr \in [StreamIds -> Transport]
      BY NoEntryFacts, NoTransportFacts DEF Init
    <2>3. order \in Seq(StreamIds) /\ pc = "idle" /\ tConn = "open" /\ closing = "no"
          /\ result = "returned"
      BY DEF Init
    <2>4. nextId \in [BOOLEAN -> Nat] /\ tLimit \in [BOOLEAN -> Nat]
      BY DEF Init
    <2>5. accepted \in [StreamIds -> Nat] /\ dropped \in [StreamIds -> Nat]
      BY DEF Init
    <2>6. connClosed \in BOOLEAN /\ forceConnOnly \in BOOLEAN /\ ppe \in BOOLEAN
          /\ ctl \in BOOLEAN /\ ndgram \in Nat /\ cwnd \in Nat
      BY ConstantsAssumption DEF Init
    <2>7. QED
      BY <2>1, <2>2, <2>3, <2>4, <2>5, <2>6 DEF TypeOK
  <1>2. FreshInv
    BY MinIdType DEF Init, FreshInv
  <1>3. BufferInv /\ AbsentInv /\ UnopenedInv
    BY NoEntryFacts DEF Init, BufferInv, AbsentInv, UnopenedInv
  <1>4. Conservation
    <2>1. Remaining(NoEntry) = 0
      BY NoEntryFacts DEF Remaining
    <2>2. SUFFICES ASSUME NEW s \in StreamIds
                   PROVE  accepted[s] = tr[s].sent + Remaining(entry[s]) + dropped[s]
      BY DEF Conservation
    <2>3. accepted[s] = 0 /\ dropped[s] = 0 /\ tr[s] = NoTransport /\ entry[s] = NoEntry
      BY DEF Init
    <2>4. QED
      BY <2>1, <2>3, NoTransportFacts
  <1>5. QED
    BY <1>1, <1>2, <1>3, <1>4 DEF TxInv

(* Replacing one entry by a well-formed one.                               *)
LEMMA PutLemma ==
  ASSUME TxInv, NEW s \in StreamIds, NEW u \in Entry,
         u.present, u.tx_offset <= u.tx_len, entry' = [entry EXCEPT ![s] = u]
  PROVE  /\ entry' \in [StreamIds -> Entry] /\ BufferInv' /\ AbsentInv'
         /\ entry'[s] = u /\ \A r \in StreamIds \ {s} : entry'[r] = entry[r]
  BY DEF TxInv, TypeOK, BufferInv, AbsentInv

(* The table's insertion order keeps its type.                             *)
LEMMA OrderLemma ==
  ASSUME TxInv, NEW s \in StreamIds, NEW u, PutEntry(s, u)
  PROVE  order' \in Seq(StreamIds) /\ entry' = [entry EXCEPT ![s] = u]
  BY DEF TxInv, TypeOK, PutEntry

(* Replacing ngtcp2's view of a stream that is open already.               *)
LEMMA ViewLemma ==
  ASSUME TxInv, NEW s \in StreamIds, NEW v \in Transport, v.wr # "none",
         tr[s].wr # "none", tr' = [tr EXCEPT ![s] = v], UNCHANGED tNext
  PROVE  /\ tr' \in [StreamIds -> Transport] /\ UnopenedInv' /\ FreshInv'
         /\ tr'[s] = v /\ \A r \in StreamIds \ {s} : tr'[r] = tr[r]
  <1>1. tr' \in [StreamIds -> Transport] /\ tr'[s] = v
        /\ \A r \in StreamIds \ {s} : tr'[r] = tr[r]
    BY DEF TxInv, TypeOK
  <1>2. UnopenedInv'
    BY <1>1 DEF TxInv, UnopenedInv
  <1>3. FreshInv'
    <2>1. tr[s] # NoTransport
      BY NoTransportFacts
    <2>2. QED
      BY <1>1, <2>1 DEF TxInv, FreshInv
  <1>4. QED
    BY <1>1, <1>2, <1>3

(* ngtcp2 opens the next local stream.                                     *)
LEMMA OpenLemma ==
  ASSUME TxInv, NEW bidi \in BOOLEAN, tNext[bidi] \in StreamIds, TransportOpen(bidi)
  PROVE  /\ tr' \in [StreamIds -> Transport] /\ tNext' \in [BOOLEAN -> Nat]
         /\ UnopenedInv' /\ FreshInv'
         /\ \A r \in StreamIds : tr'[r].sent = tr[r].sent
  <1> DEFINE id == tNext[bidi]
  <1>1. id \in Nat /\ id % 4 = MinId(bidi) /\ tr[id] = NoTransport
    BY DEF TxInv, TypeOK, FreshInv
  <1>2. Opened(id) \in Transport /\ Opened(id).sent = 0 /\ Opened(id).wr # "none"
    BY <1>1, OpenedFacts
  <1>3. /\ tr' \in [StreamIds -> Transport] /\ tr'[id] = Opened(id)
        /\ \A r \in StreamIds \ {id} : tr'[r] = tr[r]
    BY <1>2 DEF TransportOpen, TxInv, TypeOK
  <1>4. /\ tNext' \in [BOOLEAN -> Nat] /\ tNext'[bidi] = id + 4
        /\ \A b \in BOOLEAN \ {bidi} : tNext'[b] = tNext[b]
    <2>1. id + 4 \in Nat
      BY <1>1
    <2>2. tNext \in [BOOLEAN -> Nat] /\ tNext' = [tNext EXCEPT ![bidi] = id + 4]
      BY DEF TransportOpen, TxInv, TypeOK
    <2> HIDE DEF id
    <2>3. QED
      BY <2>1, <2>2
  <1>5. UnopenedInv'
    BY <1>2, <1>3 DEF TxInv, UnopenedInv
  <1>6. FreshInv'
    <2> SUFFICES ASSUME NEW b \in BOOLEAN
                 PROVE  /\ tNext'[b] % 4 = MinId(b)
                        /\ \A s \in StreamIds :
                             s % 4 = MinId(b) /\ s >= tNext'[b] => tr'[s] = NoTransport
      BY DEF FreshInv
    <2>1. CASE b = bidi
      <3>1. (id + 4) % 4 = id % 4
        BY <1>1
      <3>2. QED
        BY <1>1, <1>3, <1>4, <2>1, <3>1, ConstantsAssumption DEF TxInv, FreshInv
    <2>2. CASE b # bidi
      <3>1. MinId(b) # MinId(bidi)
        BY <2>2, ConstantsAssumption DEF MinId
      <3>2. QED
        BY <1>1, <1>3, <1>4, <2>2, <3>1 DEF TxInv, FreshInv
    <2>3. QED
      BY <2>1, <2>2
  <1>7. \A r \in StreamIds : tr'[r].sent = tr[r].sent
    BY <1>1, <1>2, <1>3, NoTransportFacts
  <1>8. QED
    BY <1>3, <1>4, <1>5, <1>6, <1>7

(***************************************************************************)
(* One step.  The invariant has a part about the streams and a part about  *)
(* the control variables, which are shown separately.                      *)
(***************************************************************************)

ControlOK ==
  /\ nextId \in [BOOLEAN -> Nat]
  /\ connClosed \in BOOLEAN /\ closing \in {"no", "requested", "sent"}
  /\ pc \in {"idle", "drain"} /\ forceConnOnly \in BOOLEAN
  /\ ndgram \in Nat /\ result \in {"returned", "threw", "mismatch"}
  /\ tLimit \in [BOOLEAN -> Nat]
  /\ tConn \in {"open", "closing", "draining"}
  /\ cwnd \in Nat /\ ppe \in BOOLEAN /\ ctl \in BOOLEAN

ViewInv == /\ tr \in [StreamIds -> Transport] /\ tNext \in [BOOLEAN -> Nat]
           /\ FreshInv /\ UnopenedInv

DataInv == /\ entry \in [StreamIds -> Entry] /\ order \in Seq(StreamIds)
           /\ accepted \in [StreamIds -> Nat] /\ dropped \in [StreamIds -> Nat]
           /\ BufferInv /\ AbsentInv /\ ViewInv /\ Conservation

(* The step leaves the offset ngtcp2 reached on every stream alone.        *)
KeepsSent == ViewInv' /\ \A r \in StreamIds : tr'[r].sent = tr[r].sent

(* An entry that exists, of the same length beyond tx_offset as s has now. *)
Replaces(s, u) == /\ u \in Entry /\ u.present /\ u.tx_offset <= u.tx_len
                  /\ Remaining(u) = Remaining(entry[s])

(* The streams' part after a step that changes one entry.                  *)
LEMMA PutStep ==
  ASSUME TxInv, NEW s \in StreamIds, NEW u \in Entry,
         u.present, u.tx_offset <= u.tx_len,
         entry' = [entry EXCEPT ![s] = u], order' \in Seq(StreamIds), ViewInv',
         accepted' \in [StreamIds -> Nat], dropped' \in [StreamIds -> Nat],
         accepted'[s] = tr'[s].sent + Remaining(u) + dropped'[s],
         \A r \in StreamIds \ {s} : /\ tr'[r].sent = tr[r].sent
                                    /\ accepted'[r] = accepted[r]
                                    /\ dropped'[r] = dropped[r]
  PROVE  DataInv'
  <1>1. /\ entry' \in [StreamIds -> Entry] /\ BufferInv' /\ AbsentInv'
        /\ entry'[s] = u /\ \A r \in StreamIds \ {s} : entry'[r] = entry[r]
    BY PutLemma
  <1>2. Conservation'
    <2> SUFFICES ASSUME NEW r \in StreamIds
                 PROVE  accepted'[r] = tr'[r].sent + Remaining(entry'[r]) + dropped'[r]
      BY DEF Conservation
    <2>1. CASE r = s
      BY <2>1, <1>1
    <2>2. CASE r # s
      BY <2>2, <1>1 DEF TxInv, Conservation
    <2>3. QED
      BY <2>1, <2>2
  <1>3. QED
    BY <1>1, <1>2 DEF DataInv

(* A step that only replaces an entry by one with as many bytes to send.   *)
LEMMA ReplaceStep ==
  ASSUME TxInv, NEW s \in StreamIds, NEW u, Replaces(s, u), KeepsSent,
         entry' = [entry EXCEPT ![s] = u], order' \in Seq(StreamIds),
         UNCHANGED history
  PROVE  DataInv'
  <1>1. accepted' = accepted /\ dropped' = dropped
    BY DEF history
  <1>2. accepted[s] = tr[s].sent + Remaining(entry[s]) + dropped[s]
    BY DEF TxInv, Conservation
  <1>3. accepted'[s] = tr'[s].sent + Remaining(u) + dropped'[s]
    BY <1>1, <1>2 DEF Replaces, KeepsSent
  <1>4. accepted' \in [StreamIds -> Nat] /\ dropped' \in [StreamIds -> Nat]
    BY <1>1 DEF TxInv, TypeOK
  <1>5. QED
    BY <1>1, <1>3, <1>4, PutStep DEF Replaces, KeepsSent

(* A step that changes no entry.                                           *)
LEMMA SameEntriesStep ==
  ASSUME TxInv, KeepsSent, UNCHANGED <<entry, order, history>>
  PROVE  DataInv'
  <1>1. entry' = entry /\ order' = order /\ accepted' = accepted /\ dropped' = dropped
    BY DEF history
  <1>2. Conservation'
    BY <1>1 DEF TxInv, Conservation, KeepsSent
  <1>3. BufferInv' /\ AbsentInv'
    BY <1>1 DEF TxInv, BufferInv, AbsentInv
  <1>4. QED
    BY <1>1, <1>2, <1>3 DEF DataInv, KeepsSent, TxInv, TypeOK

(* A step that does not touch ngtcp2's view.                               *)
LEMMA SameViewStep ==
  ASSUME TxInv, UNCHANGED <<tr, tNext>>
  PROVE  KeepsSent
  BY DEF TxInv, TypeOK, KeepsSent, ViewInv, FreshInv, UnopenedInv

(* A step that changes the view of one open stream, not its offset.        *)
LEMMA ViewStep ==
  ASSUME TxInv, NEW s \in StreamIds, NEW v, tr[s].wr # "none", SameSent(tr[s], v),
         tr' = [tr EXCEPT ![s] = v], UNCHANGED tNext
  PROVE  KeepsSent
  <1>1. v \in Transport /\ v.sent = tr[s].sent /\ v.wr # "none"
    BY DEF SameSent
  <1>2. /\ tr' \in [StreamIds -> Transport] /\ UnopenedInv' /\ FreshInv'
        /\ tr'[s] = v /\ \A r \in StreamIds \ {s} : tr'[r] = tr[r]
    BY <1>1, ViewLemma
  <1>3. QED
    BY <1>1, <1>2 DEF KeepsSent, ViewInv, TxInv, TypeOK

(* ngtcp2 opens a local stream.                                            *)
LEMMA OpenStep ==
  ASSUME TxInv, NEW bidi \in BOOLEAN, tNext[bidi] \in StreamIds, TransportOpen(bidi)
  PROVE  KeepsSent
  BY OpenLemma DEF KeepsSent, ViewInv

(* The table gives back a well-formed entry for every id.                  *)
LEMMA OpenEntryFacts ==
  ASSUME TxInv, NEW s \in StreamIds
  PROVE  /\ Replaces(s, OpenEntry(s))
         /\ entry[s] \in Entry /\ entry[s].tx_offset <= entry[s].tx_len
         /\ entry[s].present => Replaces(s, entry[s])
         /\ tr[s] \in Transport
  <1>1. entry[s] \in Entry /\ entry[s].tx_offset <= entry[s].tx_len /\ tr[s] \in Transport
    BY DEF TxInv, TypeOK, BufferInv
  <1>2. entry[s].present => Replaces(s, entry[s])
    BY <1>1 DEF Replaces
  <1>3. ~entry[s].present => Replaces(s, EntryAlloc)
    <2>1. ~entry[s].present => entry[s] = NoEntry
      BY DEF TxInv, AbsentInv
    <2>2. Remaining(NoEntry) = 0 /\ Remaining(EntryAlloc) = 0
      BY NoEntryFacts, EntryAllocFacts DEF Remaining
    <2>3. QED
      BY <2>1, <2>2, EntryAllocFacts DEF Replaces
  <1>4. QED
    BY <1>1, <1>2, <1>3 DEF OpenEntry

(* SameTx carries Replaces from one entry to another.                      *)
LEMMA SameTxReplaces ==
  ASSUME NEW s, NEW e, NEW u, Replaces(s, e), SameTx(e, u)
  PROVE  Replaces(s, u)
  BY DEF Replaces, SameTx, Remaining

(* The same through PutEntry, from the entry e the table gives.            *)
LEMMA PutEntryStep ==
  ASSUME TxInv, NEW s \in StreamIds, NEW e, NEW u, Replaces(s, e), SameTx(e, u),
         PutEntry(s, u), KeepsSent, UNCHANGED history
  PROVE  DataInv'
  <1>1. Replaces(s, u)
    BY SameTxReplaces
  <1>2. order' \in Seq(StreamIds) /\ entry' = [entry EXCEPT ![s] = u]
    BY OrderLemma
  <1>3. QED
    BY <1>1, <1>2, ReplaceStep

(* A call that takes n bytes from the application.                         *)
LEMMA AppendStep ==
  ASSUME TxInv, NEW s \in StreamIds, NEW n \in Nat, NEW u \in Entry, entry[s].present,
         u.present, u.tx_len = entry[s].tx_len + n, u.tx_offset = entry[s].tx_offset,
         PutEntry(s, u), accepted' = [accepted EXCEPT ![s] = @ + n],
         UNCHANGED <<tr, tNext, dropped>>
  PROVE  DataInv'
  <1>1. KeepsSent
    BY SameViewStep
  <1>2. order' \in Seq(StreamIds) /\ entry' = [entry EXCEPT ![s] = u]
    BY OrderLemma
  <1>3. /\ entry[s] \in Entry /\ entry[s].tx_offset <= entry[s].tx_len
        /\ tr[s] \in Transport
    BY OpenEntryFacts
  <1>4. accepted[s] \in Nat /\ dropped[s] \in Nat /\ tr[s].sent \in Nat
    BY <1>3 DEF TxInv, TypeOK, Transport
  <1>5. /\ accepted' \in [StreamIds -> Nat] /\ accepted'[s] = accepted[s] + n
        /\ \A r \in StreamIds \ {s} : accepted'[r] = accepted[r]
    <2>1. accepted[s] + n \in Nat
      BY <1>4
    <2>2. QED
      BY <2>1 DEF TxInv, TypeOK
  <1>6. entry[s].tx_len \in Nat /\ entry[s].tx_offset \in Nat
    BY <1>3, FieldTypes
  <1>7. accepted[s] = tr[s].sent + (entry[s].tx_len - entry[s].tx_offset) + dropped[s]
    BY DEF TxInv, Conservation, Remaining
  <1>8. accepted'[s] = tr'[s].sent + Remaining(u) + dropped'[s]
    BY <1>4, <1>5, <1>6, <1>7 DEF Remaining
  <1>9. u.tx_offset <= u.tx_len
    BY <1>3, <1>6
  <1>10. dropped' \in [StreamIds -> Nat]
    BY DEF TxInv, TypeOK
  <1>11. QED
    BY <1>1, <1>2, <1>5, <1>8, <1>9, <1>10, PutStep DEF KeepsSent

(* The calls of the application preserve the streams' part.                *)
LEMMA AppCallData == TxInv /\ AppCall => DataInv'
  <1> SUFFICES ASSUME TxInv, AppCall PROVE DataInv'
    OBVIOUS
  <1>1. ASSUME NEW bidi \in BOOLEAN, OpenNow(bidi) PROVE DataInv'
    <2> DEFINE id == tNext[bidi]
    <2>1. id \in StreamIds /\ TransportOpen(bidi) /\ UNCHANGED history
          /\ PutEntry(id, LocalOpened(OpenEntry(id), FALSE))
      BY <1>1 DEF OpenNow, FinishOpen
    <2>2. KeepsSent
      BY <2>1, OpenStep
    <2>3. Replaces(id, OpenEntry(id))
      BY <2>1, OpenEntryFacts
    <2>4. SameTx(OpenEntry(id), LocalOpened(OpenEntry(id), FALSE))
      BY <2>3, SameTxOperators DEF Replaces
    <2>5. QED
      BY <2>1, <2>2, <2>3, <2>4, PutEntryStep
  <1>2. ASSUME NEW bidi \in BOOLEAN, OpenBlocked(bidi) PROVE DataInv'
    <2> DEFINE id == EnsuredNextId(bidi)
    <2>1. id \in StreamIds /\ UNCHANGED history /\ UNCHANGED <<tr, tNext>>
          /\ PutEntry(id, LocalOpened(OpenEntry(id), TRUE))
      BY <1>2 DEF OpenBlocked, FinishOpen, tVars, tIds
    <2> HIDE DEF id
    <2>2. KeepsSent
      BY <2>1, SameViewStep
    <2>3. Replaces(id, OpenEntry(id))
      BY <2>1, OpenEntryFacts
    <2>4. SameTx(OpenEntry(id), LocalOpened(OpenEntry(id), TRUE))
      BY <2>3, SameTxOperators DEF Replaces
    <2>5. QED
      BY <2>1, <2>2, <2>3, <2>4, PutEntryStep
  <1>3. ASSUME NEW s \in StreamIds, NEW n \in WriteSizes, Write(s, n) PROVE DataInv'
    <2>1. n \in Nat /\ entry[s] \in Entry /\ entry[s].present
      BY <1>3, ConstantsAssumption, OpenEntryFacts DEF Write
    <2>2. PutEntry(s, Appended(entry[s], n)) /\ UNCHANGED <<tr, tNext, dropped>>
          /\ accepted' = [accepted EXCEPT ![s] = @ + n]
      BY <1>3 DEF Write, tVars, tIds
    <2>3. QED
      BY <2>1, <2>2, AppendFacts, AppendStep
  <1>4. ASSUME NEW s \in StreamIds, NEW n \in WriteSizes \cup {0}, End(s, n) PROVE DataInv'
    <2>1. n \in Nat
      BY ConstantsAssumption
    <2>4. entry[s] \in Entry /\ entry[s].present
      BY <1>4, OpenEntryFacts DEF End
    <2>2. PutEntry(s, Ended(entry[s], n)) /\ UNCHANGED <<tr, tNext, dropped>>
          /\ accepted' = [accepted EXCEPT ![s] = @ + n]
      BY <1>4 DEF End, tVars, tIds
    <2>3. QED
      BY <2>1, <2>2, <2>4, AppendFacts, AppendStep
  <1>5. ASSUME NEW s \in StreamIds, NEW n \in 1..MaxRx, Read(s, n) PROVE DataInv'
    <2>1. n \in 1..entry[s].rx_len /\ PutEntry(s, Consumed(entry[s], n))
          /\ UNCHANGED history /\ UNCHANGED <<tr, tNext>>
      BY <1>5 DEF Read, tVars, tIds
    <2>2. KeepsSent
      BY <2>1, SameViewStep
    <2>3. entry[s] \in Entry
      BY OpenEntryFacts
    <2>4. entry[s].present
      <3>1. NoEntry.rx_len = 0
        BY DEF NoEntry
      <3>2. SUFFICES ASSUME ~entry[s].present PROVE FALSE
        BY <2>3, FieldTypes
      <3>3. entry[s] = NoEntry
        BY <3>2 DEF TxInv, AbsentInv
      <3>4. QED
        BY <2>1, <3>1, <3>3
    <2>5. SameTx(entry[s], Consumed(entry[s], n))
      BY <2>1, <2>3, ConsumedFacts
    <2>6. QED
      BY <2>1, <2>2, <2>4, <2>5, OpenEntryFacts, PutEntryStep
  <1>6. ASSUME NEW s \in StreamIds, Reset(s) PROVE DataInv'
    <2>1. /\ entry[s].present /\ PutEntry(s, LocallyReset(entry[s])) /\ UNCHANGED history
          /\ tr' = IF connClosed THEN tr ELSE [tr EXCEPT ![s] = Shutdown(tr[s])]
          /\ UNCHANGED tNext
      BY <1>6 DEF Reset, tIds
    <2>2. SameTx(entry[s], LocallyReset(entry[s]))
      BY OpenEntryFacts, SameTxOperators
    <2>3. KeepsSent
      <3>1. tr \in [StreamIds -> Transport]
        BY DEF TxInv, TypeOK
      <3>2. CASE connClosed \/ tr[s].wr = "none"
        <4>1. tr' = tr
          BY <2>1, <3>1, <3>2 DEF Shutdown
        <4>2. QED
          BY <2>1, <4>1, SameViewStep
      <3>3. CASE ~connClosed /\ tr[s].wr # "none"
        BY <2>1, <3>1, <3>3, SameSentOperators, ViewStep
      <3>4. QED
        BY <3>2, <3>3
    <2>4. QED
      BY <2>1, <2>2, <2>3, OpenEntryFacts, PutEntryStep
  <1>7. ASSUME Close \/ DrainClose \/ DrainBegin PROVE DataInv'
    <2>1. UNCHANGED <<entry, order, history>> /\ UNCHANGED <<tr, tNext>>
      BY <1>7 DEF Close, DrainClose, DrainBegin, table, tVars, tIds
    <2>2. QED
      BY <2>1, SameViewStep, SameEntriesStep
  <1>8. QED
    BY <1>1, <1>2, <1>3, <1>4, <1>5, <1>6, <1>7 DEF AppCall

(* The packets recv() hands to ngtcp2 preserve the streams' part.          *)
LEMMA PacketData == TxInv /\ Packet => DataInv'
  <1> SUFFICES ASSUME TxInv, Packet PROVE DataInv'
    OBVIOUS
  <1>1. ASSUME NEW s \in StreamIds, StreamOpenCb(s) PROVE DataInv'
    <2>1. /\ tr[s].wr = "none" /\ ~Local(s) /\ tr' = [tr EXCEPT ![s] = Opened(s)]
          /\ UNCHANGED tNext /\ UNCHANGED history
          /\ PutEntry(s, SetWritable(OpenEntry(s), Bidi(s)))
      BY <1>1 DEF StreamOpenCb, tIds
    <2>2. s \in Nat
      BY ConstantsAssumption
    <2>3. KeepsSent
      <3>1. Opened(s) \in Transport /\ Opened(s).sent = 0 /\ Opened(s).wr # "none"
        BY <2>2, OpenedFacts
      <3>2. tr' \in [StreamIds -> Transport] /\ tr'[s] = Opened(s)
            /\ \A r \in StreamIds \ {s} : tr'[r] = tr[r]
        BY <2>1, <3>1 DEF TxInv, TypeOK
      <3>3. tr[s] = NoTransport
        BY <2>1 DEF TxInv, UnopenedInv
      <3>4. UnopenedInv'
        BY <3>1, <3>2 DEF TxInv, UnopenedInv
      <3>5. \A bidi \in BOOLEAN : s % 4 # MinId(bidi)
        BY <2>1, <2>2, ConstantsAssumption DEF Local, MinId
      <3>6. FreshInv'
        BY <2>1, <3>2, <3>5 DEF TxInv, FreshInv
      <3>7. QED
        BY <2>1, <3>1, <3>2, <3>3, <3>4, <3>6, NoTransportFacts
           DEF KeepsSent, ViewInv, TxInv, TypeOK
    <2>4. SameTx(OpenEntry(s), SetWritable(OpenEntry(s), Bidi(s)))
      <3>1. Bidi(s) \in BOOLEAN
        BY DEF Bidi
      <3>2. QED
        BY <3>1, OpenEntryFacts, SameTxOperators DEF Replaces
    <2>5. QED
      BY <2>1, <2>3, <2>4, OpenEntryFacts, PutEntryStep
  <1>2. ASSUME NEW s \in StreamIds, NEW n \in 0..MaxRx, NEW fin \in BOOLEAN,
               RecvStreamDataCb(s, n, fin)
        PROVE  DataInv'
    <2>1. /\ tr[s].wr # "none" /\ UNCHANGED tNext /\ UNCHANGED history
          /\ PutEntry(s, Received(OpenEntry(s), n, fin))
          /\ tr' = IF fin THEN [tr EXCEPT ![s] = ReadDone(tr[s])] ELSE tr
      BY <1>2 DEF RecvStreamDataCb, PeerSends, tIds
    <2>2. SameTx(OpenEntry(s), Received(OpenEntry(s), n, fin))
      BY OpenEntryFacts, ReceivedFacts DEF Replaces
    <2>3. CASE fin
      BY <2>1, <2>2, <2>3, OpenEntryFacts, SameSentOperators, ViewStep, PutEntryStep
    <2>4. CASE ~fin
      BY <2>1, <2>2, <2>4, OpenEntryFacts, SameViewStep, PutEntryStep
    <2>5. QED
      BY <2>3, <2>4
  <1>3. ASSUME NEW s \in StreamIds, StreamResetCb(s) PROVE DataInv'
    <2>1. /\ tr[s].wr # "none" /\ UNCHANGED tNext /\ UNCHANGED history
          /\ PutEntry(s, PeerReset(OpenEntry(s)))
          /\ tr' = [tr EXCEPT ![s] = ReadDone(tr[s])]
      BY <1>3 DEF StreamResetCb, PeerSends, tIds
    <2>2. SameTx(OpenEntry(s), PeerReset(OpenEntry(s)))
      BY OpenEntryFacts, SameTxOperators DEF Replaces
    <2>3. KeepsSent
      BY <2>1, OpenEntryFacts, SameSentOperators, ViewStep
    <2>4. QED
      BY <2>1, <2>2, <2>3, OpenEntryFacts, PutEntryStep
  <1>4. ASSUME NEW s \in StreamIds, StreamCloseCb(s) PROVE DataInv'
    <2>1. /\ tr[s].wr # "none" /\ UNCHANGED tNext /\ UNCHANGED history
          /\ PutEntry(s, BothClosed(OpenEntry(s)))
          /\ tr' = [tr EXCEPT ![s] = [tr[s] EXCEPT !.wr = "gone"]]
      BY <1>4 DEF StreamCloseCb, tIds
    <2>2. SameTx(OpenEntry(s), BothClosed(OpenEntry(s)))
      BY OpenEntryFacts, SameTxOperators DEF Replaces
    <2>3. SameSent(tr[s], [tr[s] EXCEPT !.wr = "gone"])
      BY <2>1, OpenEntryFacts, SameSentOperators
    <2>4. KeepsSent
      BY <2>1, <2>3, ViewStep
    <2>5. QED
      BY <2>1, <2>2, <2>4, OpenEntryFacts, PutEntryStep
  <1>5. ASSUME NEW s \in StreamIds, AckedStreamDataCb(s) PROVE DataInv'
    <2>1. UNCHANGED history /\ UNCHANGED <<tr, tNext>>
      BY <1>5 DEF AckedStreamDataCb, tIds
    <2>2. KeepsSent
      BY <2>1, SameViewStep
    <2>3. CASE AckWakes(entry[s]) /\ PutEntry(s, SetWritable(entry[s], TRUE))
      <3>1. SameTx(entry[s], SetWritable(entry[s], TRUE))
        BY OpenEntryFacts, SameTxOperators
      <3>2. QED
        BY <2>1, <2>2, <2>3, <3>1, OpenEntryFacts, PutEntryStep DEF AckWakes
    <2>4. CASE UNCHANGED table
      BY <2>1, <2>2, <2>4, SameEntriesStep DEF table
    <2>5. QED
      BY <1>5, <2>3, <2>4 DEF AckedStreamDataCb
  <1>6. ASSUME NEW s \in StreamIds, StopSending(s) PROVE DataInv'
    <2>1. /\ tr[s].wr # "none" /\ UNCHANGED tNext /\ UNCHANGED <<entry, order, history>>
          /\ tr' = [tr EXCEPT ![s] = [tr[s] EXCEPT !.wr = "shut"]]
      BY <1>6 DEF StopSending, tIds, table
    <2>2. SameSent(tr[s], [tr[s] EXCEPT !.wr = "shut"])
      BY <2>1, OpenEntryFacts, SameSentOperators
    <2>3. QED
      BY <2>1, <2>2, ViewStep, SameEntriesStep
  <1>7. ASSUME NEW s \in StreamIds, GrantCredit(s) PROVE DataInv'
    <2>1. /\ tr[s].wr # "none" /\ UNCHANGED tNext /\ UNCHANGED <<entry, order, history>>
          /\ tr' = [tr EXCEPT ![s] = [tr[s] EXCEPT !.credit = MaxCredit]]
      BY <1>7 DEF GrantCredit, tIds, table
    <2>2. SameSent(tr[s], [tr[s] EXCEPT !.credit = MaxCredit])
      BY <2>1, OpenEntryFacts, SameSentOperators
    <2>3. QED
      BY <2>1, <2>2, ViewStep, SameEntriesStep
  <1>8. ASSUME WindowOpens \/ (\E bidi \in BOOLEAN : RaiseLimit(bidi)) \/ PeerClose
        PROVE  DataInv'
    <2>1. UNCHANGED <<entry, order, history>> /\ UNCHANGED <<tr, tNext>>
      BY <1>8 DEF WindowOpens, RaiseLimit, PeerClose, table, tIds
    <2>2. QED
      BY <2>1, SameViewStep, SameEntriesStep
  <1>9. QED
    BY <1>1, <1>2, <1>3, <1>4, <1>5, <1>6, <1>7, <1>8 DEF Packet

(* Every iteration of the transmit loop preserves the streams' part.       *)
LEMMA DrainStepData == TxInv /\ DrainStep => DataInv'
  <1> SUFFICES ASSUME TxInv, DrainStep PROVE DataInv'
    OBVIOUS
  <1>1. ASSUME NEW s \in StreamIds, NEW n \in 0..MaxBytes, NEW more \in BOOLEAN,
               WriteFrame(s, n, more)
        PROVE  DataInv'
    <2> DEFINE e == entry[s]
               fin == e.fin_pending
               u == UpdateTx(e, n, fin, ~more)
               v == Framed(tr[s], n, fin /\ n = Remaining(e))
    <2>1. /\ HasTx(e) /\ tr[s].wr = "open" /\ n <= Remaining(e) /\ n <= tr[s].credit
          /\ tr' = [tr EXCEPT ![s] = v] /\ ApplyUpdate(s, u)
          /\ UNCHANGED tNext /\ UNCHANGED history
      BY <1>1 DEF WriteFrame, Target, Picks, tIds
    <2>2. /\ e \in Entry /\ e.tx_offset <= e.tx_len /\ e.present
          /\ tr[s] \in Transport /\ n \in Nat /\ fin \in BOOLEAN
      <3>1. e \in Entry /\ e.tx_offset <= e.tx_len /\ tr[s] \in Transport
        BY OpenEntryFacts
      <3>2. e.present
        BY <2>1 DEF HasTx
      <3>3. QED
        BY <3>1, <3>2, ConstantsAssumption DEF Entry
    <2>3. /\ u \in Entry /\ u.present /\ u.tx_offset <= u.tx_len
          /\ Remaining(u) = Remaining(e) - n
      <3>1. Remaining(e) - (IF n > 0 THEN n ELSE 0) = Remaining(e) - n
        BY <2>2
      <3>2. n \in Int /\ (~more) \in BOOLEAN /\ n <= Remaining(e)
        BY <2>1, <2>2
      <3> HIDE DEF e, fin
      <3>3. QED
        BY <2>2, <3>1, <3>2, UpdateTxFacts
    <2>4. v \in Transport /\ v.sent = tr[s].sent + n /\ v.wr # "none"
      BY <2>1, <2>2, FramedFacts
    <2> HIDE DEF u, v
    <2>5. /\ tr' \in [StreamIds -> Transport] /\ UnopenedInv' /\ FreshInv'
          /\ tr'[s] = v /\ \A r \in StreamIds \ {s} : tr'[r] = tr[r]
      BY <2>1, <2>4, ViewLemma
    <2>6. ViewInv'
      BY <2>1, <2>5 DEF ViewInv, TxInv, TypeOK
    <2>7. accepted'[s] = tr'[s].sent + Remaining(u) + dropped'[s]
      <3>1. accepted'[s] = accepted[s] /\ dropped'[s] = dropped[s]
        BY <2>1 DEF history
      <3>2. accepted[s] = tr[s].sent + Remaining(e) + dropped[s]
        BY DEF TxInv, Conservation
      <3>3. tr[s].sent \in Nat /\ dropped[s] \in Nat
        BY <2>2 DEF Transport, TxInv, TypeOK
      <3>5. Remaining(e) \in Int
        BY <2>2, FieldTypes DEF Remaining
      <3> HIDE DEF e
      <3>4. QED
        BY <2>2, <2>3, <2>4, <2>5, <3>1, <3>2, <3>3, <3>5
    <2>8. entry' = [entry EXCEPT ![s] = u] /\ order' \in Seq(StreamIds)
          /\ accepted' \in [StreamIds -> Nat] /\ dropped' \in [StreamIds -> Nat]
      BY <2>1 DEF ApplyUpdate, TxInv, TypeOK, history
    <2>9. QED
      BY <2>1, <2>3, <2>5, <2>6, <2>7, <2>8, PutStep DEF history
  <1>2. ASSUME NEW s \in StreamIds, WriteOther(s) \/ WriteNothing(s) \/ WriteDataBlocked(s)
        PROVE  DataInv'
    <2> DEFINE e == entry[s]
    <2>1. /\ HasTx(e) /\ UNCHANGED <<tr, tNext>> /\ UNCHANGED history
          /\ \E p \in BOOLEAN : ApplyUpdate(s, UpdateTx(e, -1, e.fin_pending, p))
      BY <1>2 DEF WriteOther, WriteNothing, WriteDataBlocked, Target, Picks, tVars, tIds
    <2>2. PICK p \in BOOLEAN : ApplyUpdate(s, UpdateTx(e, -1, e.fin_pending, p))
      BY <2>1
    <2> DEFINE u == UpdateTx(e, -1, e.fin_pending, p)
    <2>3. /\ e \in Entry /\ e.tx_offset <= e.tx_len /\ e.present
          /\ e.fin_pending \in BOOLEAN
      <3>1. e \in Entry /\ e.tx_offset <= e.tx_len
        BY OpenEntryFacts
      <3>2. QED
        BY <2>1, <3>1 DEF HasTx, Entry
    <2>4. Remaining(e) \in Nat
      BY <2>3, FieldTypes DEF Remaining
    <2>5. /\ u \in Entry /\ u.present /\ u.tx_offset <= u.tx_len
          /\ Remaining(u) = Remaining(e)
      <3>1. -1 \in Int /\ -1 <= Remaining(e) /\ ~(-1 > 0)
        BY <2>4
      <3>2. Remaining(e) - (IF -1 > 0 THEN -1 ELSE 0) = Remaining(e)
        BY <2>4
      <3> HIDE DEF e
      <3>3. QED
        BY <2>3, <3>1, <3>2, UpdateTxFacts
    <2> HIDE DEF u
    <2>6. Replaces(s, u)
      BY <2>5 DEF Replaces
    <2>7. entry' = [entry EXCEPT ![s] = u] /\ order' \in Seq(StreamIds)
      BY <2>2 DEF u, ApplyUpdate, TxInv, TypeOK
    <2>8. QED
      BY <2>1, <2>6, <2>7, SameViewStep, ReplaceStep
  <1>3. ASSUME NEW s \in StreamIds, WriteShut(s) PROVE DataInv'
    <2> DEFINE e == entry[s]
               u == DiscardTx(e)
    <2>1. /\ HasTx(e) /\ UNCHANGED <<tr, tNext>> /\ UNCHANGED <<accepted, order>>
          /\ entry' = [entry EXCEPT ![s] = u]
          /\ dropped' = [dropped EXCEPT ![s] = dropped[s] + Remaining(e)]
      BY <1>3 DEF WriteShut, Target, Picks, tVars, tIds
    <2>2. e \in Entry /\ e.tx_offset <= e.tx_len /\ e.present /\ tr[s] \in Transport
      BY <2>1, OpenEntryFacts DEF HasTx
    <2>3. Remaining(e) \in Nat
      BY <2>2, FieldTypes DEF Remaining
    <2>4. u \in Entry /\ u.present /\ u.tx_len = 0 /\ u.tx_offset = 0
      BY <2>2, DiscardTxFacts
    <2> HIDE DEF u
    <2>5. Remaining(u) = 0
      BY <2>4 DEF Remaining
    <2>6. accepted[s] = tr[s].sent + Remaining(e) + dropped[s]
      BY DEF TxInv, Conservation
    <2>7. tr[s].sent \in Nat /\ dropped[s] \in Nat /\ dropped \in [StreamIds -> Nat]
      BY <2>2 DEF Transport, TxInv, TypeOK
    <2> HIDE DEF e
    <2>8. dropped[s] + Remaining(e) \in Nat
      BY <2>3, <2>7
    <2>9. /\ dropped' \in [StreamIds -> Nat] /\ dropped'[s] = dropped[s] + Remaining(e)
          /\ \A r \in StreamIds \ {s} : dropped'[r] = dropped[r]
      BY <2>1, <2>7, <2>8
    <2>10. accepted'[s] = tr'[s].sent + Remaining(u) + dropped'[s]
      BY <2>1, <2>3, <2>5, <2>6, <2>7, <2>9
    <2>11. order' \in Seq(StreamIds) /\ accepted' \in [StreamIds -> Nat]
      BY <2>1 DEF TxInv, TypeOK
    <2>12. KeepsSent
      BY <2>1, SameViewStep
    <2>13. QED
      <3>1. \A r \in StreamIds \ {s} : /\ tr'[r].sent = tr[r].sent
                                       /\ accepted'[r] = accepted[r]
                                       /\ dropped'[r] = dropped[r]
        BY <2>1, <2>9
      <3>2. ViewInv'
        BY <2>12 DEF KeepsSent
      <3>3. u.tx_offset <= u.tx_len
        BY <2>4
      <3>4. QED
        BY <2>1, <2>4, <2>9, <2>10, <2>11, <3>1, <3>2, <3>3, PutStep
  <1>4. ASSUME NEW s \in StreamIds, OpenPending(s) PROVE DataInv'
    <2>1. /\ tNext[Bidi(s)] \in StreamIds /\ TransportOpen(Bidi(s)) /\ UNCHANGED order
          /\ UNCHANGED history /\ HasTx(entry[s])
          /\ \/ entry' = [entry EXCEPT ![s] = [entry[s] EXCEPT !.pending_open = FALSE]]
             \/ UNCHANGED entry
      BY <1>4 DEF OpenPending, Picks
    <2>2. Bidi(s) \in BOOLEAN
      BY DEF Bidi
    <2>3. KeepsSent
      BY <2>1, <2>2, OpenStep
    <2>4. order' \in Seq(StreamIds)
      BY <2>1 DEF TxInv, TypeOK
    <2>5. CASE entry' = [entry EXCEPT ![s] = [entry[s] EXCEPT !.pending_open = FALSE]]
      <3>1. entry[s] \in Entry /\ Replaces(s, entry[s])
        BY <2>1, OpenEntryFacts DEF HasTx
      <3>2. SameTx(entry[s], [entry[s] EXCEPT !.pending_open = FALSE])
        BY <3>1, SameTxOperators
      <3>3. Replaces(s, [entry[s] EXCEPT !.pending_open = FALSE])
        BY <3>1, <3>2, SameTxReplaces
      <3>4. QED
        BY <2>1, <2>3, <2>4, <2>5, <3>3, ReplaceStep
    <2>6. CASE UNCHANGED entry
      BY <2>1, <2>3, <2>6, SameEntriesStep
    <2>7. QED
      BY <2>1, <2>5, <2>6
  <1>5. ASSUME WriteConnOnly \/ WriteClosing \/ WriteFatal PROVE DataInv'
    <2>1. UNCHANGED <<entry, order, history>> /\ UNCHANGED <<tr, tNext>>
      BY <1>5 DEF WriteConnOnly, WriteClosing, WriteFatal, table, tVars, tIds
    <2>2. QED
      BY <2>1, SameViewStep, SameEntriesStep
  <1>6. QED
    BY <1>1, <1>2, <1>3, <1>4, <1>5 DEF DrainStep

(* The control variables keep their types.                                 *)
LEMMA ControlStep == TxInv /\ Next => ControlOK'
  <1> SUFFICES ASSUME TxInv, Next PROVE ControlOK'
    OBVIOUS
  <1>1. /\ ControlOK /\ tNext \in [BOOLEAN -> Nat]
    BY DEF TxInv, TypeOK, ControlOK
  <1>2. \A bidi \in BOOLEAN : EnsuredNextId(bidi) \in Nat
    BY <1>1, MinIdType DEF ControlOK, EnsuredNextId
  <1>3. ASSUME NEW bidi \in BOOLEAN, OpenNow(bidi) \/ OpenBlocked(bidi)
        PROVE  ControlOK'
    <2>1. NextIdAfter(bidi, tNext[bidi]) \in Nat /\ EnsuredNextId(bidi) + 4 \in Nat
      BY <1>1, <1>2 DEF NextIdAfter
    <2>2. nextId' \in [BOOLEAN -> Nat]
      BY <1>1, <1>3, <2>1 DEF OpenNow, OpenBlocked, ControlOK
    <2>3. QED
      BY <1>1, <1>3, <2>2
         DEF OpenNow, OpenBlocked, ControlOK, flags, loopVars, tVars, tIds, packet
  <1>4. ASSUME NEW s \in StreamIds,
               \/ \E n \in WriteSizes : Write(s, n)
               \/ \E n \in WriteSizes \cup {0} : End(s, n)
               \/ \E n \in 1..MaxRx : Read(s, n)
        PROVE  ControlOK'
    BY <1>1, <1>4 DEF Write, End, Read, ControlOK, flags, loopVars, tVars, tIds, packet
  <1>5. ASSUME NEW s \in StreamIds, Reset(s) PROVE ControlOK'
    <2>1. ctl' \in BOOLEAN
      BY <1>5 DEF Reset
    <2>2. QED
      BY <1>1, <1>5, <2>1 DEF Reset, ControlOK, flags, loopVars, tIds
  <1>6. ASSUME Close \/ DrainClose \/ DrainBegin \/ PeerClose \/ WindowOpens
        PROVE  ControlOK'
    BY <1>1, <1>6, ConstantsAssumption
       DEF Close, DrainClose, DrainBegin, PeerClose, WindowOpens, ControlOK, flags,
           loopVars, tVars, tIds, packet
  <1>7. ASSUME NEW s \in StreamIds,
               StreamOpenCb(s) \/ StreamCloseCb(s) \/ AckedStreamDataCb(s)
        PROVE  ControlOK'
    <2>1. UNCHANGED <<nextId, flags, loopVars, tIds, tConn, ppe, ctl>>
      BY <1>7 DEF StreamOpenCb, StreamCloseCb, AckedStreamDataCb, packet
    <2>2. cwnd' = cwnd \/ cwnd' = MaxCwnd
      BY <1>7 DEF StreamOpenCb, StreamCloseCb, AckedStreamDataCb, packet
    <2>3. cwnd' \in Nat
      BY <1>1, <2>2, ConstantsAssumption DEF ControlOK
    <2>4. QED
      BY <1>1, <2>1, <2>3 DEF ControlOK, flags, loopVars, tIds
  <1>8. ASSUME NEW s \in StreamIds,
               \/ \E n \in 0..MaxRx, fin \in BOOLEAN : RecvStreamDataCb(s, n, fin)
               \/ StreamResetCb(s) \/ StopSending(s) \/ GrantCredit(s)
        PROVE  ControlOK'
    <2>1. ctl' = TRUE /\ UNCHANGED <<nextId, flags, loopVars, tIds, tConn, cwnd, ppe>>
      BY <1>8 DEF RecvStreamDataCb, StreamResetCb, StopSending, GrantCredit
    <2>2. QED
      BY <1>1, <2>1 DEF ControlOK, flags, loopVars, tIds
  <1>9. ASSUME NEW bidi \in BOOLEAN, RaiseLimit(bidi) PROVE ControlOK'
    <2>1. tLimit' \in [BOOLEAN -> Nat]
      BY <1>1, <1>9 DEF RaiseLimit, ControlOK
    <2>2. QED
      BY <1>1, <1>9, <2>1 DEF RaiseLimit, ControlOK, flags, loopVars, packet
  <1>10. ASSUME DrainStep PROVE ControlOK'
    <2> DEFINE Loop == /\ pc' \in {"idle", "drain"} /\ ndgram' \in Nat
                       /\ result' \in {"returned", "threw", "mismatch"}
                       /\ connClosed' \in BOOLEAN
               Pkt == cwnd' \in Nat /\ ppe' \in BOOLEAN /\ ctl' \in BOOLEAN
    <2>1. Break => Loop
      BY <1>1 DEF Break, ControlOK
    <2>2. Continue => Loop
      BY <1>1 DEF Continue, ControlOK
    <2>3. Throw("threw") \/ Throw("mismatch") => Loop
      BY <1>1 DEF Throw, ControlOK
    <2>4. Emit => Loop /\ Pkt
      <3>1. ndgram + 1 \in Nat /\ (IF cwnd > 0 THEN cwnd - 1 ELSE 0) \in Nat
        BY <1>1 DEF ControlOK
      <3>2. Emit => Pkt
        <4>1. Emit => cwnd' \in Nat
          BY <3>1 DEF Emit
        <4>2. Emit => ppe' = FALSE /\ ctl' = FALSE
          BY DEF Emit
        <4>3. QED
          BY <4>1, <4>2
      <3>3. ndgram' = ndgram + 1 /\ UNCHANGED <<pc, result, connClosed>> => Loop
        BY <1>1, <3>1 DEF ControlOK
      <3> HIDE DEF Loop, Pkt
      <3>4. QED
        BY <2>1, <3>2, <3>3 DEF Emit
    <2>5. UNCHANGED packet => Pkt
      BY <1>1 DEF packet, ControlOK
    <2>6. ppe' = TRUE /\ UNCHANGED <<cwnd, ctl>> => Pkt
      BY <1>1 DEF ControlOK
    <2> HIDE DEF Loop, Pkt
    <2> DEFINE Rest == UNCHANGED <<nextId, closing, tLimit, tConn>>
               Forced == forceConnOnly' \in BOOLEAN
    <2>7. ASSUME NEW s \in StreamIds,
                 \/ \E n \in 0..MaxBytes, more \in BOOLEAN : WriteFrame(s, n, more)
                 \/ WriteOther(s)
                 \/ WriteNothing(s)
          PROVE  Loop /\ Pkt /\ Rest /\ Forced
      <3>1. Loop /\ Pkt
        BY <2>1, <2>2, <2>4, <2>5, <2>6, <2>7
           DEF WriteFrame, WriteOther, WriteNothing, tVars
      <3>2. Rest /\ Forced
        BY <1>1, <2>7 DEF WriteFrame, WriteOther, WriteNothing, tVars, tIds, ControlOK
      <3>3. QED
        BY <3>1, <3>2
    <2>8. ASSUME NEW s \in StreamIds,
                 WriteDataBlocked(s) \/ WriteShut(s) \/ OpenPending(s)
          PROVE  Loop /\ Pkt /\ Rest /\ Forced
      <3>1. Loop /\ Pkt
        BY <2>2, <2>3, <2>5, <2>8
           DEF WriteDataBlocked, WriteShut, OpenPending, RetryConnOnly, tVars
      <3>2. Rest /\ Forced
        BY <1>1, <2>8
           DEF WriteDataBlocked, WriteShut, OpenPending, RetryConnOnly, tVars, tIds, ControlOK
      <3>3. QED
        BY <3>1, <3>2
    <2>9. ASSUME WriteConnOnly \/ WriteClosing \/ WriteFatal
          PROVE  Loop /\ Pkt /\ Rest /\ Forced
      <3>1. Loop /\ Pkt
        BY <2>1, <2>3, <2>4, <2>5, <2>9 DEF WriteConnOnly, WriteClosing, WriteFatal, tVars
      <3>2. Rest /\ Forced
        BY <2>9 DEF WriteConnOnly, WriteClosing, WriteFatal, tVars, tIds
      <3>3. QED
        BY <3>1, <3>2
    <2> HIDE DEF Rest, Forced
    <2>10. Loop /\ Pkt /\ Rest /\ Forced
      BY <1>10, <2>7, <2>8, <2>9 DEF DrainStep
    <2>11. QED
      BY <1>1, <2>10 DEF Loop, Pkt, Rest, Forced, ControlOK
  <1>11. QED
    BY <1>3, <1>4, <1>5, <1>6, <1>7, <1>8, <1>9, <1>10 DEF Next, AppCall, Packet

(* TxInv is an invariant of the stream table: it holds in the first state  *)
(* and every call, callback and loop iteration preserves it.               *)
THEOREM TxInvariant == Spec => []TxInv
  <1>1. Init => TxInv
    BY InitTxInv
  <1>2. TxInv /\ Next => TxInv'
    <2> SUFFICES ASSUME TxInv, Next PROVE TxInv'
      OBVIOUS
    <2>1. DataInv'
      BY AppCallData, PacketData, DrainStepData DEF Next
    <2>2. ControlOK'
      BY ControlStep
    <2>3. QED
      BY <2>1, <2>2 DEF TxInv, TypeOK, ControlOK, DataInv, ViewInv
  <1>3. TxInv /\ UNCHANGED vars => TxInv'
    BY DEF vars, table, flags, loopVars, tVars, tIds, packet, history, TxInv, TypeOK,
       BufferInv, AbsentInv, FreshInv, UnopenedInv, Conservation
  <1>4. QED
    BY <1>1, <1>2, <1>3, PTL DEF Spec

(* The fields of every entry keep their types: no length or offset that    *)
(* buffer_append, buffer_read or update_tx_entry computes underflows.      *)
THEOREM StreamsTypeCorrect == Spec => []TypeOK
  <1>1. TxInv => TypeOK
    BY DEF TxInv
  <1>2. QED
    BY <1>1, TxInvariant, PTL

(* No byte that write() or end() took is lost or sent twice by the         *)
(* transmit loop, for any number of streams and any sizes.                 *)
THEOREM NoByteLost == Spec => []Conservation
  <1>1. TxInv => Conservation
    BY DEF TxInv
  <1>2. QED
    BY <1>1, TxInvariant, PTL
============================================================================
