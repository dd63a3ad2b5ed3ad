------------------------- MODULE StreamFlagsProofs -------------------------
(***************************************************************************)
(* Proofs about the flags of the stream table: what the transmit loop      *)
(* hands to ngtcp2, what isReadable() and isWritable() answer, and which   *)
(* ids openStream() reserves.  FlagInv is inductive together with TxInv,   *)
(* and so is FinInv, with which the table implements SendSide.             *)
(***************************************************************************)
EXTENDS StreamsProofs

(***************************************************************************)
(* One stream: its entry e, ngtcp2's view t, the bytes d dropped           *)
(***************************************************************************)

(* The parts of OpenedInv and ReadableHonest for one stream                *)
StreamOK(s, e, t, d) ==
  /\ e.present /\ ~e.pending_open /\ ~e.closed => t.wr # "none"
  /\ t.wr = "gone" => e.closed
  /\ Local(s) /\ (t.wr \in {"fin", "shut", "gone"} \/ t.sent > 0) => e.present
  /\ t.wr \in {"none", "open"} => d = 0
  /\ e.present /\ ~e.reset => (e.readable <=> e.rx_len > 0)

(* The part of NoLostWakeup for one entry                                  *)
Wakes(s, e) ==
  /\ e.present /\ ~RemoteUni(s) /\ ~e.closed /\ ~e.fin_pending /\ ~e.fin_sent
  /\ e.tx_len = 0
  => e.writable

WakesIf(s, e) == 0 \notin WriteSizes => Wakes(s, e)

AllOK == \A s \in StreamIds : /\ StreamOK(s, entry[s], tr[s], dropped[s])
                              /\ WakesIf(s, entry[s])

(* AllOK is the part of FlagInv that is about the streams.                 *)
LEMMA AllOKIs ==
  AllOK <=> /\ OpenedInv /\ ReadableHonest
            /\ 0 \notin WriteSizes => NoLostWakeup
  BY DEF AllOK, StreamOK, OpenedInv, ReadableHonest, WakesIf, Wakes, NoLostWakeup

(* u agrees with e on what StreamOK looks at.                              *)
SameFlags(e, u) ==
  /\ u \in Entry /\ u.present = e.present /\ u.pending_open = e.pending_open
  /\ u.closed = e.closed /\ u.reset = e.reset
  /\ u.readable = e.readable /\ u.rx_len = e.rx_len

(* v agrees with t on what StreamOK looks at.                              *)
SameSide(t, v) == v.wr = t.wr /\ v.sent = t.sent

(* StreamOK looks at nothing else.                                         *)
LEMMA SameOK ==
  ASSUME NEW s, NEW e, NEW t, NEW d, NEW u, NEW v,
         StreamOK(s, e, t, d), SameFlags(e, u), SameSide(t, v)
  PROVE  StreamOK(s, u, v, d)
  BY DEF StreamOK, SameFlags, SameSide

(* SameFlags is transitive.                                                *)
LEMMA SameFlagsTrans ==
  ASSUME NEW e, NEW u, NEW w, SameFlags(e, u), SameFlags(u, w)
  PROVE  SameFlags(e, w)
  BY DEF SameFlags

(* The transmit side's operators leave the other flags alone.              *)
LEMMA SameFlagsOperators ==
  ASSUME NEW e \in Entry, NEW n \in Nat, NEW b \in BOOLEAN
  PROVE  /\ SameFlags(e, e)
         /\ SameFlags(e, Appended(e, n))
         /\ SameFlags(e, Ended(e, n))
         /\ SameFlags(e, SetWritable(e, b))
         /\ SameFlags(e, DiscardTx(e))
         /\ SameFlags(e, FinMarked(e, b))
         /\ SameFlags(e, Released(e))
         /\ SameFlags(e, Woken(e))
  <1>1. e.tx_len + n \in Nat
    BY FieldTypes
  <1>2. SameFlags(e, e)
    BY DEF SameFlags
  <1>3. SameFlags(e, Appended(e, n)) /\ SameFlags(e, Ended(e, n))
    BY <1>1 DEF SameFlags, Entry, Appended, Ended
  <1>4. SameFlags(e, SetWritable(e, b)) /\ SameFlags(e, DiscardTx(e))
    BY DEF SameFlags, Entry, SetWritable, DiscardTx
  <1>5. SameFlags(e, FinMarked(e, b))
    BY DEF SameFlags, Entry, FinMarked
  <1>6. SameFlags(e, Released(e)) /\ SameFlags(e, Woken(e))
    BY DEF SameFlags, Entry, Released, Woken
  <1>7. QED
    BY <1>2, <1>3, <1>4, <1>5, <1>6

(* update_tx_entry leaves the flags of the receiving side alone, and wakes *)
(* the writer of a buffer it leaves empty.                                 *)
LEMMA UpdateTxFlags ==
  ASSUME NEW e \in Entry, NEW w \in Int, NEW f \in BOOLEAN, NEW p \in BOOLEAN,
         e.tx_offset <= e.tx_len, w <= Remaining(e), NEW s
  PROVE  /\ SameFlags(e, UpdateTx(e, w, f, p))
         /\ Wakes(s, UpdateTx(e, w, f, p))
  <1> DEFINE a == Taken(e, w)
             b == FinMarked(a, f /\ p)
             c == Released(b)
             d == Woken(c)
  <1>1. a \in Entry /\ a.tx_len = e.tx_len /\ a.tx_offset <= a.tx_len
    BY TakenFacts
  <1>2. SameFlags(e, a)
    <2> DEFINE off == e.tx_offset + IF w > 0 THEN w ELSE 0
               cut == IF off > e.tx_len THEN e.tx_len ELSE off
    <2>1. a = [e EXCEPT !.tx_offset = cut]
      BY DEF Taken
    <2> HIDE DEF a, cut
    <2>2. QED
      BY <1>1, <2>1 DEF SameFlags, Entry
  <1> HIDE DEF a
  <1>3. SameFlags(a, b) /\ SameTx(a, b)
    BY <1>1, SameFlagsOperators, SameTxOperators
  <1> HIDE DEF b
  <1>4. b \in Entry /\ b.tx_offset <= b.tx_len
    BY <1>1, <1>3 DEF SameTx
  <1>5. /\ SameFlags(b, c) /\ c \in Entry /\ c.tx_offset <= c.tx_len
    BY <1>4, SameFlagsOperators, ReleasedFacts
  <1> HIDE DEF c
  <1>6. SameFlags(c, d)
    BY <1>5, SameFlagsOperators
  <1>7. Wakes(s, d)
    <2>1. c.tx_len = 0 => c.tx_offset = 0
      BY <1>5, FieldTypes
    <2>2. QED
      BY <1>5, <2>1 DEF Wakes, Woken, Entry
  <1>8. UpdateTx(e, w, f, p) = d
    BY DEF UpdateTx, a, b, c, d
  <1> HIDE DEF d
  <1>9. SameFlags(e, d)
    BY <1>2, <1>3, <1>5, <1>6, SameFlagsTrans
  <1>10. QED
    BY <1>7, <1>8, <1>9

(***************************************************************************)
(* The table after a step that touches one stream                          *)
(***************************************************************************)

(* ngtcp2's view may go from t to v, other than by forgetting the stream.  *)
Follows(t, v) == /\ v.wr # "none"
                 /\ v.wr = "gone" => t.wr = "gone"
                 /\ v.wr = "open" => t.wr \in {"none", "open"}

(* Only the entry, the view and the count of s change.                     *)
OnlyStream(s, u) ==
  /\ entry' = [entry EXCEPT ![s] = u]
  /\ \A r \in StreamIds \ {s} : tr'[r] = tr[r] /\ dropped'[r] = dropped[r]

(* One entry is replaced.                                                  *)
LEMMA ChangeStep ==
  ASSUME TxInv, AllOK, NEW s \in StreamIds, NEW u, OnlyStream(s, u),
         StreamOK(s, u, tr'[s], dropped'[s]), WakesIf(s, u)
  PROVE  AllOK'
  <1>1. /\ entry'[s] = u
        /\ \A r \in StreamIds \ {s} : entry'[r] = entry[r]
    BY DEF TxInv, TypeOK, OnlyStream
  <1> SUFFICES ASSUME NEW r \in StreamIds
               PROVE  /\ StreamOK(r, entry'[r], tr'[r], dropped'[r])
                      /\ WakesIf(r, entry'[r])
    BY DEF AllOK, StreamOK, WakesIf, Wakes, Local, RemoteUni, Bidi
  <1>2. CASE r = s
    BY <1>1, <1>2
  <1>3. CASE r # s
    BY <1>1, <1>3 DEF AllOK, OnlyStream
  <1>4. QED
    BY <1>2, <1>3

(* No entry is touched.                                                    *)
LEMMA ViewChangeStep ==
  ASSUME TxInv, AllOK, NEW s \in StreamIds, UNCHANGED <<entry, dropped>>,
         \A r \in StreamIds \ {s} : tr'[r] = tr[r],
         StreamOK(s, entry[s], tr'[s], dropped[s])
  PROVE  AllOK'
  <1>1. OnlyStream(s, entry[s])
    BY DEF OnlyStream, TxInv, TypeOK
  <1>2. WakesIf(s, entry[s])
    BY DEF AllOK
  <1>3. dropped'[s] = dropped[s]
    OBVIOUS
  <1>4. QED
    BY <1>1, <1>2, <1>3, ChangeStep

(* Nothing the flags are about changes.                                    *)
LEMMA NoChangeStep ==
  ASSUME AllOK, UNCHANGED <<entry, tr, dropped>>
  PROVE  AllOK'
  BY DEF AllOK, StreamOK, WakesIf, Wakes, Local, RemoteUni, Bidi

(* The entry the table gives for a stream ngtcp2 opens or has open.        *)
LEMMA OpenEntryOK ==
  ASSUME TxInv, AllOK, NEW s \in StreamIds
  PROVE  /\ OpenEntry(s) \in Entry /\ OpenEntry(s).present
         /\ WakesIf(s, OpenEntry(s))
         /\ \A v : Follows(tr[s], v) => StreamOK(s, OpenEntry(s), v, dropped[s])
         /\ ~OpenEntry(s).reset
              => (OpenEntry(s).readable <=> OpenEntry(s).rx_len > 0)
         /\ tr[s].wr = "gone" => OpenEntry(s).closed
  <1>1. /\ StreamOK(s, entry[s], tr[s], dropped[s]) /\ WakesIf(s, entry[s])
        /\ entry[s] \in Entry
    BY DEF AllOK, TxInv, TypeOK
  <1>2. CASE entry[s].present
    BY <1>1, <1>2 DEF OpenEntry, StreamOK, Follows
  <1>3. CASE ~entry[s].present
    <2>1. ~entry[s].closed
      BY <1>3 DEF TxInv, AbsentInv, NoEntry
    <2>2. OpenEntry(s) = EntryAlloc
      BY <1>3 DEF OpenEntry
    <2>3. /\ EntryAlloc.writable /\ ~EntryAlloc.reset /\ ~EntryAlloc.readable
          /\ EntryAlloc.rx_len = 0
      BY DEF EntryAlloc, NoEntry
    <2>4. tr[s].wr # "gone"
      BY <1>1, <2>1 DEF StreamOK
    <2>5. QED
      BY <1>1, <2>2, <2>3, <2>4, EntryAllocFacts DEF StreamOK, Follows, WakesIf, Wakes
  <1>4. QED
    BY <1>2, <1>3

(* The same through PutEntry, for a stream whose count stays.              *)
LEMMA PutChangeStep ==
  ASSUME TxInv, AllOK, NEW s \in StreamIds, NEW u, PutEntry(s, u), UNCHANGED dropped,
         \A r \in StreamIds \ {s} : tr'[r] = tr[r],
         StreamOK(s, u, tr'[s], dropped[s]), WakesIf(s, u)
  PROVE  AllOK'
  <1>1. OnlyStream(s, u)
    BY DEF OnlyStream, PutEntry
  <1>2. dropped'[s] = dropped[s]
    OBVIOUS
  <1>3. QED
    BY <1>1, <1>2, ChangeStep

(* openStream() leaves a stream that is writable, and reserved exactly     *)
(* when ngtcp2 has not opened it.                                          *)
LEMMA LocalOpenedOK ==
  ASSUME TxInv, AllOK, NEW s \in StreamIds, NEW b \in BOOLEAN, NEW v,
         (b /\ v = tr[s]) \/ Follows(tr[s], v)
  PROVE  /\ StreamOK(s, LocalOpened(OpenEntry(s), b), v, dropped[s])
         /\ WakesIf(s, LocalOpened(OpenEntry(s), b))
  <1> DEFINE e == OpenEntry(s)
             u == LocalOpened(e, b)
  <1> SUFFICES StreamOK(s, u, v, dropped[s]) /\ WakesIf(s, u)
    OBVIOUS
  <1>1. /\ e \in Entry /\ e.present
        /\ Follows(tr[s], v) => StreamOK(s, e, v, dropped[s])
        /\ ~e.reset => (e.readable <=> e.rx_len > 0)
        /\ tr[s].wr = "gone" => e.closed
    BY OpenEntryOK
  <1>2. StreamOK(s, entry[s], tr[s], dropped[s])
    BY DEF AllOK
  <1> HIDE DEF e
  <1>3. /\ u.present /\ (u.pending_open <=> b) /\ u.writable /\ u.closed = e.closed
        /\ u.reset = e.reset /\ u.readable = e.readable /\ u.rx_len = e.rx_len
    BY <1>1 DEF Entry, LocalOpened
  <1> HIDE DEF u
  <1>4. CASE b /\ v = tr[s]
    BY <1>1, <1>2, <1>3, <1>4 DEF StreamOK, WakesIf, Wakes
  <1>5. CASE Follows(tr[s], v)
    BY <1>1, <1>3, <1>5 DEF StreamOK, WakesIf, Wakes, Follows
  <1>6. QED
    BY <1>4, <1>5

(* The view ngtcp2 has of a stream it opens.                               *)
LEMMA OpenedFollows ==
  ASSUME NEW s, NEW t, t.wr = "none"
  PROVE  Follows(t, Opened(s))
  BY DEF Follows, Opened, NoTransport

(* The calls of the application keep the flags of every stream right.      *)
LEMMA AppCallOK == TxInv /\ AllOK /\ AppCall => AllOK'
  <1> SUFFICES ASSUME TxInv, AllOK, AppCall PROVE AllOK'
    OBVIOUS
  <1>1. ASSUME NEW bidi \in BOOLEAN, OpenNow(bidi) PROVE AllOK'
    <2> DEFINE id == tNext[bidi]
               u == LocalOpened(OpenEntry(id), FALSE)
    <2>1. id \in StreamIds /\ PutEntry(id, u) /\ UNCHANGED dropped
          /\ tr' = [tr EXCEPT ![id] = Opened(id)]
      BY <1>1 DEF OpenNow, FinishOpen, TransportOpen, history
    <2>2. tr[id].wr = "none"
      <3>1. id % 4 = MinId(bidi) /\ id >= tNext[bidi]
        <4>1. id \in Nat
          BY <2>1, ConstantsAssumption
        <4>2. QED
          BY <4>1 DEF TxInv, FreshInv
      <3>2. QED
        BY <2>1, <3>1, NoTransportFacts DEF TxInv, FreshInv
    <2> HIDE DEF id
    <2>3. Follows(tr[id], Opened(id))
      BY <2>2, OpenedFollows
    <2>4. tr'[id] = Opened(id) /\ \A r \in StreamIds \ {id} : tr'[r] = tr[r]
      BY <2>1 DEF TxInv, TypeOK
    <2>5. StreamOK(id, u, tr'[id], dropped[id]) /\ WakesIf(id, u)
      BY <2>1, <2>3, <2>4, LocalOpenedOK
    <2>6. QED
      BY <2>1, <2>4, <2>5, PutChangeStep
  <1>2. ASSUME NEW bidi \in BOOLEAN, OpenBlocked(bidi) PROVE AllOK'
    <2> DEFINE id == EnsuredNextId(bidi)
               u == LocalOpened(OpenEntry(id), TRUE)
    <2>1. id \in StreamIds /\ PutEntry(id, u) /\ UNCHANGED <<dropped, tr>>
      BY <1>2 DEF OpenBlocked, FinishOpen, tVars, history
    <2> HIDE DEF id
    <2>2. StreamOK(id, u, tr[id], dropped[id]) /\ WakesIf(id, u)
      BY <2>1, LocalOpenedOK
    <2>3. QED
      BY <2>1, <2>2, PutChangeStep
  <1>3. ASSUME NEW s \in StreamIds, NEW n \in WriteSizes, Write(s, n) PROVE AllOK'
    <2> DEFINE u == Appended(entry[s], n)
    <2>1. n \in Nat /\ entry[s] \in Entry /\ PutEntry(s, u) /\ UNCHANGED <<dropped, tr>>
      BY <1>3, ConstantsAssumption, OpenEntryFacts DEF Write, tVars
    <2>2. StreamOK(s, u, tr[s], dropped[s])
      BY <2>1, SameFlagsOperators, SameOK DEF AllOK, SameSide
    <2>3. WakesIf(s, u)
      <3>1. 0 \notin WriteSizes => n > 0
        BY <2>1
      <3>2. u.tx_len = entry[s].tx_len + n /\ entry[s].tx_len \in Nat
        BY <2>1, AppendFacts, FieldTypes
      <3> HIDE DEF u
      <3>3. 0 \notin WriteSizes => u.tx_len # 0
        BY <2>1, <3>1, <3>2
      <3>4. QED
        BY <3>3 DEF WakesIf, Wakes
    <2>4. QED
      BY <2>1, <2>2, <2>3, PutChangeStep
  <1>4. ASSUME NEW s \in StreamIds, NEW n \in WriteSizes \cup {0}, End(s, n) PROVE AllOK'
    <2> DEFINE u == Ended(entry[s], n)
    <2>1. n \in Nat /\ entry[s] \in Entry /\ PutEntry(s, u) /\ UNCHANGED <<dropped, tr>>
      BY <1>4, ConstantsAssumption, OpenEntryFacts DEF End, tVars
    <2>2. StreamOK(s, u, tr[s], dropped[s])
      BY <2>1, SameFlagsOperators, SameOK DEF AllOK, SameSide
    <2>3. WakesIf(s, u)
      BY <2>1 DEF WakesIf, Wakes, Ended, Entry
    <2>4. QED
      BY <2>1, <2>2, <2>3, PutChangeStep
  <1>5. ASSUME NEW s \in StreamIds, NEW n \in 1..MaxRx, Read(s, n) PROVE AllOK'
    <2> DEFINE e == entry[s]
               u == Consumed(e, n)
    <2>1. n \in 1..e.rx_len /\ PutEntry(s, u) /\ UNCHANGED <<dropped, tr>>
      BY <1>5 DEF Read, tVars, history
    <2>2. /\ e \in Entry /\ e.rx_len \in Nat
          /\ StreamOK(s, e, tr[s], dropped[s]) /\ WakesIf(s, e)
      BY OpenEntryFacts, FieldTypes DEF AllOK
    <2>3. e.present
      <3>1. ~e.present => e = NoEntry
        BY DEF TxInv, AbsentInv
      <3>2. NoEntry.rx_len = 0
        BY DEF NoEntry
      <3> HIDE DEF e
      <3>3. QED
        BY <2>1, <3>1, <3>2
    <2> HIDE DEF e
    <2>4. /\ u.present = e.present /\ u.pending_open = e.pending_open
          /\ u.closed = e.closed /\ u.reset = e.reset /\ u.fin_pending = e.fin_pending
          /\ u.fin_sent = e.fin_sent /\ u.tx_len = e.tx_len /\ u.writable = e.writable
      BY <2>2 DEF Consumed, Entry
    <2>5. u.rx_len = e.rx_len - n /\ (u.readable <=> e.rx_len > n)
      BY <2>2 DEF Consumed, Entry
    <2> HIDE DEF u
    <2>6. u.readable <=> u.rx_len > 0
      BY <2>1, <2>2, <2>5
    <2>7. StreamOK(s, u, tr[s], dropped[s])
      BY <2>2, <2>3, <2>4, <2>6 DEF StreamOK
    <2>8. WakesIf(s, u)
      BY <2>2, <2>4 DEF WakesIf, Wakes
    <2>9. QED
      BY <2>1, <2>7, <2>8, PutChangeStep
  <1>6. ASSUME NEW s \in StreamIds, Reset(s) PROVE AllOK'
    <2> DEFINE u == LocallyReset(entry[s])
    <2>1. /\ entry[s].present /\ PutEntry(s, u) /\ UNCHANGED dropped
          /\ tr' = IF connClosed THEN tr ELSE [tr EXCEPT ![s] = Shutdown(tr[s])]
      BY <1>6 DEF Reset, history
    <2>2. /\ entry[s] \in Entry /\ tr[s] \in Transport /\ tr \in [StreamIds -> Transport]
          /\ StreamOK(s, entry[s], tr[s], dropped[s])
      BY DEF TxInv, TypeOK, AllOK
    <2>3. /\ tr'[s] = tr[s] \/ tr'[s] = Shutdown(tr[s])
          /\ \A r \in StreamIds \ {s} : tr'[r] = tr[r]
      BY <2>1, <2>2
    <2>4. u.present /\ u.closed /\ u.reset
      BY <2>1, <2>2 DEF LocallyReset, Entry
    <2>5. tr'[s].wr \in {"none", "open"} => tr[s].wr \in {"none", "open"}
      BY <2>2, <2>3 DEF Shutdown, Transport
    <2> HIDE DEF u
    <2>6. StreamOK(s, u, tr'[s], dropped[s]) /\ WakesIf(s, u)
      BY <2>2, <2>4, <2>5 DEF StreamOK, WakesIf, Wakes
    <2>7. QED
      BY <2>1, <2>3, <2>6, PutChangeStep
  <1>7. ASSUME Close \/ DrainClose \/ DrainBegin PROVE AllOK'
    BY <1>7, NoChangeStep DEF Close, DrainClose, DrainBegin, table, tVars, history
  <1>8. QED
    BY <1>1, <1>2, <1>3, <1>4, <1>5, <1>6, <1>7 DEF AppCall

(* The packets recv() hands to ngtcp2 keep the flags of every stream right.*)
LEMMA PacketOK == TxInv /\ AllOK /\ Packet => AllOK'
  <1> SUFFICES ASSUME TxInv, AllOK, Packet PROVE AllOK'
    OBVIOUS
  <1>t. tr \in [StreamIds -> Transport]
    BY DEF TxInv, TypeOK
  <1>1. ASSUME NEW s \in StreamIds, StreamOpenCb(s) PROVE AllOK'
    <2> DEFINE e == OpenEntry(s)
               u == SetWritable(e, Bidi(s))
    <2>1. /\ ~Local(s) /\ tr[s].wr = "none" /\ UNCHANGED dropped
          /\ PutEntry(s, u) /\ tr' = [tr EXCEPT ![s] = Opened(s)]
      BY <1>1 DEF StreamOpenCb, history
    <2>2. tr'[s] = Opened(s) /\ \A r \in StreamIds \ {s} : tr'[r] = tr[r]
      BY <1>t, <2>1
    <2>3. Follows(tr[s], Opened(s))
      BY <2>1, OpenedFollows
    <2>4. e \in Entry /\ StreamOK(s, e, Opened(s), dropped[s])
      BY <2>3, OpenEntryOK
    <2> HIDE DEF e
    <2>5. SameFlags(e, u)
      <3>1. Bidi(s) \in BOOLEAN
        BY DEF Bidi
      <3>2. QED
        BY <2>4, <3>1, SameFlagsOperators
    <2>6. StreamOK(s, u, Opened(s), dropped[s])
      BY <2>4, <2>5, SameOK DEF SameSide
    <2>7. WakesIf(s, u)
      <3>1. ~RemoteUni(s) => Bidi(s)
        BY <2>1 DEF RemoteUni
      <3>2. Bidi(s) => u.writable
        BY <2>4 DEF SetWritable, Entry
      <3>3. QED
        BY <3>1, <3>2 DEF WakesIf, Wakes
    <2>8. QED
      BY <2>1, <2>2, <2>6, <2>7, PutChangeStep
  <1>2. ASSUME NEW s \in StreamIds, NEW n \in 0..MaxRx, NEW fin \in BOOLEAN,
               RecvStreamDataCb(s, n, fin)
        PROVE  AllOK'
    <2> DEFINE e == OpenEntry(s)
               u == Received(e, n, fin)
    <2>1. /\ tr[s].wr \notin {"none", "gone"} /\ UNCHANGED dropped /\ PutEntry(s, u)
          /\ tr' = IF fin THEN [tr EXCEPT ![s] = ReadDone(tr[s])] ELSE tr
      BY <1>2 DEF RecvStreamDataCb, PeerSends, history
    <2>2. /\ tr'[s] = tr[s] \/ tr'[s] = ReadDone(tr[s])
          /\ \A r \in StreamIds \ {s} : tr'[r] = tr[r]
      BY <1>t, <2>1
    <2>3. Follows(tr[s], tr'[s])
      BY <1>t, <2>1, <2>2 DEF Follows, ReadDone, Transport
    <2>4. e \in Entry /\ StreamOK(s, e, tr'[s], dropped[s]) /\ WakesIf(s, e)
      BY <2>3, OpenEntryOK
    <2>5. e.rx_len \in Nat /\ n \in Nat
      BY <2>4, FieldTypes
    <2> HIDE DEF e
    <2>6. /\ u.present = e.present /\ u.pending_open = e.pending_open
          /\ u.closed = e.closed /\ u.reset = e.reset /\ u.fin_pending = e.fin_pending
          /\ u.fin_sent = e.fin_sent /\ u.tx_len = e.tx_len /\ u.writable = e.writable
      BY <2>4 DEF Received, Entry
    <2>7. u.rx_len = e.rx_len + n /\ (u.readable <=> e.readable \/ e.rx_len + n > 0)
      BY <2>4 DEF Received, Entry
    <2> HIDE DEF u
    <2>8. StreamOK(s, u, tr'[s], dropped[s])
      <3>1. (e.readable <=> e.rx_len > 0) => (u.readable <=> u.rx_len > 0)
        BY <2>5, <2>7
      <3>2. QED
        BY <2>4, <2>6, <3>1 DEF StreamOK
    <2>9. WakesIf(s, u)
      BY <2>4, <2>6 DEF WakesIf, Wakes
    <2>10. QED
      BY <2>1, <2>2, <2>8, <2>9, PutChangeStep
  <1>3. ASSUME NEW s \in StreamIds, StreamResetCb(s) PROVE AllOK'
    <2> DEFINE e == OpenEntry(s)
               u == PeerReset(e)
    <2>1. /\ tr[s].wr \notin {"none", "gone"} /\ UNCHANGED dropped /\ PutEntry(s, u)
          /\ tr' = [tr EXCEPT ![s] = ReadDone(tr[s])]
      BY <1>3 DEF StreamResetCb, PeerSends, history
    <2>2. tr'[s] = ReadDone(tr[s]) /\ \A r \in StreamIds \ {s} : tr'[r] = tr[r]
      BY <1>t, <2>1
    <2>3. Follows(tr[s], tr'[s])
      BY <1>t, <2>1, <2>2 DEF Follows, ReadDone, Transport
    <2>4. e \in Entry /\ e.present /\ StreamOK(s, e, tr'[s], dropped[s])
      BY <2>3, OpenEntryOK
    <2> HIDE DEF e
    <2>5. u.present /\ u.closed /\ u.reset
      BY <2>4 DEF PeerReset, Entry
    <2> HIDE DEF u
    <2>6. StreamOK(s, u, tr'[s], dropped[s]) /\ WakesIf(s, u)
      BY <2>4, <2>5 DEF StreamOK, WakesIf, Wakes
    <2>7. QED
      BY <2>1, <2>2, <2>6, PutChangeStep
  <1>4. ASSUME NEW s \in StreamIds, StreamCloseCb(s) PROVE AllOK'
    <2> DEFINE e == OpenEntry(s)
               u == BothClosed(e)
               v == [tr[s] EXCEPT !.wr = "gone"]
    <2>1. /\ tr[s].wr \in {"fin", "shut"} /\ UNCHANGED dropped /\ PutEntry(s, u)
          /\ tr' = [tr EXCEPT ![s] = v]
      BY <1>4 DEF StreamCloseCb, history
    <2>2. tr'[s] = v /\ \A r \in StreamIds \ {s} : tr'[r] = tr[r]
      BY <1>t, <2>1
    <2>3. v.wr = "gone"
      BY <1>t DEF Transport
    <2>4. /\ e \in Entry /\ e.present
          /\ ~e.reset => (e.readable <=> e.rx_len > 0)
      BY OpenEntryOK
    <2> HIDE DEF e, v
    <2>5. /\ u.present /\ u.closed /\ u.reset = e.reset
          /\ u.readable = e.readable /\ u.rx_len = e.rx_len
      BY <2>4 DEF BothClosed, Entry
    <2> HIDE DEF u
    <2>6. StreamOK(s, u, tr'[s], dropped[s]) /\ WakesIf(s, u)
      BY <2>2, <2>3, <2>4, <2>5 DEF StreamOK, WakesIf, Wakes
    <2>7. QED
      BY <2>1, <2>2, <2>6, PutChangeStep
  <1>5. ASSUME NEW s \in StreamIds, AckedStreamDataCb(s) PROVE AllOK'
    <2> DEFINE u == SetWritable(entry[s], TRUE)
    <2>1. UNCHANGED <<dropped, tr>> /\ (PutEntry(s, u) \/ UNCHANGED entry)
      BY <1>5 DEF AckedStreamDataCb, history, table
    <2>2. entry[s] \in Entry
      BY OpenEntryFacts
    <2>3. StreamOK(s, u, tr[s], dropped[s])
      BY <2>2, SameFlagsOperators, SameOK DEF AllOK, SameSide
    <2>4. WakesIf(s, u)
      BY <2>2 DEF SetWritable, WakesIf, Wakes, Entry
    <2> HIDE DEF u
    <2>5. QED
      BY <2>1, <2>3, <2>4, PutChangeStep, NoChangeStep
  <1>6. ASSUME NEW s \in StreamIds, StopSending(s) PROVE AllOK'
    <2> DEFINE v == [tr[s] EXCEPT !.wr = "shut"]
    <2>1. /\ tr[s].wr = "open" /\ PeerKnows(s) /\ UNCHANGED <<entry, dropped>>
          /\ tr' = [tr EXCEPT ![s] = v]
      BY <1>6 DEF StopSending, table, history
    <2>2. tr'[s] = v /\ \A r \in StreamIds \ {s} : tr'[r] = tr[r]
      BY <1>t, <2>1
    <2>3. v.wr = "shut"
      BY <1>t DEF Transport
    <2> HIDE DEF v
    <2>4. Local(s) => tr[s].sent > 0
      BY <2>1 DEF PeerKnows
    <2>5. StreamOK(s, entry[s], tr'[s], dropped[s])
      BY <2>2, <2>3, <2>4 DEF AllOK, StreamOK
    <2>6. QED
      BY <2>1, <2>2, <2>5, ViewChangeStep
  <1>7. ASSUME NEW s \in StreamIds, GrantCredit(s) PROVE AllOK'
    <2> DEFINE v == [tr[s] EXCEPT !.credit = MaxCredit]
    <2>1. UNCHANGED <<entry, dropped>> /\ tr' = [tr EXCEPT ![s] = v]
      BY <1>7 DEF GrantCredit, table, history
    <2>2. tr'[s] = v /\ \A r \in StreamIds \ {s} : tr'[r] = tr[r]
      BY <1>t, <2>1
    <2>3. v.wr = tr[s].wr /\ v.sent = tr[s].sent
      BY <1>t DEF Transport
    <2> HIDE DEF v
    <2>4. StreamOK(s, entry[s], tr'[s], dropped[s])
      BY <2>2, <2>3 DEF AllOK, StreamOK
    <2>5. QED
      BY <2>1, <2>2, <2>4, ViewChangeStep
  <1>8. ASSUME WindowOpens \/ (\E bidi \in BOOLEAN : RaiseLimit(bidi)) \/ PeerClose
        PROVE  AllOK'
    BY <1>8, NoChangeStep DEF WindowOpens, RaiseLimit, PeerClose, table, history
  <1>9. QED
    BY <1>1, <1>2, <1>3, <1>4, <1>5, <1>6, <1>7, <1>8 DEF Packet

(* Every iteration of the transmit loop keeps the flags right.             *)
LEMMA DrainStepOK == TxInv /\ AllOK /\ DrainStep => AllOK'
  <1> SUFFICES ASSUME TxInv, AllOK, DrainStep PROVE AllOK'
    OBVIOUS
  <1>t. tr \in [StreamIds -> Transport]
    BY DEF TxInv, TypeOK
  <1>1. ASSUME NEW s \in StreamIds, NEW n \in 0..MaxBytes, NEW more \in BOOLEAN,
               WriteFrame(s, n, more)
        PROVE  AllOK'
    <2> DEFINE e == entry[s]
               fin == e.fin_pending
               u == UpdateTx(e, n, fin, ~more)
               v == Framed(tr[s], n, fin /\ n = Remaining(e))
    <2>1. /\ HasTx(e) /\ tr[s].wr = "open" /\ n <= Remaining(e) /\ UNCHANGED dropped
          /\ tr' = [tr EXCEPT ![s] = v] /\ entry' = [entry EXCEPT ![s] = u]
      BY <1>1 DEF WriteFrame, Target, Picks, ApplyUpdate, history
    <2>2. /\ e \in Entry /\ e.tx_offset <= e.tx_len /\ fin \in BOOLEAN /\ e.present
          /\ StreamOK(s, e, tr[s], dropped[s])
      BY <2>1, OpenEntryFacts DEF AllOK, HasTx, Entry
    <2>3. tr'[s] = v /\ \A r \in StreamIds \ {s} : tr'[r] = tr[r]
      BY <1>t, <2>1
    <2>4. v.wr \in {"open", "fin"}
      BY <1>t, <2>1 DEF Framed, Transport
    <2>5. SameFlags(e, u) /\ Wakes(s, u)
      <3>1. n \in Int /\ (~more) \in BOOLEAN
        BY ConstantsAssumption
      <3> HIDE DEF e, fin
      <3>2. QED
        BY <2>1, <2>2, <3>1, UpdateTxFlags
    <2> HIDE DEF e, u, v
    <2>6. StreamOK(s, u, tr'[s], dropped[s])
      BY <2>1, <2>2, <2>3, <2>4, <2>5 DEF StreamOK, SameFlags
    <2>7. WakesIf(s, u) /\ dropped'[s] = dropped[s] /\ OnlyStream(s, u)
      BY <2>1, <2>3, <2>5 DEF WakesIf, OnlyStream
    <2>8. QED
      BY <2>6, <2>7, ChangeStep
  <1>2. ASSUME NEW s \in StreamIds, WriteOther(s) \/ WriteNothing(s) \/ WriteDataBlocked(s)
        PROVE  AllOK'
    <2> DEFINE e == entry[s]
    <2>1. UNCHANGED <<tr, dropped>>
          /\ \E p \in BOOLEAN : ApplyUpdate(s, UpdateTx(e, -1, e.fin_pending, p))
      BY <1>2 DEF WriteOther, WriteNothing, WriteDataBlocked, tVars, history
    <2>2. PICK p \in BOOLEAN : ApplyUpdate(s, UpdateTx(e, -1, e.fin_pending, p))
      BY <2>1
    <2> DEFINE u == UpdateTx(e, -1, e.fin_pending, p)
    <2>3. /\ e \in Entry /\ e.tx_offset <= e.tx_len /\ e.fin_pending \in BOOLEAN
          /\ StreamOK(s, e, tr[s], dropped[s])
      BY OpenEntryFacts DEF AllOK, Entry
    <2>4. SameFlags(e, u) /\ Wakes(s, u)
      <3>1. -1 \in Int /\ -1 <= Remaining(e)
        BY <2>3, FieldTypes DEF Remaining
      <3> HIDE DEF e
      <3>2. QED
        BY <2>3, <3>1, UpdateTxFlags
    <2>5. entry' = [entry EXCEPT ![s] = u]
      BY <2>2 DEF ApplyUpdate
    <2> HIDE DEF e, u
    <2>6. StreamOK(s, u, tr'[s], dropped'[s])
      BY <2>1, <2>3, <2>4, SameOK DEF SameSide
    <2>7. WakesIf(s, u) /\ OnlyStream(s, u)
      BY <2>1, <2>4, <2>5 DEF WakesIf, OnlyStream
    <2>8. QED
      BY <2>6, <2>7, ChangeStep
  <1>3. ASSUME NEW s \in StreamIds, WriteShut(s) PROVE AllOK'
    <2> DEFINE u == DiscardTx(entry[s])
               d == dropped[s] + Remaining(entry[s])
    <2>1. /\ tr[s].wr \in {"fin", "shut"} /\ UNCHANGED tr
          /\ entry' = [entry EXCEPT ![s] = u] /\ dropped' = [dropped EXCEPT ![s] = d]
      BY <1>3 DEF WriteShut, Shut, tVars
    <2>2. entry[s] \in Entry /\ StreamOK(s, entry[s], tr[s], dropped[s])
          /\ dropped \in [StreamIds -> Nat]
      BY DEF AllOK, TxInv, TypeOK
    <2>3. SameFlags(entry[s], u)
      BY <2>2, SameFlagsOperators
    <2>4. u.fin_sent
      BY <2>2 DEF DiscardTx, Entry
    <2> HIDE DEF u, d
    <2>5. StreamOK(s, u, tr'[s], dropped'[s])
      BY <2>1, <2>2, <2>3 DEF StreamOK, SameFlags
    <2>6. WakesIf(s, u) /\ OnlyStream(s, u)
      BY <2>1, <2>2, <2>4 DEF WakesIf, Wakes, OnlyStream
    <2>7. QED
      BY <2>5, <2>6, ChangeStep
  <1>4. ASSUME NEW s \in StreamIds, OpenPending(s) PROVE AllOK'
    <2> DEFINE bidi == Bidi(s)
               id == tNext[bidi]
               u == [entry[s] EXCEPT !.pending_open = FALSE]
    <2>1. /\ id \in StreamIds /\ UNCHANGED dropped
          /\ tr' = [tr EXCEPT ![id] = Opened(id)]
          /\ \/ id = s /\ entry' = [entry EXCEPT ![s] = u]
             \/ id # s /\ UNCHANGED entry
      BY <1>4 DEF OpenPending, TransportOpen, history
    <2>2. tr[id].wr = "none"
      <3>1. id \in Nat /\ bidi \in BOOLEAN
        BY <2>1, ConstantsAssumption DEF Bidi
      <3> HIDE DEF bidi
      <3>2. id % 4 = MinId(bidi) /\ id >= tNext[bidi]
        BY <3>1 DEF TxInv, FreshInv
      <3>3. QED
        BY <2>1, <3>1, <3>2, NoTransportFacts DEF TxInv, FreshInv
    <2> HIDE DEF id
    <2>3. tr'[id] = Opened(id) /\ \A r \in StreamIds \ {id} : tr'[r] = tr[r]
      BY <1>t, <2>1
    <2>4. /\ Opened(id).wr \notin {"none", "gone"} /\ Opened(id).sent = 0
          /\ Local(id) => Opened(id).wr = "open"
      BY DEF Opened, NoTransport, RemoteUni
    <2>5. /\ entry[id] \in Entry /\ StreamOK(id, entry[id], tr[id], dropped[id])
          /\ WakesIf(id, entry[id])
      BY <2>1 DEF AllOK, TxInv, TypeOK
    <2>6. StreamOK(id, entry[id], tr'[id], dropped[id])
      BY <2>2, <2>3, <2>4, <2>5 DEF StreamOK
    <2>7. CASE id = s /\ entry' = [entry EXCEPT ![s] = u]
      <3>1. /\ u.present = entry[s].present /\ u.closed = entry[s].closed
            /\ u.reset = entry[s].reset /\ u.readable = entry[s].readable
            /\ u.rx_len = entry[s].rx_len /\ u.fin_pending = entry[s].fin_pending
            /\ u.fin_sent = entry[s].fin_sent /\ u.tx_len = entry[s].tx_len
            /\ u.writable = entry[s].writable
        BY <2>5, <2>7 DEF Entry
      <3> HIDE DEF u
      <3>2. StreamOK(s, u, tr'[s], dropped'[s])
        BY <2>1, <2>3, <2>4, <2>6, <2>7, <3>1 DEF StreamOK
      <3>3. WakesIf(s, u) /\ OnlyStream(s, u)
        BY <2>1, <2>3, <2>5, <2>7, <3>1 DEF WakesIf, Wakes, OnlyStream
      <3>4. QED
        BY <3>2, <3>3, ChangeStep
    <2>8. CASE id # s /\ UNCHANGED entry
      BY <2>1, <2>3, <2>6, <2>8, ViewChangeStep
    <2>9. QED
      BY <2>1, <2>7, <2>8
  <1>5. ASSUME WriteConnOnly \/ WriteClosing \/ WriteFatal PROVE AllOK'
    BY <1>5, NoChangeStep
       DEF WriteConnOnly, WriteClosing, WriteFatal, table, tVars, history
  <1>6. QED
    BY <1>1, <1>2, <1>3, <1>4, <1>5 DEF DrainStep

(* The flags of every stream stay right, whatever happens.                 *)
LEMMA AllOKStep == TxInv /\ AllOK /\ Next => AllOK'
  BY AppCallOK, PacketOK, DrainStepOK DEF Next

(***************************************************************************)
(* The ids openStream() reserves                                           *)
(***************************************************************************)

(* The last two bits of an id tell who opened the stream and its kind.     *)
LEMMA KindOfId ==
  ASSUME NEW s \in Nat, NEW bidi \in BOOLEAN
  PROVE  s % 4 = MinId(bidi) <=> Local(s) /\ (Bidi(s) <=> bidi)
  <1>1. /\ s % 4 \in 0..3 /\ s % 2 = (s % 4) % 2
        /\ (s \div 2) % 2 = (s % 4) \div 2
    OBVIOUS
  <1> DEFINE k == s % 4
  <1>2. k = 0 \/ k = 1 \/ k = 2 \/ k = 3
    BY <1>1
  <1>3. Local(s) <=> k % 2 = IF IsServer THEN 1 ELSE 0
    BY <1>1 DEF Local
  <1>4. Bidi(s) <=> k \div 2 = 0
    BY <1>1, <1>2 DEF Bidi
  <1> HIDE DEF k
  <1>5. k = MinId(bidi) <=> Local(s) /\ (Bidi(s) <=> bidi)
    BY <1>2, <1>3, <1>4 DEF MinId
  <1>6. QED
    BY <1>5 DEF k

(* php_quic_connection_ensure_next_stream_id gives an id of the right kind *)
(* that is not below the counter.                                          *)
LEMMA EnsuredFacts ==
  ASSUME TxInv, CounterInv, NEW bidi \in BOOLEAN
  PROVE  /\ EnsuredNextId(bidi) \in Nat
         /\ EnsuredNextId(bidi) % 4 = MinId(bidi)
         /\ EnsuredNextId(bidi) >= nextId[bidi]
  <1> DEFINE m == MinId(bidi)
             i == nextId[bidi]
  <1>1. m \in 0..3 /\ i \in Nat /\ (i < m \/ i % 4 = m)
    BY MinIdType DEF CounterInv, TxInv, TypeOK
  <1>2. EnsuredNextId(bidi) = IF i < m \/ i % 4 # m % 4 THEN m ELSE i
    BY DEF EnsuredNextId
  <1> HIDE DEF m, i
  <1>3. m % 4 = m /\ m \in Nat
    BY <1>1
  <1>4. QED
    BY <1>1, <1>2, <1>3 DEF m, i

IdsInv == CounterInv /\ NextIdAbove

(* An id past the counter is reserved or opened, and the counter moves     *)
(* past it.                                                                *)
LEMMA CounterMoves ==
  ASSUME TxInv, IdsInv, NEW bidi \in BOOLEAN, NEW id \in StreamIds, NEW u,
         id % 4 = MinId(bidi), entry' = [entry EXCEPT ![id] = u],
         NEW i \in Nat, i > id, i >= nextId[bidi], i % 4 = MinId(bidi),
         nextId' = [nextId EXCEPT ![bidi] = i]
  PROVE  IdsInv'
  <1>1. /\ nextId'[bidi] = i
        /\ \A b \in BOOLEAN \ {bidi} : nextId'[b] = nextId[b]
    BY DEF TxInv, TypeOK
  <1>2. ASSUME NEW b \in BOOLEAN
        PROVE  nextId'[b] >= nextId[b] /\ nextId[b] \in Nat /\ nextId'[b] \in Nat
    <2>1. nextId[b] \in Nat /\ nextId[bidi] \in Nat
      BY DEF TxInv, TypeOK
    <2>2. CASE b = bidi
      BY <1>1, <2>1, <2>2
    <2>3. CASE b # bidi
      BY <1>1, <2>1, <2>3
    <2>4. QED
      BY <2>2, <2>3
  <1>3. CounterInv'
    BY <1>1 DEF IdsInv, CounterInv, MinId
  <1>4. NextIdAbove'
    <2> SUFFICES ASSUME NEW s \in StreamIds, entry'[s].present, Local(s)
                 PROVE  s < nextId'[Bidi(s)]
      BY DEF NextIdAbove, Local, Bidi
    <2>1. s \in Nat /\ Bidi(s) \in BOOLEAN
      BY ConstantsAssumption DEF Bidi
    <2>2. CASE s = id
      <3>1. Bidi(s) <=> bidi
        BY <2>1, <2>2, KindOfId
      <3>2. Bidi(s) = bidi
        BY <2>1, <3>1
      <3>3. QED
        BY <1>1, <2>2, <3>2
    <2>3. CASE s # id
      <3>1. entry[s].present
        BY <2>3 DEF TxInv, TypeOK
      <3>2. s < nextId[Bidi(s)]
        BY <3>1 DEF IdsInv, NextIdAbove
      <3>3. QED
        BY <1>2, <2>1, <3>2
    <2>4. QED
      BY <2>2, <2>3
  <1>5. QED
    BY <1>3, <1>4 DEF IdsInv

(* The step gives no local stream an entry that it did not have.           *)
KeepsLocals ==
  /\ UNCHANGED nextId
  /\ \A s \in StreamIds : entry'[s].present /\ Local(s) => entry[s].present

(* A step that replaces the entry of a stream the table has.               *)
LEMMA PutKeepsLocals ==
  ASSUME TxInv, NEW s \in StreamIds, NEW u, entry' = [entry EXCEPT ![s] = u],
         Local(s) => entry[s].present, UNCHANGED nextId
  PROVE  KeepsLocals
  BY DEF TxInv, TypeOK, KeepsLocals

(* Only openStream() and openUniStream() add local streams to the table.   *)
LEMMA OnlyOpenAdds ==
  ASSUME TxInv, AllOK, Next,
         ~ \E bidi \in BOOLEAN : OpenNow(bidi) \/ OpenBlocked(bidi)
  PROVE  KeepsLocals
  <1>k. \A s \in StreamIds : PeerKnows(s) /\ Local(s) => entry[s].present
    BY DEF PeerKnows, AllOK, StreamOK
  <1>1. ASSUME NEW s \in StreamIds,
               \/ \E n \in WriteSizes : Write(s, n)
               \/ \E n \in WriteSizes \cup {0} : End(s, n)
               \/ Reset(s)
        PROVE  KeepsLocals
    <2>1. entry[s].present /\ UNCHANGED nextId /\ \E u : entry' = [entry EXCEPT ![s] = u]
      BY <1>1 DEF Write, End, Reset, PutEntry
    <2>2. QED
      BY <2>1, PutKeepsLocals
  <1>2. ASSUME NEW s \in StreamIds, NEW n \in 1..MaxRx, Read(s, n) PROVE KeepsLocals
    <2>1. n \in 1..entry[s].rx_len /\ UNCHANGED nextId
          /\ entry' = [entry EXCEPT ![s] = Consumed(entry[s], n)]
      BY <1>2 DEF Read, PutEntry
    <2>2. ~entry[s].present => entry[s].rx_len = 0
      BY DEF TxInv, AbsentInv, NoEntry
    <2>3. entry[s].present
      BY <2>1, <2>2, OpenEntryFacts, FieldTypes
    <2>4. QED
      BY <2>1, <2>3, PutKeepsLocals
  <1>3. ASSUME Close \/ DrainClose \/ DrainBegin \/ PeerClose \/ WindowOpens
               \/ (\E bidi \in BOOLEAN : RaiseLimit(bidi))
        PROVE  KeepsLocals
    BY <1>3 DEF Close, DrainClose, DrainBegin, PeerClose, WindowOpens, RaiseLimit, table,
       KeepsLocals
  <1>4. ASSUME NEW s \in StreamIds,
               \/ StreamOpenCb(s)
               \/ \E n \in 0..MaxRx, fin \in BOOLEAN : RecvStreamDataCb(s, n, fin)
               \/ StreamResetCb(s)
               \/ StreamCloseCb(s)
        PROVE  KeepsLocals
    <2>1. UNCHANGED nextId /\ \E u : entry' = [entry EXCEPT ![s] = u]
      BY <1>4 DEF StreamOpenCb, RecvStreamDataCb, StreamResetCb, StreamCloseCb, PutEntry
    <2>2. ~Local(s) \/ PeerKnows(s) \/ tr[s].wr \in {"fin", "shut"}
      BY <1>4 DEF StreamOpenCb, RecvStreamDataCb, StreamResetCb, StreamCloseCb, PeerSends
    <2>3. Local(s) => entry[s].present
      BY <1>k, <2>2 DEF AllOK, StreamOK
    <2>4. QED
      BY <2>1, <2>3, PutKeepsLocals
  <1>5. ASSUME NEW s \in StreamIds,
               AckedStreamDataCb(s) \/ StopSending(s) \/ GrantCredit(s)
        PROVE  KeepsLocals
    <2>1. UNCHANGED nextId
          /\ \/ UNCHANGED entry
             \/ entry[s].present /\ \E u : entry' = [entry EXCEPT ![s] = u]
      BY <1>5 DEF AckedStreamDataCb, StopSending, GrantCredit, AckWakes, PutEntry, table
    <2>2. UNCHANGED <<entry, nextId>> => KeepsLocals
      BY DEF KeepsLocals
    <2>3. QED
      BY <2>1, <2>2, PutKeepsLocals
  <1>6. ASSUME NEW s \in StreamIds,
               \/ \E n \in 0..MaxBytes, more \in BOOLEAN : WriteFrame(s, n, more)
               \/ WriteOther(s)
               \/ WriteNothing(s)
               \/ WriteDataBlocked(s)
        PROVE  KeepsLocals
    <2>1. entry[s].present /\ UNCHANGED nextId /\ \E u : entry' = [entry EXCEPT ![s] = u]
      BY <1>6 DEF WriteFrame, WriteOther, WriteNothing, WriteDataBlocked, Target, Picks,
         HasTx, ApplyUpdate
    <2>2. QED
      BY <2>1, PutKeepsLocals
  <1>7. ASSUME NEW s \in StreamIds, WriteShut(s) \/ OpenPending(s) PROVE KeepsLocals
    <2>1. entry[s].present /\ UNCHANGED nextId
          /\ (UNCHANGED entry \/ \E u : entry' = [entry EXCEPT ![s] = u])
      BY <1>7 DEF WriteShut, OpenPending, Target, Picks, HasTx
    <2>2. UNCHANGED <<entry, nextId>> => KeepsLocals
      BY DEF KeepsLocals
    <2>3. QED
      BY <2>1, <2>2, PutKeepsLocals
  <1>8. ASSUME WriteConnOnly \/ WriteClosing \/ WriteFatal PROVE KeepsLocals
    BY <1>8 DEF WriteConnOnly, WriteClosing, WriteFatal, table, KeepsLocals
  <1>9. QED
    BY <1>1, <1>2, <1>3, <1>4, <1>5, <1>6, <1>7, <1>8
       DEF Next, AppCall, Packet, DrainStep

(* The counters stay above every local stream, whatever happens.           *)
LEMMA IdsStep == TxInv /\ AllOK /\ IdsInv /\ Next => IdsInv'
  <1> SUFFICES ASSUME TxInv, AllOK, IdsInv, Next PROVE IdsInv'
    OBVIOUS
  <1>1. ASSUME NEW bidi \in BOOLEAN, OpenNow(bidi) PROVE IdsInv'
    <2> DEFINE id == tNext[bidi]
               g == EnsuredNextId(bidi)
               i == NextIdAfter(bidi, id)
               u == LocalOpened(OpenEntry(id), FALSE)
    <2>1. /\ id \in StreamIds /\ entry' = [entry EXCEPT ![id] = u]
          /\ nextId' = [nextId EXCEPT ![bidi] = i]
      BY <1>1 DEF OpenNow, FinishOpen, PutEntry
    <2>2. id \in Nat /\ id % 4 = MinId(bidi)
      BY <2>1, ConstantsAssumption DEF TxInv, FreshInv
    <2>3. g \in Nat /\ g % 4 = MinId(bidi) /\ g >= nextId[bidi]
      BY EnsuredFacts DEF IdsInv
    <2>4. nextId[bidi] \in Nat
      BY DEF TxInv, TypeOK
    <2>5. i = IF id >= g THEN id + 4 ELSE g
      BY DEF NextIdAfter
    <2> HIDE DEF id, g, i, u
    <2>6. i \in Nat /\ i > id /\ i >= nextId[bidi] /\ i % 4 = MinId(bidi)
      BY <2>2, <2>3, <2>4, <2>5
    <2>7. QED
      BY <2>1, <2>2, <2>6, CounterMoves
  <1>2. ASSUME NEW bidi \in BOOLEAN, OpenBlocked(bidi) PROVE IdsInv'
    <2> DEFINE id == EnsuredNextId(bidi)
               i == id + 4
               u == LocalOpened(OpenEntry(id), TRUE)
    <2>1. /\ id \in StreamIds /\ entry' = [entry EXCEPT ![id] = u]
          /\ nextId' = [nextId EXCEPT ![bidi] = i]
      BY <1>2 DEF OpenBlocked, FinishOpen, PutEntry
    <2>2. id \in Nat /\ id % 4 = MinId(bidi) /\ id >= nextId[bidi]
      BY EnsuredFacts DEF IdsInv
    <2>3. nextId[bidi] \in Nat
      BY DEF TxInv, TypeOK
    <2> HIDE DEF id, u
    <2>4. i \in Nat /\ i > id /\ i >= nextId[bidi] /\ i % 4 = MinId(bidi)
      BY <2>2, <2>3
    <2> HIDE DEF i
    <2>5. QED
      BY <2>1, <2>2, <2>4, CounterMoves
  <1>3. ASSUME KeepsLocals PROVE IdsInv'
    BY <1>3 DEF KeepsLocals, IdsInv, CounterInv, NextIdAbove, MinId, Local, Bidi
  <1>4. QED
    BY <1>1, <1>2, <1>3, OnlyOpenAdds

(***************************************************************************)
(* The partial packet                                                      *)
(***************************************************************************)

(* No step leaves the loop, other than by throwing, while ngtcp2 holds a   *)
(* partial packet, and outside the loop nothing starts one.                *)
LEMMA FlushStep == TypeOK /\ PartialFlushed /\ Next => PartialFlushed'
  <1> SUFFICES ASSUME TypeOK, PartialFlushed, Next PROVE PartialFlushed'
    OBVIOUS
  <1>1. ASSUME NEW bidi \in BOOLEAN, OpenNow(bidi) \/ OpenBlocked(bidi) \/ RaiseLimit(bidi)
        PROVE  PartialFlushed'
    BY <1>1 DEF OpenNow, OpenBlocked, RaiseLimit, PartialFlushed, loopVars, tVars, packet
  <1>2. ASSUME NEW s \in StreamIds,
               \/ \E n \in WriteSizes : Write(s, n)
               \/ \E n \in WriteSizes \cup {0} : End(s, n)
               \/ \E n \in 1..MaxRx : Read(s, n)
               \/ Reset(s)
        PROVE  PartialFlushed'
    BY <1>2 DEF Write, End, Read, Reset, PartialFlushed, loopVars, tVars, packet
  <1>3. ASSUME Close \/ DrainClose \/ DrainBegin \/ PeerClose \/ WindowOpens
        PROVE  PartialFlushed'
    BY <1>3 DEF Close, DrainClose, DrainBegin, PeerClose, WindowOpens, PartialFlushed,
       loopVars, tVars, packet, TypeOK
  <1>4. ASSUME NEW s \in StreamIds,
               \/ StreamOpenCb(s)
               \/ \E n \in 0..MaxRx, fin \in BOOLEAN : RecvStreamDataCb(s, n, fin)
               \/ StreamResetCb(s) \/ StreamCloseCb(s) \/ AckedStreamDataCb(s)
               \/ StopSending(s) \/ GrantCredit(s)
        PROVE  PartialFlushed'
    <2>1. UNCHANGED <<loopVars, tConn, ppe>>
      BY <1>4 DEF StreamOpenCb, RecvStreamDataCb, StreamResetCb, StreamCloseCb,
         AckedStreamDataCb, StopSending, GrantCredit, packet
    <2>2. QED
      BY <2>1 DEF loopVars, PartialFlushed
  <1>5. ASSUME DrainStep PROVE PartialFlushed'
    <2>1. pc = "drain"
      BY <1>5 DEF DrainStep, WriteFrame, WriteOther, WriteNothing, WriteDataBlocked,
         WriteShut, Target, OpenPending, WriteConnOnly, ConnOnly, WriteClosing, WriteFatal
    <2>2. Continue => pc' # "idle"
      BY <2>1 DEF Continue
    <2>3. (Emit \/ (~ppe /\ UNCHANGED ppe)) => ~ppe'
      BY DEF Emit
    <2>4. Throw("threw") \/ Throw("mismatch") => result' # "returned"
      BY DEF Throw
    <2>5. ASSUME NEW s \in StreamIds,
                 \/ \E n \in 0..MaxBytes, more \in BOOLEAN : WriteFrame(s, n, more)
                 \/ WriteOther(s) \/ WriteNothing(s) \/ WriteDataBlocked(s)
                 \/ WriteShut(s) \/ OpenPending(s)
          PROVE  Continue \/ ~ppe' \/ Throw("mismatch")
      BY <2>3, <2>5 DEF WriteFrame, WriteOther, WriteNothing, WriteDataBlocked, RetryConnOnly,
         WriteShut, OpenPending, tVars, packet
    <2>6. ASSUME WriteConnOnly \/ WriteClosing \/ WriteFatal
          PROVE  ~ppe' \/ tConn' # "open" \/ Throw("threw")
      BY <2>3, <2>6 DEF WriteConnOnly, WriteClosing, WriteFatal, tVars, packet
    <2>7. QED
      BY <1>5, <2>2, <2>4, <2>5, <2>6 DEF DrainStep, PartialFlushed
  <1>6. QED
    BY <1>1, <1>2, <1>3, <1>4, <1>5 DEF Next, AppCall, Packet

(***************************************************************************)
(* The invariant, and what follows from it                                 *)
(***************************************************************************)

(* The three parts of FlagInv.                                             *)
LEMMA FlagInvIs == FlagInv <=> AllOK /\ IdsInv /\ PartialFlushed
  BY AllOKIs DEF FlagInv, IdsInv

(* The empty table has no flag to be wrong about.                          *)
LEMMA InitFlagInv == Init => AllOK /\ IdsInv /\ PartialFlushed
  <1> SUFFICES ASSUME Init PROVE AllOK /\ IdsInv /\ PartialFlushed
    OBVIOUS
  <1>1. AllOK
    <2>1. ~NoEntry.present /\ ~NoEntry.closed
      BY DEF NoEntry
    <2>2. \A s \in StreamIds : entry[s] = NoEntry /\ tr[s] = NoTransport /\ dropped[s] = 0
      BY DEF Init
    <2>3. ASSUME NEW s
          PROVE  StreamOK(s, NoEntry, NoTransport, 0) /\ WakesIf(s, NoEntry)
      BY <2>1, NoTransportFacts DEF StreamOK, WakesIf, Wakes
    <2>4. QED
      BY <2>2, <2>3 DEF AllOK
  <1>2. IdsInv
    <2>1. CounterInv
      <3> SUFFICES ASSUME NEW b \in BOOLEAN
                   PROVE  nextId[b] < MinId(b) \/ nextId[b] % 4 = MinId(b)
        BY DEF CounterInv
      <3> DEFINE i == nextId[b]
                 m == MinId(b)
      <3>1. i = IF b THEN 0 ELSE 2
        BY DEF Init
      <3>2. m = (IF b THEN 0 ELSE 2) \/ m = (IF b THEN 0 ELSE 2) + 1
        BY DEF MinId
      <3> HIDE DEF i, m
      <3>3. i \in {0, 2} /\ (m = i \/ m = i + 1)
        BY <3>1, <3>2
      <3>4. i < m \/ i % 4 = m
        BY <3>3
      <3>5. QED
        BY <3>4 DEF i, m
    <2>2. NextIdAbove
      BY DEF Init, NextIdAbove, NoEntry
    <2>3. QED
      BY <2>1, <2>2 DEF IdsInv
  <1>3. PartialFlushed
    BY DEF Init, PartialFlushed
  <1>4. QED
    BY <1>1, <1>2, <1>3

(* FlagInv is an invariant of the stream table, for every set of streams,  *)
(* every size of write() and every answer ngtcp2 gives the transmit loop.  *)
THEOREM FlagInvariant == Spec => [](TxInv /\ FlagInv)
  <1>1. Init => AllOK /\ IdsInv /\ PartialFlushed
    BY InitFlagInv
  <1>2. TxInv /\ AllOK /\ IdsInv /\ PartialFlushed /\ [Next]_vars
          => (AllOK /\ IdsInv /\ PartialFlushed)'
    <2>1. TxInv => TypeOK
      BY DEF TxInv
    <2>2. AllOK /\ UNCHANGED vars => AllOK'
      <3>1. UNCHANGED vars => UNCHANGED <<entry, tr, dropped>>
        BY DEF vars, table, tVars, history
      <3>2. QED
        BY <3>1, NoChangeStep
    <2>3. IdsInv /\ UNCHANGED vars => IdsInv'
      BY DEF vars, table, IdsInv, CounterInv, NextIdAbove, MinId, Local, Bidi
    <2>4. PartialFlushed /\ UNCHANGED vars => PartialFlushed'
      BY DEF vars, loopVars, tVars, packet, PartialFlushed
    <2>5. QED
      BY <2>1, <2>2, <2>3, <2>4, AllOKStep, IdsStep, FlushStep
  <1>3. QED
    BY <1>1, <1>2, TxInvariant, FlagInvIs, PTL DEF Spec

(* The transmit loop never offers ngtcp2 a stream that ngtcp2 does not     *)
(* have: pick_tx_stream chooses open streams, or reserved ones to open.    *)
THEOREM PickedIsKnown == Spec => []StreamKnown
  <1>1. OpenedInv => StreamKnown
    BY DEF OpenedInv, StreamKnown, HasTx
  <1>2. FlagInv => OpenedInv
    BY DEF FlagInv
  <1>3. QED
    BY <1>1, <1>2, FlagInvariant, PTL

(* isReadable() is true exactly while read() has bytes to return.          *)
THEOREM ReadableIsHonest == Spec => []ReadableHonest
  <1>1. FlagInv => ReadableHonest
    BY DEF FlagInv
  <1>2. QED
    BY <1>1, FlagInvariant, PTL

(* An application that never writes the empty string is always told when   *)
(* a stream that is still open has room again.                             *)
THEOREM NoWakeupLost ==
  ASSUME 0 \notin WriteSizes
  PROVE  Spec => []NoLostWakeup
  <1>1. FlagInv => NoLostWakeup
    BY DEF FlagInv
  <1>2. QED
    BY <1>1, FlagInvariant, PTL

(* The id the next blocked openStream() would reserve is beyond every      *)
(* local stream of its kind in the table.                                  *)
THEOREM CounterIsAbove == Spec => []NextIdAbove
  <1>1. FlagInv => NextIdAbove
    BY DEF FlagInv
  <1>2. QED
    BY <1>1, FlagInvariant, PTL

(* drainOutgoingDatagrams() returns with no partial packet left in ngtcp2. *)
THEOREM PartialIsFlushed == Spec => []PartialFlushed
  <1>1. FlagInv => PartialFlushed
    BY DEF FlagInv
  <1>2. QED
    BY <1>1, FlagInvariant, PTL

(***************************************************************************)
(* What a step may not do                                                  *)
(***************************************************************************)

StaysOpen == \A s \in StreamIds :
               entry[s].present /\ ~entry[s].pending_open => ~entry'[s].pending_open

(* One entry is replaced by one that is not reserved, unless it was.       *)
LEMMA PutStaysOpen ==
  ASSUME TxInv, NEW s \in StreamIds, NEW u, entry' = [entry EXCEPT ![s] = u],
         entry[s].present /\ ~entry[s].pending_open => ~u.pending_open
  PROVE  StaysOpen
  BY DEF TxInv, TypeOK, StaysOpen

(* The operators that openStream() does not use reserve no stream.         *)
LEMMA PendingOperators ==
  ASSUME NEW e \in Entry
  PROVE  /\ \A n : /\ Appended(e, n).pending_open = e.pending_open
                  /\ Ended(e, n).pending_open = e.pending_open
                  /\ Consumed(e, n).pending_open = e.pending_open
         /\ SetWritable(e, TRUE).pending_open = e.pending_open
         /\ PeerReset(e).pending_open = e.pending_open
         /\ BothClosed(e).pending_open = e.pending_open
         /\ DiscardTx(e).pending_open = e.pending_open
         /\ ~LocallyReset(e).pending_open
         /\ ~LocalOpened(e, FALSE).pending_open
         /\ ~[e EXCEPT !.pending_open = FALSE].pending_open
  BY DEF Entry, Appended, Ended, Consumed, PeerReset, BothClosed, SetWritable,
     DiscardTx, LocallyReset, LocalOpened

(* The calls and callbacks of AppCall and Packet reserve no open stream.   *)
LEMMA CallStaysOpen == TxInv /\ IdsInv /\ (AppCall \/ Packet) => StaysOpen
  <1> SUFFICES ASSUME TxInv, IdsInv, AppCall \/ Packet PROVE StaysOpen
    OBVIOUS
  <1>e. \A s \in StreamIds : /\ entry[s] \in Entry
                             /\ entry[s].present => OpenEntry(s) = entry[s]
    BY DEF TxInv, TypeOK, OpenEntry
  <1>1. ASSUME NEW bidi \in BOOLEAN, OpenNow(bidi) PROVE StaysOpen
    <2> DEFINE id == tNext[bidi]
               u == LocalOpened(OpenEntry(id), FALSE)
    <2>1. id \in StreamIds /\ entry' = [entry EXCEPT ![id] = u]
      BY <1>1 DEF OpenNow, FinishOpen, PutEntry
    <2> HIDE DEF id
    <2>2. OpenEntry(id) \in Entry
      BY <2>1, OpenEntryFacts DEF Replaces
    <2>3. ~u.pending_open
      BY <2>2, PendingOperators
    <2> HIDE DEF u
    <2>4. QED
      BY <2>1, <2>3, PutStaysOpen
  <1>2. ASSUME NEW bidi \in BOOLEAN, OpenBlocked(bidi) PROVE StaysOpen
    <2> DEFINE id == EnsuredNextId(bidi)
               u == LocalOpened(OpenEntry(id), TRUE)
    <2>1. id \in StreamIds /\ entry' = [entry EXCEPT ![id] = u]
      BY <1>2 DEF OpenBlocked, FinishOpen, PutEntry
    <2>2. id \in Nat /\ id % 4 = MinId(bidi) /\ id >= nextId[bidi]
      BY EnsuredFacts DEF IdsInv
    <2> HIDE DEF id, u
    <2>3. nextId[bidi] \in Nat
      BY DEF TxInv, TypeOK
    <2>4. Local(id) /\ (Bidi(id) <=> bidi)
      BY <2>2, KindOfId
    <2>5. Bidi(id) = bidi
      BY <2>4 DEF Bidi
    <2>6. ~entry[id].present
      <3>1. entry[id].present => id < nextId[bidi]
        BY <2>1, <2>4, <2>5 DEF IdsInv, NextIdAbove
      <3>2. QED
        BY <2>2, <2>3, <3>1
    <2>7. QED
      BY <2>1, <2>6, PutStaysOpen
  <1>3. ASSUME NEW s \in StreamIds,
               \/ \E n \in WriteSizes : Write(s, n)
               \/ \E n \in WriteSizes \cup {0} : End(s, n)
               \/ \E n \in 1..MaxRx : Read(s, n)
               \/ Reset(s)
        PROVE  StaysOpen
    <2>1. \/ \E n : \/ entry' = [entry EXCEPT ![s] = Appended(entry[s], n)]
                   \/ entry' = [entry EXCEPT ![s] = Ended(entry[s], n)]
                   \/ entry' = [entry EXCEPT ![s] = Consumed(entry[s], n)]
          \/ entry' = [entry EXCEPT ![s] = LocallyReset(entry[s])]
      BY <1>3 DEF Write, End, Read, Reset, PutEntry
    <2>2. entry[s] \in Entry
      BY <1>e
    <2>3. QED
      BY <2>1, <2>2, PendingOperators, PutStaysOpen
  <1>4. ASSUME NEW s \in StreamIds,
               \/ StreamOpenCb(s)
               \/ \E n \in 0..MaxRx, fin \in BOOLEAN : RecvStreamDataCb(s, n, fin)
               \/ StreamResetCb(s)
               \/ StreamCloseCb(s)
        PROVE  StaysOpen
    <2> DEFINE e == OpenEntry(s)
    <2>1. \/ \E b : entry' = [entry EXCEPT ![s] = SetWritable(e, b)]
          \/ \E n, b : entry' = [entry EXCEPT ![s] = Received(e, n, b)]
          \/ entry' = [entry EXCEPT ![s] = PeerReset(e)]
          \/ entry' = [entry EXCEPT ![s] = BothClosed(e)]
      BY <1>4 DEF StreamOpenCb, RecvStreamDataCb, StreamResetCb, StreamCloseCb, PutEntry
    <2>2. /\ e \in Entry
          /\ entry[s].present => e.pending_open = entry[s].pending_open
      BY <1>e, OpenEntryFacts DEF Replaces
    <2> HIDE DEF e
    <2>3. ASSUME NEW b, entry' = [entry EXCEPT ![s] = SetWritable(e, b)] PROVE StaysOpen
      <3>1. SetWritable(e, b).pending_open = e.pending_open
        BY <2>2 DEF SetWritable, Entry
      <3>2. QED
        BY <2>2, <2>3, <3>1, PutStaysOpen
    <2>4. ASSUME NEW n, NEW b, entry' = [entry EXCEPT ![s] = Received(e, n, b)]
          PROVE  StaysOpen
      <3>1. Received(e, n, b).pending_open = e.pending_open
        BY <2>2 DEF Received, Entry
      <3>2. QED
        BY <2>2, <2>4, <3>1, PutStaysOpen
    <2>5. CASE \/ entry' = [entry EXCEPT ![s] = PeerReset(e)]
               \/ entry' = [entry EXCEPT ![s] = BothClosed(e)]
      BY <2>2, <2>5, PendingOperators, PutStaysOpen
    <2>6. QED
      BY <2>1, <2>3, <2>4, <2>5
  <1>5. ASSUME NEW s \in StreamIds, AckedStreamDataCb(s) PROVE StaysOpen
    <2>1. \/ UNCHANGED entry
          \/ entry' = [entry EXCEPT ![s] = SetWritable(entry[s], TRUE)]
      BY <1>5 DEF AckedStreamDataCb, PutEntry, table
    <2>2. SetWritable(entry[s], TRUE).pending_open = entry[s].pending_open
      BY <1>e, PendingOperators
    <2>3. UNCHANGED entry => StaysOpen
      BY DEF StaysOpen
    <2>4. QED
      BY <2>1, <2>2, <2>3, PutStaysOpen
  <1>6. ASSUME \/ \E s \in StreamIds : StopSending(s) \/ GrantCredit(s)
               \/ \E bidi \in BOOLEAN : RaiseLimit(bidi)
               \/ Close \/ DrainClose \/ DrainBegin \/ PeerClose \/ WindowOpens
        PROVE  StaysOpen
    BY <1>6 DEF StopSending, GrantCredit, RaiseLimit, Close, DrainClose, DrainBegin,
       PeerClose, WindowOpens, table, StaysOpen
  <1>7. QED
    BY <1>1, <1>2, <1>3, <1>4, <1>5, <1>6 DEF AppCall, Packet

(* Nor does the transmit loop.                                             *)
LEMMA DrainStaysOpen == TxInv /\ DrainStep => StaysOpen
  <1> SUFFICES ASSUME TxInv, DrainStep PROVE StaysOpen
    OBVIOUS
  <1>1. ASSUME NEW s \in StreamIds, NEW n \in 0..MaxBytes, NEW more \in BOOLEAN,
               WriteFrame(s, n, more)
        PROVE  StaysOpen
    <2> DEFINE e == entry[s]
               u == UpdateTx(e, n, e.fin_pending, ~more)
    <2>1. n <= Remaining(e) /\ entry' = [entry EXCEPT ![s] = u]
      BY <1>1 DEF WriteFrame, ApplyUpdate
    <2>2. /\ e \in Entry /\ e.tx_offset <= e.tx_len /\ e.fin_pending \in BOOLEAN
          /\ n \in Int /\ (~more) \in BOOLEAN
      BY OpenEntryFacts, ConstantsAssumption DEF Entry
    <2> HIDE DEF e
    <2>3. u.pending_open = e.pending_open
      BY <2>1, <2>2, UpdateTxFlags DEF SameFlags
    <2> HIDE DEF u
    <2>4. QED
      BY <2>1, <2>3, PutStaysOpen DEF e
  <1>2. ASSUME NEW s \in StreamIds, WriteOther(s) \/ WriteNothing(s) \/ WriteDataBlocked(s)
        PROVE  StaysOpen
    <2> DEFINE e == entry[s]
    <2>1. PICK p \in BOOLEAN : entry' = [entry EXCEPT ![s] = UpdateTx(e, -1, e.fin_pending, p)]
      BY <1>2 DEF WriteOther, WriteNothing, WriteDataBlocked, ApplyUpdate
    <2> DEFINE u == UpdateTx(e, -1, e.fin_pending, p)
    <2>2. e \in Entry /\ e.tx_offset <= e.tx_len /\ e.fin_pending \in BOOLEAN
      BY OpenEntryFacts DEF Entry
    <2>3. -1 \in Int /\ -1 <= Remaining(e)
      BY <2>2, FieldTypes DEF Remaining
    <2> HIDE DEF e
    <2>4. u.pending_open = e.pending_open
      BY <2>2, <2>3, UpdateTxFlags DEF SameFlags
    <2>5. QED
      BY <2>1, <2>4, PutStaysOpen DEF e
  <1>3. ASSUME NEW s \in StreamIds, WriteShut(s) \/ OpenPending(s) PROVE StaysOpen
    <2>1. \/ UNCHANGED entry
          \/ entry' = [entry EXCEPT ![s] = DiscardTx(entry[s])]
          \/ entry' = [entry EXCEPT ![s] = [entry[s] EXCEPT !.pending_open = FALSE]]
      BY <1>3 DEF WriteShut, OpenPending
    <2>2. entry[s] \in Entry
      BY DEF TxInv, TypeOK
    <2>3. /\ DiscardTx(entry[s]).pending_open = entry[s].pending_open
          /\ ~[entry[s] EXCEPT !.pending_open = FALSE].pending_open
      BY <2>2, PendingOperators
    <2>4. UNCHANGED entry => StaysOpen
      BY DEF StaysOpen
    <2>5. QED
      BY <2>1, <2>3, <2>4, PutStaysOpen
  <1>4. ASSUME WriteConnOnly \/ WriteClosing \/ WriteFatal PROVE StaysOpen
    BY <1>4 DEF WriteConnOnly, WriteClosing, WriteFatal, table, StaysOpen
  <1>5. QED
    BY <1>1, <1>2, <1>3, <1>4 DEF DrainStep

(* A stream that ngtcp2 has opened never becomes a reserved one: no call   *)
(* of openStream() hands out its id again as one still to be opened.       *)
THEOREM OpenedStreamsStayOpen == Spec => OpenedStaysOpen
  <1>1. TxInv /\ FlagInv /\ [Next]_vars => StaysOpen
    <2>1. FlagInv => IdsInv
      BY FlagInvIs
    <2>2. UNCHANGED vars => StaysOpen
      BY DEF vars, table, StaysOpen
    <2>3. QED
      BY <2>1, <2>2, CallStaysOpen, DrainStaysOpen DEF Next
  <1>2. QED
    BY <1>1, FlagInvariant, PTL DEF Spec, OpenedStaysOpen, StaysOpen

(* ngtcp2 takes the FIN of s in this step.                                 *)
TakesFin(s) == tr[s].wr = "open" /\ tr'[s].wr = "fin"

NoFin == \A s \in StreamIds : ~TakesFin(s)

(* A step that changes one view without taking a FIN.                      *)
LEMMA ViewTakesNoFin ==
  ASSUME TxInv, NEW s \in StreamIds, NEW v, tr' = [tr EXCEPT ![s] = v],
         v.wr = "fin" => tr[s].wr = "fin"
  PROVE  NoFin
  BY DEF TxInv, TypeOK, NoFin, TakesFin

(* No call and no packet makes ngtcp2 take a FIN.                          *)
LEMMA CallTakesNoFin == TxInv /\ (AppCall \/ Packet) => NoFin
  <1> SUFFICES ASSUME TxInv, AppCall \/ Packet PROVE NoFin
    OBVIOUS
  <1>t. \A s \in StreamIds : tr[s] \in Transport
    BY DEF TxInv, TypeOK
  <1>o. \A s : Opened(s).wr # "fin"
    BY DEF Opened, NoTransport
  <1>u. UNCHANGED tr => NoFin
    BY DEF NoFin, TakesFin
  <1>1. ASSUME NEW bidi \in BOOLEAN, OpenNow(bidi) PROVE NoFin
    <2> DEFINE id == tNext[bidi]
    <2>1. id \in StreamIds /\ tr' = [tr EXCEPT ![id] = Opened(id)]
      BY <1>1 DEF OpenNow, TransportOpen
    <2> HIDE DEF id
    <2>2. QED
      BY <1>o, <2>1, ViewTakesNoFin
  <1>2. ASSUME NEW s \in StreamIds, Reset(s) PROVE NoFin
    <2>1. UNCHANGED tr \/ tr' = [tr EXCEPT ![s] = Shutdown(tr[s])]
      BY <1>2 DEF Reset
    <2>2. Shutdown(tr[s]).wr = "fin" => tr[s].wr = "fin"
      BY <1>t DEF Shutdown, Transport
    <2>3. QED
      BY <1>u, <2>1, <2>2, ViewTakesNoFin
  <1>3. ASSUME NEW s \in StreamIds, StreamOpenCb(s) PROVE NoFin
    <2>1. tr' = [tr EXCEPT ![s] = Opened(s)]
      BY <1>3 DEF StreamOpenCb
    <2>2. QED
      BY <1>o, <2>1, ViewTakesNoFin
  <1>4. ASSUME NEW s \in StreamIds,
               \/ \E n \in 0..MaxRx, fin \in BOOLEAN : RecvStreamDataCb(s, n, fin)
               \/ StreamResetCb(s)
        PROVE  NoFin
    <2>1. UNCHANGED tr \/ tr' = [tr EXCEPT ![s] = ReadDone(tr[s])]
      BY <1>4 DEF RecvStreamDataCb, StreamResetCb
    <2>2. ReadDone(tr[s]).wr = tr[s].wr
      BY <1>t DEF ReadDone, Transport
    <2>3. QED
      BY <1>u, <2>1, <2>2, ViewTakesNoFin
  <1>5. ASSUME NEW s \in StreamIds, StreamCloseCb(s) \/ StopSending(s) \/ GrantCredit(s)
        PROVE  NoFin
    <2>1. \/ tr' = [tr EXCEPT ![s] = [tr[s] EXCEPT !.wr = "gone"]]
          \/ tr' = [tr EXCEPT ![s] = [tr[s] EXCEPT !.wr = "shut"]]
          \/ tr' = [tr EXCEPT ![s] = [tr[s] EXCEPT !.credit = MaxCredit]]
      BY <1>5 DEF StreamCloseCb, StopSending, GrantCredit
    <2>2. /\ [tr[s] EXCEPT !.wr = "gone"].wr # "fin"
          /\ [tr[s] EXCEPT !.wr = "shut"].wr # "fin"
          /\ [tr[s] EXCEPT !.credit = MaxCredit].wr = tr[s].wr
      BY <1>t DEF Transport
    <2>3. QED
      BY <2>1, <2>2, ViewTakesNoFin
  <1>6. ASSUME NEW s \in StreamIds,
               \/ \E n \in WriteSizes : Write(s, n)
               \/ \E n \in WriteSizes \cup {0} : End(s, n)
               \/ \E n \in 1..MaxRx : Read(s, n)
               \/ AckedStreamDataCb(s)
        PROVE  NoFin
    BY <1>u, <1>6 DEF Write, End, Read, AckedStreamDataCb, tVars
  <1>7. ASSUME \/ \E bidi \in BOOLEAN : OpenBlocked(bidi) \/ RaiseLimit(bidi)
               \/ Close \/ DrainClose \/ DrainBegin \/ PeerClose \/ WindowOpens
        PROVE  NoFin
    BY <1>u, <1>7 DEF OpenBlocked, RaiseLimit, Close, DrainClose, DrainBegin,
       PeerClose, WindowOpens, tVars
  <1>8. QED
    BY <1>1, <1>2, <1>3, <1>4, <1>5, <1>6, <1>7 DEF AppCall, Packet

FinStep == \A s \in StreamIds : TakesFin(s) => tr'[s].sent = accepted[s]

(* The transmit loop lets ngtcp2 take a FIN with the last byte only: what  *)
(* was accepted is what was sent, plus this frame, nothing being dropped   *)
(* while the sending side is open.                                         *)
LEMMA DrainFin == TxInv /\ AllOK /\ DrainStep => FinStep
  <1> SUFFICES ASSUME TxInv, AllOK, DrainStep PROVE FinStep
    OBVIOUS
  <1>t. tr \in [StreamIds -> Transport]
    BY DEF TxInv, TypeOK
  <1>u. UNCHANGED tr => FinStep
    BY DEF FinStep, TakesFin
  <1>1. ASSUME NEW s \in StreamIds, NEW n \in 0..MaxBytes, NEW more \in BOOLEAN,
               WriteFrame(s, n, more)
        PROVE  FinStep
    <2> SUFFICES ASSUME NEW r \in StreamIds, TakesFin(r)
                 PROVE  tr'[r].sent = accepted[r]
      BY DEF FinStep
    <2> DEFINE rem == Remaining(entry[s])
               fin == entry[s].fin_pending /\ n = rem
               v == Framed(tr[s], n, fin)
    <2>1. tr[s].wr = "open" /\ n <= tr[s].credit /\ tr' = [tr EXCEPT ![s] = v]
      BY <1>1 DEF WriteFrame
    <2>2. tr'[s] = v /\ \A q \in StreamIds \ {s} : tr'[q] = tr[q]
      BY <1>t, <2>1
    <2>3. r = s
      BY <2>2 DEF TakesFin
    <2>4. v.sent = tr[s].sent + n
      <3>1. n \in Nat /\ fin \in BOOLEAN /\ tr[s] \in Transport
        BY <1>t, ConstantsAssumption
      <3> HIDE DEF fin
      <3>2. QED
        BY <2>1, <3>1, FramedFacts
    <2>5. ~fin => v.wr = "open"
      BY <1>t, <2>1 DEF Framed, Transport
    <2> HIDE DEF v
    <2>6. n = rem
      BY <2>2, <2>3, <2>5 DEF TakesFin
    <2>7. accepted[s] = tr[s].sent + rem + dropped[s]
      BY DEF TxInv, Conservation
    <2>8. dropped[s] = 0
      BY <2>1 DEF AllOK, StreamOK
    <2>9. tr[s].sent \in Nat
      BY <1>t DEF Transport
    <2> HIDE DEF rem
    <2>10. QED
      BY <2>2, <2>3, <2>4, <2>6, <2>7, <2>8, <2>9
  <1>2. ASSUME NEW s \in StreamIds, OpenPending(s) PROVE FinStep
    <2> DEFINE id == tNext[Bidi(s)]
    <2>1. id \in StreamIds /\ tr' = [tr EXCEPT ![id] = Opened(id)]
      BY <1>2 DEF OpenPending, TransportOpen
    <2> HIDE DEF id
    <2>2. Opened(id).wr # "fin"
      BY DEF Opened, NoTransport
    <2>3. NoFin
      BY <2>1, <2>2, ViewTakesNoFin
    <2>4. QED
      BY <2>3 DEF NoFin, FinStep
  <1>3. ASSUME \/ \E s \in StreamIds : WriteOther(s) \/ WriteNothing(s)
                                       \/ WriteDataBlocked(s) \/ WriteShut(s)
               \/ WriteConnOnly \/ WriteClosing \/ WriteFatal
        PROVE  FinStep
    BY <1>u, <1>3 DEF WriteOther, WriteNothing, WriteDataBlocked, WriteShut,
       WriteConnOnly, WriteClosing, WriteFatal, tVars
  <1>4. QED
    BY <1>1, <1>2, <1>3 DEF DrainStep

(* When ngtcp2 takes the FIN of a stream, every byte the application gave  *)
(* write() and end() before has gone out.                                  *)
THEOREM FinComesLast == Spec => FinCarriesAll
  <1>1. TxInv /\ FlagInv /\ [Next]_vars => FinStep
    <2>1. FlagInv => AllOK
      BY FlagInvIs
    <2>2. NoFin => FinStep
      BY DEF NoFin, FinStep
    <2>3. UNCHANGED vars => FinStep
      BY DEF vars, tVars, FinStep, TakesFin
    <2>4. QED
      BY <2>1, <2>2, <2>3, CallTakesNoFin, DrainFin DEF Next
  <1>2. QED
    BY <1>1, FlagInvariant, PTL DEF Spec, FinCarriesAll, FinStep, TakesFin

(***************************************************************************)
(* Streams implements SendSide                                             *)
(***************************************************************************)

(* The part of FinInv for one entry                                        *)
FinOK(e) == e.fin_sent /\ ~e.closed /\ Remaining(e) > 0 => e.fin_pending

(* The application can add nothing to the stream of e.                     *)
IsEnded(e) == e.closed \/ e.fin_pending \/ e.fin_sent

(* SendSide sees no difference between e and u.                            *)
SameQueue(e, u) ==
  /\ u \in Entry /\ Remaining(u) = Remaining(e) /\ u.closed = e.closed
  /\ IsEnded(u) = IsEnded(e) /\ (FinOK(e) => FinOK(u))

(* Nothing but the entry and the view of s changes.                        *)
Moves(s) ==
  /\ entry'[s] \in Entry /\ tr'[s] \in Transport
  /\ \A r \in StreamIds \ {s} : entry'[r] = entry[r] /\ tr'[r] = tr[r]

(* The records SendSide keeps of the streams                               *)
SideRecord == [waiting : Int, sent : Nat, phase : {"none", "open", "fin", "shut", "gone"},
               closed : BOOLEAN, ended : BOOLEAN]

(* What a step is to show: FinInv is kept, and SendSide allows the step.   *)
SideStep == FinInv' /\ [Side!Next]_sides

(* One entry is replaced by a good one.                                    *)
LEMMA MovesFin ==
  ASSUME FinInv, NEW s \in StreamIds, Moves(s), FinOK(entry'[s])
  PROVE  FinInv'
  BY DEF FinInv, FinOK, Moves, Remaining

(* One side changes, to what the new entry and the new view give.          *)
LEMMA MovesSide ==
  ASSUME NEW s \in StreamIds, Moves(s), NEW y, SideOf(entry'[s], tr'[s]) = y
  PROVE  Side!Becomes(s, y)
  <1>1. \A r \in StreamIds \ {s} : SideOf(entry'[r], tr'[r]) = SideOf(entry[r], tr[r])
    BY DEF Moves
  <1>2. sides' = [r \in StreamIds |-> SideOf(entry'[r], tr'[r])]
    BY DEF sides, SideOf, Remaining
  <1>3. \A r \in StreamIds : sides'[r] = [sides EXCEPT ![s] = y][r]
    BY <1>1, <1>2 DEF sides
  <1>4. QED
    BY <1>2, <1>3 DEF Side!Becomes, sides

(* An action of SendSide                                                   *)
LEMMA SideActs ==
  ASSUME NEW s \in StreamIds,
         \/ Side!Open(s) \/ Side!Write(s) \/ Side!End(s) \/ Side!Stop(s)
         \/ Side!Close(s) \/ Side!Forget(s) \/ Side!Discard(s)
         \/ \E n \in 0..sides[s].waiting : Side!Frame(s, n)
  PROVE  Side!Next
  BY DEF Side!Next

(* The step is none of SendSide.                                           *)
LEMMA MovesNothing ==
  ASSUME FinInv, NEW s \in StreamIds, Moves(s), SameQueue(entry[s], entry'[s]),
         tr'[s].wr = tr[s].wr, tr'[s].sent = tr[s].sent
  PROVE  SideStep
  <1>1. FinOK(entry'[s])
    BY DEF FinInv, FinOK, SameQueue
  <1>2. SideOf(entry'[s], tr'[s]) = SideOf(entry[s], tr[s])
    BY DEF SideOf, SameQueue, IsEnded
  <1>3. Side!Becomes(s, sides[s])
    BY <1>2, MovesSide DEF sides
  <1>4. UNCHANGED sides
    BY <1>3 DEF Side!Becomes, sides
  <1>5. QED
    BY <1>1, <1>4, MovesFin DEF SideStep

(* Nothing of the table and of ngtcp2's views changes.                     *)
LEMMA StutterSide ==
  ASSUME FinInv, UNCHANGED <<entry, tr>>
  PROVE  SideStep
  BY DEF SideStep, FinInv, sides, SideOf, Remaining

(* An entry with the same bytes to send and the same flags                 *)
LEMMA SameFieldsQueue ==
  ASSUME NEW e \in Entry, NEW u \in Entry, u.closed = e.closed,
         u.tx_len = e.tx_len, u.tx_offset = e.tx_offset,
         u.fin_pending = e.fin_pending, u.fin_sent = e.fin_sent
  PROVE  SameQueue(e, u)
  <1>1. Remaining(u) = Remaining(e)
    BY DEF Remaining
  <1>2. IsEnded(u) = IsEnded(e)
    BY DEF IsEnded
  <1>3. FinOK(e) => FinOK(u)
    BY <1>1 DEF FinOK
  <1>4. QED
    BY <1>1, <1>2, <1>3 DEF SameQueue

(* The operators of the receiving side and of the writer's flag            *)
LEMMA SameQueueOperators ==
  ASSUME NEW e \in Entry, NEW b \in BOOLEAN
  PROVE  /\ SameQueue(e, e)
         /\ SameQueue(e, LocalOpened(e, b))
         /\ SameQueue(e, SetWritable(e, b))
         /\ SameQueue(e, [e EXCEPT !.pending_open = FALSE])
         /\ SameQueue(e, Woken(e))
         /\ \A n \in 1..e.rx_len : SameQueue(e, Consumed(e, n))
         /\ \A n \in Nat : SameQueue(e, Received(e, n, b))
  <1>1. SameQueue(e, e)
    BY SameFieldsQueue
  <1>2. SameQueue(e, LocalOpened(e, b))
    <2>1. LocalOpened(e, b) \in Entry /\ SameTx(e, LocalOpened(e, b))
      BY SameTxOperators DEF SameTx
    <2>2. /\ LocalOpened(e, b).closed = e.closed
          /\ LocalOpened(e, b).fin_pending = e.fin_pending
          /\ LocalOpened(e, b).fin_sent = e.fin_sent
      BY DEF Entry, LocalOpened
    <2>3. QED
      BY <2>1, <2>2, SameFieldsQueue DEF SameTx
  <1>3. SameQueue(e, SetWritable(e, b))
    <2>1. SetWritable(e, b) \in Entry /\ SameTx(e, SetWritable(e, b))
      BY SameTxOperators DEF SameTx
    <2>2. /\ SetWritable(e, b).closed = e.closed
          /\ SetWritable(e, b).fin_pending = e.fin_pending
          /\ SetWritable(e, b).fin_sent = e.fin_sent
      BY DEF Entry, SetWritable
    <2>3. QED
      BY <2>1, <2>2, SameFieldsQueue DEF SameTx
  <1>4. SameQueue(e, [e EXCEPT !.pending_open = FALSE])
    <2> DEFINE u == [e EXCEPT !.pending_open = FALSE]
    <2>1. /\ u \in Entry /\ u.closed = e.closed /\ u.tx_len = e.tx_len
          /\ u.tx_offset = e.tx_offset /\ u.fin_pending = e.fin_pending
          /\ u.fin_sent = e.fin_sent
      BY DEF Entry
    <2> HIDE DEF u
    <2>2. SameQueue(e, u)
      BY <2>1, SameFieldsQueue
    <2>3. QED
      BY <2>2 DEF u
  <1>5. SameQueue(e, Woken(e))
    <2>1. Woken(e) \in Entry /\ SameTx(e, Woken(e))
      BY SameTxOperators DEF SameTx
    <2>2. /\ Woken(e).closed = e.closed
          /\ Woken(e).fin_pending = e.fin_pending
          /\ Woken(e).fin_sent = e.fin_sent
      BY DEF Entry, Woken
    <2>3. QED
      BY <2>1, <2>2, SameFieldsQueue DEF SameTx
  <1>6. ASSUME NEW n \in 1..e.rx_len PROVE SameQueue(e, Consumed(e, n))
    <2>1. Consumed(e, n) \in Entry /\ SameTx(e, Consumed(e, n))
      BY ConsumedFacts DEF SameTx
    <2>2. /\ Consumed(e, n).closed = e.closed
          /\ Consumed(e, n).fin_pending = e.fin_pending
          /\ Consumed(e, n).fin_sent = e.fin_sent
      BY DEF Entry, Consumed
    <2>3. QED
      BY <2>1, <2>2, SameFieldsQueue DEF SameTx
  <1>7. ASSUME NEW n \in Nat PROVE SameQueue(e, Received(e, n, b))
    <2>1. Received(e, n, b) \in Entry /\ SameTx(e, Received(e, n, b))
      BY ReceivedFacts DEF SameTx
    <2>2. /\ Received(e, n, b).closed = e.closed
          /\ Received(e, n, b).fin_pending = e.fin_pending
          /\ Received(e, n, b).fin_sent = e.fin_sent
      BY DEF Entry, Received
    <2>3. QED
      BY <2>1, <2>2, SameFieldsQueue DEF SameTx
  <1>8. QED
    BY <1>1, <1>2, <1>3, <1>4, <1>5, <1>6, <1>7

(* The entry a callback finds or makes                                     *)
LEMMA OpenEntryQueue ==
  ASSUME TxInv, NEW s \in StreamIds
  PROVE  SameQueue(entry[s], OpenEntry(s)) /\ entry[s] \in Entry /\ OpenEntry(s) \in Entry
  <1>1. entry[s] \in Entry /\ (~entry[s].present => entry[s] = NoEntry)
    BY DEF TxInv, TypeOK, AbsentInv
  <1>2. OpenEntry(s) \in Entry
    BY OpenEntryFacts DEF Replaces
  <1>3. SameQueue(NoEntry, EntryAlloc)
    BY EntryAllocFacts DEF SameQueue, IsEnded, FinOK, NoEntry, EntryAlloc, Remaining
  <1>4. QED
    BY <1>1, <1>2, <1>3 DEF OpenEntry, SameQueue

(* SameQueue is transitive.                                                *)
LEMMA SameQueueTrans ==
  ASSUME NEW e, NEW u, NEW w, SameQueue(e, u), SameQueue(u, w)
  PROVE  SameQueue(e, w)
  BY DEF SameQueue

(* A reset and a close leave the bytes, and end the stream.                *)
LEMMA ClosingOperators ==
  ASSUME NEW e \in Entry
  PROVE  \A u \in {LocallyReset(e), PeerReset(e), BothClosed(e)} :
           u \in Entry /\ u.closed /\ Remaining(u) = Remaining(e)
  <1>1. LocallyReset(e) \in Entry /\ LocallyReset(e).closed
        /\ Remaining(LocallyReset(e)) = Remaining(e)
    BY DEF Entry, LocallyReset, Remaining
  <1>2. PeerReset(e) \in Entry /\ PeerReset(e).closed
        /\ Remaining(PeerReset(e)) = Remaining(e)
    BY DEF Entry, PeerReset, Remaining
  <1>3. BothClosed(e) \in Entry /\ BothClosed(e).closed
        /\ Remaining(BothClosed(e)) = Remaining(e)
    BY DEF Entry, BothClosed, Remaining
  <1>4. QED
    BY <1>1, <1>2, <1>3

(* Only s changes, to an entry and a view of their types.                  *)
LEMMA PutMoves ==
  ASSUME TxInv, NEW s \in StreamIds, NEW u \in Entry, NEW v \in Transport,
         entry' = [entry EXCEPT ![s] = u] \/ (entry' = entry /\ u = entry[s]),
         tr' = [tr EXCEPT ![s] = v] \/ (tr' = tr /\ v = tr[s])
  PROVE  Moves(s) /\ entry'[s] = u /\ tr'[s] = v
  BY DEF TxInv, TypeOK, Moves

(* What SendSide holds of a stream with entry e and view t                 *)
LEMMA SideOfFields ==
  ASSUME NEW e \in Entry, NEW t \in Transport
  PROVE  /\ SideOf(e, t) \in SideRecord
         /\ SideOf(e, t).waiting = Remaining(e) /\ SideOf(e, t).sent = t.sent
         /\ SideOf(e, t).phase = t.wr /\ SideOf(e, t).closed = e.closed
         /\ SideOf(e, t).ended = IsEnded(e)
  <1>1. /\ Remaining(e) \in Int /\ t.sent \in Nat /\ e.closed \in BOOLEAN
        /\ t.wr \in {"none", "open", "fin", "shut", "gone"}
    BY DEF Entry, Transport, Remaining
  <1>2. QED
    BY <1>1 DEF SideOf, SideRecord, IsEnded

(* The same in the current state                                           *)
LEMMA SidesFields ==
  ASSUME TxInv, NEW s \in StreamIds
  PROVE  /\ sides[s] \in SideRecord
         /\ sides[s].waiting = Remaining(entry[s]) /\ sides[s].sent = tr[s].sent
         /\ sides[s].phase = tr[s].wr /\ sides[s].closed = entry[s].closed
         /\ sides[s].ended = IsEnded(entry[s])
  <1>1. entry[s] \in Entry /\ tr[s] \in Transport /\ sides[s] = SideOf(entry[s], tr[s])
    BY DEF TxInv, TypeOK, sides
  <1>2. QED
    BY <1>1, SideOfFields

(* y is what SendSide holds of s after the step.                           *)
LEMMA SideBecomes ==
  ASSUME NEW s \in StreamIds, Moves(s), NEW y \in SideRecord,
         y.waiting = Remaining(entry'[s]), y.sent = tr'[s].sent, y.phase = tr'[s].wr,
         y.closed = entry'[s].closed, y.ended = IsEnded(entry'[s])
  PROVE  Side!Becomes(s, y)
  <1> DEFINE z == SideOf(entry'[s], tr'[s])
  <1>1. /\ z \in SideRecord /\ z.waiting = y.waiting /\ z.sent = y.sent
        /\ z.phase = y.phase /\ z.closed = y.closed /\ z.ended = y.ended
    BY SideOfFields DEF Moves
  <1> HIDE DEF z
  <1>2. z = y
    BY SMT, <1>1 DEF SideRecord
  <1>3. QED
    BY <1>2, MovesSide DEF z

(* More bytes wait, and the stream may be ended.                           *)
LEMMA SideTakes ==
  ASSUME TxInv, NEW s \in StreamIds, Moves(s), NEW n \in WriteSizes \cup {0},
         tr'[s] = tr[s], Remaining(entry'[s]) = Remaining(entry[s]) + n,
         entry'[s].closed = entry[s].closed,
         IsEnded(entry'[s]) \/ ~IsEnded(entry[s])
  PROVE  Side!Next
  <1> DEFINE x == sides[s]
             m == x.waiting + n
  <1>1. /\ x \in SideRecord /\ x.waiting = Remaining(entry[s]) /\ x.sent = tr[s].sent
        /\ x.phase = tr[s].wr /\ x.closed = entry[s].closed
        /\ x.ended = IsEnded(entry[s])
    BY SidesFields
  <1>2. m \in Int /\ m = Remaining(entry'[s])
    BY <1>1, ConstantsAssumption DEF SideRecord
  <1> HIDE DEF m, x
  <1>3. CASE IsEnded(entry'[s])
    <2> DEFINE y == [x EXCEPT !.waiting = m, !.ended = TRUE]
    <2>1. /\ y \in SideRecord /\ y.waiting = m /\ y.sent = x.sent /\ y.phase = x.phase
          /\ y.closed = x.closed /\ y.ended = TRUE
      BY <1>1, <1>2 DEF SideRecord
    <2> HIDE DEF y
    <2>2. y.ended = IsEnded(entry'[s])
      BY <1>3, <2>1 DEF IsEnded
    <2>3. Side!Becomes(s, y)
      BY <1>1, <1>2, <2>1, <2>2, SideBecomes
    <2>4. Side!End(s)
      BY <2>3 DEF Side!End, y, x, m
    <2>5. QED
      BY <2>4, SideActs
  <1>4. CASE ~IsEnded(entry'[s])
    <2> DEFINE y == [x EXCEPT !.waiting = m]
    <2>1. /\ y \in SideRecord /\ y.waiting = m /\ y.sent = x.sent /\ y.phase = x.phase
          /\ y.closed = x.closed /\ y.ended = x.ended
      BY <1>1, <1>2 DEF SideRecord
    <2> HIDE DEF y
    <2>2. ~x.ended /\ y.ended = IsEnded(entry'[s])
      BY <1>1, <1>4, <2>1 DEF IsEnded
    <2>3. Side!Becomes(s, y)
      BY <1>1, <1>2, <2>1, <2>2, SideBecomes
    <2>4. Side!Write(s)
      BY <2>2, <2>3 DEF Side!Write, y, x, m
    <2>5. QED
      BY <2>4, SideActs
  <1>5. QED
    BY <1>3, <1>4

(* The stream is closed, its sending side left alone, reset or over.       *)
LEMMA SideCloses ==
  ASSUME TxInv, FinInv, NEW s \in StreamIds, Moves(s), entry'[s].closed,
         Remaining(entry'[s]) = Remaining(entry[s]), tr'[s].sent = tr[s].sent,
         \/ tr'[s].wr = tr[s].wr
         \/ tr[s].wr = "open" /\ tr'[s].wr = "shut"
         \/ tr[s].wr \in {"fin", "shut"} /\ tr'[s].wr = "gone"
  PROVE  SideStep
  <1> DEFINE x == sides[s]
             p == tr'[s].wr
             y == [x EXCEPT !.ended = TRUE, !.closed = TRUE, !.phase = p]
  <1>1. /\ x \in SideRecord /\ x.waiting = Remaining(entry[s]) /\ x.sent = tr[s].sent
        /\ x.phase = tr[s].wr
    BY SidesFields
  <1>2. p \in {"none", "open", "fin", "shut", "gone"}
    BY DEF Moves, Transport
  <1> HIDE DEF x, p
  <1>3. /\ y \in SideRecord /\ y.waiting = x.waiting /\ y.sent = x.sent /\ y.phase = p
        /\ y.closed = TRUE /\ y.ended = TRUE
    BY <1>1, <1>2 DEF SideRecord
  <1> HIDE DEF y
  <1>4. y.closed = entry'[s].closed /\ y.ended = IsEnded(entry'[s])
    BY <1>3 DEF IsEnded, Moves, Entry
  <1>5. Side!Becomes(s, y)
    BY <1>1, <1>3, <1>4, SideBecomes DEF p
  <1>6. ASSUME tr[s].wr \in {"fin", "shut"}, p = "gone" PROVE Side!Next
    <2>1. Side!Becomes(s, [x EXCEPT !.ended = TRUE, !.closed = TRUE, !.phase = "gone"])
      BY <1>5, <1>6 DEF y
    <2>2. Side!Forget(s)
      BY <1>1, <1>6, <2>1 DEF Side!Forget, x
    <2>3. QED
      BY <2>2, SideActs
  <1>7. ASSUME p = tr[s].wr \/ (tr[s].wr = "open" /\ p = "shut") PROVE Side!Next
    <2>1. p \in {x.phase, IF x.phase = "open" THEN "shut" ELSE x.phase}
      BY <1>1, <1>7
    <2>2. Side!Close(s)
      BY <1>5, <2>1 DEF Side!Close, y, x
    <2>3. QED
      BY <2>2, SideActs
  <1>8. FinInv'
    BY MovesFin DEF FinOK
  <1>9. QED
    BY <1>6, <1>7, <1>8 DEF SideStep, p

(* Only the phase of the sending side changes: ngtcp2 opens the stream, or *)
(* the peer stops it.                                                      *)
LEMMA SideTurns ==
  ASSUME TxInv, FinInv, NEW s \in StreamIds, Moves(s), SameQueue(entry[s], entry'[s]),
         tr'[s].sent = tr[s].sent,
         \/ tr[s].wr = "none" /\ tr'[s].wr \in {"open", "shut"}
         \/ tr[s].wr = "open" /\ tr'[s].wr = "shut"
  PROVE  SideStep
  <1> DEFINE x == sides[s]
             p == tr'[s].wr
             y == [x EXCEPT !.phase = p]
  <1>1. /\ x \in SideRecord /\ x.waiting = Remaining(entry[s]) /\ x.sent = tr[s].sent
        /\ x.phase = tr[s].wr /\ x.closed = entry[s].closed /\ x.ended = IsEnded(entry[s])
    BY SidesFields
  <1>2. p \in {"open", "shut"}
    OBVIOUS
  <1> HIDE DEF x, p
  <1>3. /\ y \in SideRecord /\ y.waiting = x.waiting /\ y.sent = x.sent /\ y.phase = p
        /\ y.closed = x.closed /\ y.ended = x.ended
    BY <1>1, <1>2 DEF SideRecord
  <1> HIDE DEF y
  <1>4. y.closed = entry'[s].closed /\ y.ended = IsEnded(entry'[s])
    BY <1>1, <1>3 DEF IsEnded, SameQueue
  <1>5. y.waiting = Remaining(entry'[s])
    BY <1>1, <1>3 DEF SameQueue
  <1>6. Side!Becomes(s, y)
    BY <1>1, <1>3, <1>4, <1>5, SideBecomes DEF p
  <1>7. ASSUME tr[s].wr = "none" PROVE Side!Next
    <2>1. x.phase = "none"
      BY <1>1, <1>7
    <2>2. Side!Open(s)
      BY <1>2, <1>6, <2>1 DEF Side!Open, y, x
    <2>3. QED
      BY <2>2, SideActs
  <1>8. ASSUME tr[s].wr = "open", p = "shut" PROVE Side!Next
    <2>1. Side!Becomes(s, [x EXCEPT !.phase = "shut"]) /\ x.phase = "open"
      BY <1>1, <1>6, <1>8 DEF y
    <2>2. Side!Stop(s)
      BY <2>1 DEF Side!Stop, x
    <2>3. QED
      BY <2>2, SideActs
  <1>9. FinOK(entry'[s])
    BY DEF FinInv, FinOK, SameQueue
  <1>10. QED
    BY <1>7, <1>8, <1>9, MovesFin DEF SideStep, p

(* ngtcp2 takes n bytes of an open stream, and the FIN of an ended one     *)
(* with the last.                                                          *)
LEMMA SideFrames ==
  ASSUME TxInv, NEW s \in StreamIds, Moves(s), NEW n \in Nat, NEW fin \in BOOLEAN,
         n <= Remaining(entry[s]), ~entry[s].closed, tr[s].wr = "open",
         fin <=> IsEnded(entry[s]) /\ n = Remaining(entry[s]),
         n > 0 \/ fin,
         tr'[s].sent = tr[s].sent + n, tr'[s].wr = IF fin THEN "fin" ELSE "open",
         Remaining(entry'[s]) = Remaining(entry[s]) - n,
         entry'[s].closed = entry[s].closed,
         IsEnded(entry'[s]) = IsEnded(entry[s])
  PROVE  Side!Next
  <1> DEFINE x == sides[s]
             p == tr'[s].wr
             w == x.waiting - n
             m == x.sent + n
             y == [x EXCEPT !.waiting = w, !.sent = m, !.phase = p]
  <1>1. /\ x \in SideRecord /\ x.waiting = Remaining(entry[s]) /\ x.sent = tr[s].sent
        /\ x.phase = tr[s].wr /\ x.closed = entry[s].closed /\ x.ended = IsEnded(entry[s])
    BY SidesFields
  <1>2. p \in {"open", "fin"}
    OBVIOUS
  <1>3. w \in Int /\ m \in Nat /\ w = Remaining(entry'[s]) /\ m = tr'[s].sent
        /\ n \in 0..x.waiting
    BY <1>1 DEF SideRecord
  <1>4. p = IF x.ended /\ n = x.waiting THEN "fin" ELSE "open"
    BY <1>1
  <1>5. n > 0 \/ (x.ended /\ n = x.waiting)
    BY <1>1
  <1> HIDE DEF x, p, w, m
  <1>6. /\ y \in SideRecord /\ y.waiting = w /\ y.sent = m /\ y.phase = p
        /\ y.closed = x.closed /\ y.ended = x.ended
    BY <1>1, <1>2, <1>3 DEF SideRecord
  <1> HIDE DEF y
  <1>7. Side!Becomes(s, y)
    BY <1>1, <1>3, <1>6, SideBecomes DEF p
  <1>8. Side!Becomes(s, [x EXCEPT !.waiting = w, !.sent = m,
                          !.phase = IF x.ended /\ n = x.waiting THEN "fin" ELSE "open"])
    BY <1>4, <1>7 DEF y
  <1>9. x.phase = "open" /\ ~x.closed
    BY <1>1
  <1>10. Side!Frame(s, n)
    BY <1>5, <1>8, <1>9 DEF Side!Frame, x, w, m
  <1>11. QED
    BY <1>3, <1>10, SideActs DEF x

(* What waits behind the end of the sending side is given up.              *)
LEMMA SideDiscards ==
  ASSUME TxInv, NEW s \in StreamIds, Moves(s), tr' = tr, tr[s].wr \in {"fin", "shut"},
         Remaining(entry'[s]) = 0, entry'[s].closed = entry[s].closed,
         IsEnded(entry'[s])
  PROVE  Side!Next
  <1> DEFINE x == sides[s]
             m == Remaining(entry'[s])
             y == [x EXCEPT !.waiting = m, !.ended = TRUE]
  <1>1. /\ x \in SideRecord /\ x.sent = tr[s].sent
        /\ x.phase = tr[s].wr /\ x.closed = entry[s].closed
    BY SidesFields
  <1>m. m \in Int /\ m = 0
    OBVIOUS
  <1> HIDE DEF x, m
  <1>2. /\ y \in SideRecord /\ y.waiting = m /\ y.sent = x.sent /\ y.phase = x.phase
        /\ y.closed = x.closed /\ y.ended = TRUE
    BY <1>1, <1>m DEF SideRecord
  <1> HIDE DEF y
  <1>3. y.ended = IsEnded(entry'[s])
    BY <1>2 DEF IsEnded
  <1>4. Side!Becomes(s, y)
    BY <1>1, <1>2, <1>3, SideBecomes DEF m
  <1>5. Side!Becomes(s, [x EXCEPT !.waiting = 0, !.ended = TRUE])
    BY <1>m, <1>4 DEF y
  <1>6. Side!Discard(s)
    BY <1>1, <1>5 DEF Side!Discard, x
  <1>7. QED
    BY <1>6, SideActs

(* update_tx_entry takes the bytes ngtcp2 reports out of the buffer and    *)
(* leaves the end of the stream as it is: a FIN still to come or marked as *)
(* sent.                                                                   *)
LEMMA UpdateTxQueue ==
  ASSUME NEW e \in Entry, NEW w \in Int, NEW f \in BOOLEAN, NEW p \in BOOLEAN,
         e.tx_offset <= e.tx_len, w <= Remaining(e)
  PROVE  LET u == UpdateTx(e, w, f, p) IN
         /\ u \in Entry /\ u.closed = e.closed /\ IsEnded(u) = IsEnded(e)
         /\ Remaining(u) = Remaining(e) - IF w > 0 THEN w ELSE 0
         /\ FinOK(e) => FinOK(u)
  <1> DEFINE a == Taken(e, w)
             b == FinMarked(a, f /\ p)
             c == Released(b)
             d == Woken(c)
  <1>1. /\ a \in Entry /\ a.tx_len = e.tx_len /\ a.tx_offset <= a.tx_len
        /\ a.tx_offset = e.tx_offset + IF w > 0 THEN w ELSE 0
    BY TakenFacts
  <1>2. a.closed = e.closed /\ a.fin_pending = e.fin_pending /\ a.fin_sent = e.fin_sent
    BY DEF Taken, Entry
  <1>3. Remaining(a) <= Remaining(e)
    BY <1>1, FieldTypes DEF Remaining
  <1> HIDE DEF a
  <1>4. b \in Entry /\ b.tx_len = a.tx_len /\ b.tx_offset = a.tx_offset
    BY <1>1, SameTxOperators DEF SameTx
  <1>5. /\ b.closed = a.closed /\ IsEnded(b) = IsEnded(a)
        /\ \/ b.fin_pending = a.fin_pending /\ b.fin_sent = a.fin_sent
           \/ a.tx_offset >= a.tx_len
    BY <1>1 DEF FinMarked, Entry, IsEnded
  <1> HIDE DEF b
  <1>6. FinOK(e) => FinOK(b)
    <2>1. a.tx_offset >= a.tx_len => Remaining(b) <= 0
      BY <1>1, <1>4, FieldTypes DEF Remaining
    <2>2. Remaining(b) <= Remaining(e)
      BY <1>3, <1>4 DEF Remaining
    <2>3. Remaining(b) \in Int /\ Remaining(e) \in Int
      BY <1>4, FieldTypes DEF Remaining
    <2>4. CASE a.tx_offset >= a.tx_len
      BY <2>1, <2>3, <2>4 DEF FinOK
    <2>5. CASE b.fin_pending = a.fin_pending /\ b.fin_sent = a.fin_sent
      BY <1>2, <1>5, <2>2, <2>3, <2>5 DEF FinOK
    <2>6. QED
      BY <1>5, <2>4, <2>5
  <1>7. c \in Entry /\ Remaining(c) = Remaining(b)
    BY <1>1, <1>4, ReleasedFacts
  <1>8. c.closed = b.closed /\ c.fin_pending = b.fin_pending /\ c.fin_sent = b.fin_sent
    BY <1>4 DEF Released, Entry
  <1> HIDE DEF c
  <1>9. SameQueue(b, c)
    BY <1>7, <1>8 DEF SameQueue, IsEnded, FinOK
  <1>10. SameQueue(c, d)
    BY <1>7, SameQueueOperators
  <1>11. d = UpdateTx(e, w, f, p)
    BY DEF UpdateTx, a, b, c, d
  <1> HIDE DEF d
  <1>12. IsEnded(a) = IsEnded(e)
    BY <1>2 DEF IsEnded
  <1>13. /\ Remaining(d) = Remaining(e) - IF w > 0 THEN w ELSE 0
         /\ d \in Entry
    BY <1>11, UpdateTxFacts
  <1>14. /\ d.closed = e.closed /\ IsEnded(d) = IsEnded(e)
         /\ FinOK(e) => FinOK(d)
    BY <1>2, <1>5, <1>6, <1>9, <1>10, <1>12 DEF SameQueue
  <1>15. QED
    BY <1>11, <1>13, <1>14

(* ngtcp2 has not opened the stream whose id it gives next.                *)
LEMMA NextUnopened ==
  ASSUME TxInv, NEW bidi \in BOOLEAN, tNext[bidi] \in StreamIds
  PROVE  tr[tNext[bidi]] = NoTransport
  <1>1. tNext[bidi] \in Nat /\ tNext[bidi] >= tNext[bidi]
    BY DEF TxInv, TypeOK
  <1>2. QED
    BY <1>1 DEF TxInv, FreshInv

(* ngtcp2 opens the stream.                                                *)
LEMMA SideOpens ==
  ASSUME TxInv, FinInv, NEW s \in StreamIds, tr[s] = NoTransport,
         tr' = [tr EXCEPT ![s] = Opened(s)], NEW u, SameQueue(entry[s], u),
         entry' = [entry EXCEPT ![s] = u] \/ (entry' = entry /\ u = entry[s])
  PROVE  SideStep
  <1>1. /\ tr[s].wr = "none" /\ Opened(s).wr \in {"open", "shut"}
        /\ Opened(s).sent = tr[s].sent
    BY DEF Opened, NoTransport
  <1>2. Opened(s) \in Transport
    BY OpenedFacts, ConstantsAssumption
  <1>3. Moves(s) /\ entry'[s] = u /\ tr'[s] = Opened(s)
    BY <1>2, PutMoves DEF SameQueue
  <1>4. QED
    BY <1>1, <1>3, SideTurns

(* A step that replaces one entry by one SendSide cannot tell from it, and *)
(* leaves the sending side of the stream.                                  *)
LEMMA QuietPut ==
  ASSUME TxInv, FinInv, NEW s \in StreamIds, NEW u, SameQueue(entry[s], u),
         entry' = [entry EXCEPT ![s] = u], NEW v \in Transport,
         v.wr = tr[s].wr, v.sent = tr[s].sent,
         tr' = [tr EXCEPT ![s] = v] \/ (tr' = tr /\ v = tr[s])
  PROVE  SideStep
  <1>1. Moves(s) /\ entry'[s] = u /\ tr'[s] = v
    BY PutMoves DEF SameQueue
  <1>2. QED
    BY <1>1, MovesNothing

(* The calls of the application are steps of SendSide.                     *)
LEMMA AppCallSide == TxInv /\ FinInv /\ AppCall => SideStep
  <1> SUFFICES ASSUME TxInv, FinInv, AppCall PROVE SideStep
    OBVIOUS
  <1>t. \A s \in StreamIds : entry[s] \in Entry /\ tr[s] \in Transport
    BY DEF TxInv, TypeOK
  <1>1. ASSUME NEW bidi \in BOOLEAN, OpenNow(bidi) PROVE SideStep
    <2> DEFINE id == tNext[bidi]
               e == OpenEntry(id)
               u == LocalOpened(e, FALSE)
    <2>1. id \in StreamIds /\ entry' = [entry EXCEPT ![id] = u]
          /\ tr' = [tr EXCEPT ![id] = Opened(id)]
      BY <1>1 DEF OpenNow, FinishOpen, PutEntry, TransportOpen
    <2>2. tr[id] = NoTransport
      BY <2>1, NextUnopened
    <2> HIDE DEF id
    <2>3. SameQueue(entry[id], u)
      BY <2>1, OpenEntryQueue, SameQueueOperators, SameQueueTrans
    <2> HIDE DEF u
    <2>4. QED
      BY <2>1, <2>2, <2>3, SideOpens
  <1>2. ASSUME NEW bidi \in BOOLEAN, OpenBlocked(bidi) PROVE SideStep
    <2> DEFINE id == EnsuredNextId(bidi)
               u == LocalOpened(OpenEntry(id), TRUE)
    <2>1. id \in StreamIds /\ entry' = [entry EXCEPT ![id] = u] /\ tr' = tr
      BY <1>2 DEF OpenBlocked, FinishOpen, PutEntry, tVars
    <2> HIDE DEF id
    <2>2. SameQueue(entry[id], u)
      BY <2>1, OpenEntryQueue, SameQueueOperators, SameQueueTrans
    <2> HIDE DEF u
    <2>3. QED
      BY <1>t, <2>1, <2>2, QuietPut
  <1>3. ASSUME NEW s \in StreamIds, NEW n \in WriteSizes, Write(s, n) PROVE SideStep
    <2> DEFINE e == entry[s]
               u == Appended(e, n)
    <2>1. /\ ~e.closed /\ ~e.fin_sent /\ ~e.fin_pending
          /\ entry' = [entry EXCEPT ![s] = u] /\ tr' = tr
      BY <1>3 DEF Write, PutEntry, tVars
    <2>2. e \in Entry /\ n \in Nat
      BY <1>t, ConstantsAssumption
    <2> HIDE DEF e
    <2>3. /\ u \in Entry /\ u.tx_len = e.tx_len + n /\ u.tx_offset = e.tx_offset
      BY <2>2, AppendFacts
    <2>4. /\ u.closed = e.closed /\ u.fin_pending = e.fin_pending
          /\ u.fin_sent = e.fin_sent
      BY <2>2 DEF Appended, Entry
    <2> HIDE DEF u
    <2>5. Remaining(u) = Remaining(e) + n
      BY <2>2, <2>3, FieldTypes DEF Remaining
    <2>6. Moves(s) /\ entry'[s] = u /\ tr'[s] = tr[s]
      BY <1>t, <2>1, <2>3, PutMoves
    <2>7. ~IsEnded(e) /\ FinOK(u)
      BY <2>1, <2>4 DEF IsEnded, FinOK
    <2>8. Side!Next
      BY <2>4, <2>5, <2>6, <2>7, SideTakes DEF e
    <2>9. QED
      BY <2>6, <2>7, <2>8, MovesFin DEF SideStep
  <1>4. ASSUME NEW s \in StreamIds, NEW n \in WriteSizes \cup {0}, End(s, n)
        PROVE  SideStep
    <2> DEFINE e == entry[s]
               u == Ended(e, n)
    <2>1. entry' = [entry EXCEPT ![s] = u] /\ tr' = tr
      BY <1>4 DEF End, PutEntry, tVars
    <2>2. e \in Entry /\ n \in Nat
      BY <1>t, ConstantsAssumption
    <2> HIDE DEF e
    <2>3. /\ u \in Entry /\ u.tx_len = e.tx_len + n /\ u.tx_offset = e.tx_offset
      BY <2>2, AppendFacts
    <2>4. u.closed = e.closed /\ u.fin_pending
      BY <2>2 DEF Ended, Entry
    <2> HIDE DEF u
    <2>5. Remaining(u) = Remaining(e) + n
      BY <2>2, <2>3, FieldTypes DEF Remaining
    <2>6. Moves(s) /\ entry'[s] = u /\ tr'[s] = tr[s]
      BY <1>t, <2>1, <2>3, PutMoves
    <2>7. IsEnded(u) /\ FinOK(u)
      BY <2>4 DEF IsEnded, FinOK
    <2>8. Side!Next
      BY <2>4, <2>5, <2>6, <2>7, SideTakes DEF e
    <2>9. QED
      BY <2>6, <2>7, <2>8, MovesFin DEF SideStep
  <1>5. ASSUME NEW s \in StreamIds, NEW n \in 1..MaxRx, Read(s, n) PROVE SideStep
    <2>1. /\ n \in 1..entry[s].rx_len /\ tr' = tr
          /\ entry' = [entry EXCEPT ![s] = Consumed(entry[s], n)]
      BY <1>5 DEF Read, PutEntry, tVars
    <2>2. SameQueue(entry[s], Consumed(entry[s], n))
      BY <1>t, <2>1, SameQueueOperators
    <2>3. QED
      BY <1>t, <2>1, <2>2, QuietPut
  <1>6. ASSUME NEW s \in StreamIds, Reset(s) PROVE SideStep
    <2> DEFINE u == LocallyReset(entry[s])
               v == Shutdown(tr[s])
    <2>1. /\ entry' = [entry EXCEPT ![s] = u]
          /\ tr' = tr \/ tr' = [tr EXCEPT ![s] = v]
      BY <1>6 DEF Reset, PutEntry
    <2>2. u \in Entry /\ u.closed /\ Remaining(u) = Remaining(entry[s])
      BY <1>t, ClosingOperators
    <2>3. /\ v \in Transport /\ v.sent = tr[s].sent
          /\ v.wr = tr[s].wr \/ (tr[s].wr = "open" /\ v.wr = "shut")
      BY <1>t DEF Shutdown, Transport
    <2> HIDE DEF u, v
    <2>4. CASE tr' = tr
      <3>1. Moves(s) /\ entry'[s] = u /\ tr'[s] = tr[s]
        BY <1>t, <2>1, <2>2, <2>4, PutMoves
      <3>2. QED
        BY <2>2, <3>1, SideCloses
    <2>5. CASE tr' = [tr EXCEPT ![s] = v]
      <3>1. Moves(s) /\ entry'[s] = u /\ tr'[s] = v
        BY <2>1, <2>2, <2>3, <2>5, PutMoves
      <3>2. QED
        BY <2>2, <2>3, <3>1, SideCloses
    <2>6. QED
      BY <2>1, <2>4, <2>5
  <1>7. CASE Close \/ DrainClose \/ DrainBegin
    BY <1>7, StutterSide DEF Close, DrainClose, DrainBegin, table, tVars
  <1>8. QED
    BY <1>1, <1>2, <1>3, <1>4, <1>5, <1>6, <1>7 DEF AppCall

(* The callbacks are steps of SendSide.                                    *)
LEMMA PacketSide == TxInv /\ FinInv /\ Packet => SideStep
  <1> SUFFICES ASSUME TxInv, FinInv, Packet PROVE SideStep
    OBVIOUS
  <1>t. \A s \in StreamIds : entry[s] \in Entry /\ tr[s] \in Transport
    BY DEF TxInv, TypeOK
  <1>1. ASSUME NEW s \in StreamIds, StreamOpenCb(s) PROVE SideStep
    <2> DEFINE e == OpenEntry(s)
               u == SetWritable(e, Bidi(s))
    <2>1. /\ entry' = [entry EXCEPT ![s] = u] /\ tr[s].wr = "none"
          /\ tr' = [tr EXCEPT ![s] = Opened(s)]
      BY <1>1 DEF StreamOpenCb, PutEntry
    <2>2. tr[s] = NoTransport /\ Bidi(s) \in BOOLEAN
      BY <2>1 DEF TxInv, UnopenedInv, Bidi
    <2>3. SameQueue(entry[s], e) /\ e \in Entry
      BY OpenEntryQueue
    <2> HIDE DEF e
    <2>4. SameQueue(entry[s], u)
      BY <2>2, <2>3, SameQueueOperators, SameQueueTrans
    <2> HIDE DEF u
    <2>5. QED
      BY <2>1, <2>2, <2>4, SideOpens
  <1>2. ASSUME NEW s \in StreamIds, NEW n \in 0..MaxRx, NEW fin \in BOOLEAN,
               RecvStreamDataCb(s, n, fin)
        PROVE  SideStep
    <2> DEFINE e == OpenEntry(s)
               u == Received(e, n, fin)
               v == ReadDone(tr[s])
    <2>1. /\ entry' = [entry EXCEPT ![s] = u]
          /\ tr' = tr \/ tr' = [tr EXCEPT ![s] = v]
      BY <1>2 DEF RecvStreamDataCb, PutEntry
    <2>2. SameQueue(entry[s], e) /\ e \in Entry /\ n \in Nat
      BY OpenEntryQueue
    <2> HIDE DEF e
    <2>3. SameQueue(entry[s], u)
      BY <2>2, SameQueueOperators, SameQueueTrans
    <2>4. v \in Transport /\ v.wr = tr[s].wr /\ v.sent = tr[s].sent
      BY <1>t DEF ReadDone, Transport
    <2> HIDE DEF u, v
    <2>5. CASE tr' = tr
      BY <1>t, <2>1, <2>3, <2>5, QuietPut
    <2>6. CASE tr' = [tr EXCEPT ![s] = v]
      BY <2>1, <2>3, <2>4, <2>6, QuietPut
    <2>7. QED
      BY <2>1, <2>5, <2>6
  <1>3. ASSUME NEW s \in StreamIds, StreamResetCb(s) PROVE SideStep
    <2> DEFINE e == OpenEntry(s)
               u == PeerReset(e)
               v == ReadDone(tr[s])
    <2>1. entry' = [entry EXCEPT ![s] = u] /\ tr' = [tr EXCEPT ![s] = v]
      BY <1>3 DEF StreamResetCb, PutEntry
    <2>2. e \in Entry /\ Remaining(e) = Remaining(entry[s])
      BY OpenEntryQueue DEF SameQueue
    <2> HIDE DEF e
    <2>3. u \in Entry /\ u.closed /\ Remaining(u) = Remaining(entry[s])
      BY <2>2, ClosingOperators
    <2>4. v \in Transport /\ v.wr = tr[s].wr /\ v.sent = tr[s].sent
      BY <1>t DEF ReadDone, Transport
    <2> HIDE DEF u, v
    <2>5. Moves(s) /\ entry'[s] = u /\ tr'[s] = v
      BY <2>1, <2>3, <2>4, PutMoves
    <2>6. QED
      BY <2>3, <2>4, <2>5, SideCloses
  <1>4. ASSUME NEW s \in StreamIds, StreamCloseCb(s) PROVE SideStep
    <2> DEFINE e == OpenEntry(s)
               u == BothClosed(e)
               v == [tr[s] EXCEPT !.wr = "gone"]
    <2>1. /\ entry' = [entry EXCEPT ![s] = u] /\ tr' = [tr EXCEPT ![s] = v]
          /\ tr[s].wr \in {"fin", "shut"}
      BY <1>4 DEF StreamCloseCb, PutEntry
    <2>2. e \in Entry /\ Remaining(e) = Remaining(entry[s])
      BY OpenEntryQueue DEF SameQueue
    <2> HIDE DEF e
    <2>3. u \in Entry /\ u.closed /\ Remaining(u) = Remaining(entry[s])
      BY <2>2, ClosingOperators
    <2>4. v \in Transport /\ v.wr = "gone" /\ v.sent = tr[s].sent
      BY <1>t DEF Transport
    <2> HIDE DEF u, v
    <2>5. Moves(s) /\ entry'[s] = u /\ tr'[s] = v
      BY <2>1, <2>3, <2>4, PutMoves
    <2>6. QED
      BY <2>1, <2>3, <2>4, <2>5, SideCloses
  <1>5. ASSUME NEW s \in StreamIds, AckedStreamDataCb(s) PROVE SideStep
    <2> DEFINE u == SetWritable(entry[s], TRUE)
    <2>1. /\ entry' = [entry EXCEPT ![s] = u] \/ UNCHANGED entry
          /\ tr' = tr
      BY <1>5 DEF AckedStreamDataCb, PutEntry, table
    <2>2. SameQueue(entry[s], u)
      BY <1>t, SameQueueOperators
    <2> HIDE DEF u
    <2>3. QED
      BY <1>t, <2>1, <2>2, QuietPut, StutterSide
  <1>6. ASSUME NEW s \in StreamIds, StopSending(s) PROVE SideStep
    <2> DEFINE v == [tr[s] EXCEPT !.wr = "shut"]
    <2>1. entry' = entry /\ tr' = [tr EXCEPT ![s] = v] /\ tr[s].wr = "open"
      BY <1>6 DEF StopSending, table
    <2>2. v \in Transport /\ v.wr = "shut" /\ v.sent = tr[s].sent
      BY <1>t DEF Transport
    <2> HIDE DEF v
    <2>3. Moves(s) /\ entry'[s] = entry[s] /\ tr'[s] = v
      BY <1>t, <2>1, <2>2, PutMoves
    <2>4. SameQueue(entry[s], entry'[s])
      BY <1>t, <2>3, SameQueueOperators
    <2>5. QED
      BY <2>1, <2>2, <2>3, <2>4, SideTurns
  <1>7. ASSUME NEW s \in StreamIds, GrantCredit(s) PROVE SideStep
    <2> DEFINE v == [tr[s] EXCEPT !.credit = MaxCredit]
    <2>1. entry' = entry /\ tr' = [tr EXCEPT ![s] = v]
      BY <1>7 DEF GrantCredit, table
    <2>2. v \in Transport /\ v.wr = tr[s].wr /\ v.sent = tr[s].sent
      BY <1>t, ConstantsAssumption DEF Transport
    <2> HIDE DEF v
    <2>3. Moves(s) /\ entry'[s] = entry[s] /\ tr'[s] = v
      BY <1>t, <2>1, <2>2, PutMoves
    <2>4. SameQueue(entry[s], entry'[s])
      BY <1>t, <2>3, SameQueueOperators
    <2>5. QED
      BY <2>2, <2>3, <2>4, MovesNothing
  <1>8. CASE WindowOpens \/ (\E bidi \in BOOLEAN : RaiseLimit(bidi)) \/ PeerClose
    BY <1>8, StutterSide DEF WindowOpens, RaiseLimit, PeerClose, table
  <1>9. QED
    BY <1>1, <1>2, <1>3, <1>4, <1>5, <1>6, <1>7, <1>8 DEF Packet

(* Every iteration of the transmit loop is a step of SendSide.             *)
LEMMA DrainSide == TxInv /\ FinInv /\ DrainStep => SideStep
  <1> SUFFICES ASSUME TxInv, FinInv, DrainStep PROVE SideStep
    OBVIOUS
  <1>t. \A s \in StreamIds : entry[s] \in Entry /\ tr[s] \in Transport
    BY DEF TxInv, TypeOK
  <1>f. \A s \in StreamIds : FinOK(entry[s])
    BY DEF FinInv, FinOK
  <1>1. ASSUME NEW s \in StreamIds, NEW n \in 0..MaxBytes, NEW more \in BOOLEAN,
               WriteFrame(s, n, more)
        PROVE  SideStep
    <2> DEFINE e == entry[s]
               fin == e.fin_pending /\ n = Remaining(e)
               u == UpdateTx(e, n, e.fin_pending, ~more)
               v == Framed(tr[s], n, fin)
    <2>1. /\ HasTx(e) /\ tr[s].wr = "open" /\ n <= Remaining(e) /\ n <= tr[s].credit
          /\ n > 0 \/ n = Remaining(e)
          /\ tr' = [tr EXCEPT ![s] = v] /\ entry' = [entry EXCEPT ![s] = u]
      BY <1>1 DEF WriteFrame, Target, Picks, ApplyUpdate
    <2>2. /\ e \in Entry /\ e.tx_offset <= e.tx_len /\ e.fin_pending \in BOOLEAN
          /\ n \in Nat /\ n \in Int /\ (~more) \in BOOLEAN /\ tr[s] \in Transport
      BY <1>t, OpenEntryFacts, ConstantsAssumption DEF Entry
    <2>3. FinOK(e)
      BY <1>f
    <2> HIDE DEF e
    <2>4. /\ u \in Entry /\ u.closed = e.closed /\ IsEnded(u) = IsEnded(e)
          /\ Remaining(u) = Remaining(e) - n /\ FinOK(u)
      <3>1. /\ u \in Entry /\ u.closed = e.closed /\ IsEnded(u) = IsEnded(e)
            /\ Remaining(u) = Remaining(e) - IF n > 0 THEN n ELSE 0
            /\ FinOK(e) => FinOK(u)
        BY <2>1, <2>2, UpdateTxQueue
      <3>2. Remaining(e) \in Int
        BY <2>2, FieldTypes DEF Remaining
      <3> HIDE DEF u
      <3>3. QED
        BY <2>2, <2>3, <3>1, <3>2
    <2>5. ~e.closed /\ (Remaining(e) = 0 => e.fin_pending)
      BY <2>1, <2>2, FieldTypes DEF HasTx, Remaining
    <2>6. Remaining(e) \in Nat
      BY <2>2, FieldTypes DEF Remaining
    <2>7. fin <=> IsEnded(e) /\ n = Remaining(e)
      <3>1. IsEnded(e) => e.fin_pending
        BY <2>3, <2>5, <2>6 DEF IsEnded, FinOK
      <3>2. QED
        BY <3>1 DEF IsEnded
    <2>8. fin \in BOOLEAN /\ (n > 0 \/ fin)
      BY <2>1, <2>2, <2>5
    <2> HIDE DEF fin, u
    <2>9. v \in Transport /\ v.sent = tr[s].sent + n
      BY <2>1, <2>2, <2>8, FramedFacts
    <2>10. v.wr = IF fin THEN "fin" ELSE "open"
      BY <2>1, <2>2 DEF Framed, Transport
    <2> HIDE DEF v
    <2>11. Moves(s) /\ entry'[s] = u /\ tr'[s] = v
      BY <2>1, <2>4, <2>9, PutMoves
    <2>12. Side!Next
      BY <2>1, <2>2, <2>4, <2>5, <2>7, <2>8, <2>9, <2>10, <2>11, SideFrames DEF e
    <2>13. QED
      BY <2>4, <2>11, <2>12, MovesFin DEF SideStep
  <1>2. ASSUME NEW s \in StreamIds, WriteOther(s) \/ WriteNothing(s) \/ WriteDataBlocked(s)
        PROVE  SideStep
    <2> DEFINE e == entry[s]
    <2>1. /\ tr' = tr
          /\ \E p \in BOOLEAN :
               entry' = [entry EXCEPT ![s] = UpdateTx(e, -1, e.fin_pending, p)]
      BY <1>2 DEF WriteOther, WriteNothing, WriteDataBlocked, ApplyUpdate, tVars
    <2>2. PICK p \in BOOLEAN :
            entry' = [entry EXCEPT ![s] = UpdateTx(e, -1, e.fin_pending, p)]
      BY <2>1
    <2> DEFINE u == UpdateTx(e, -1, e.fin_pending, p)
    <2>3. e \in Entry /\ e.tx_offset <= e.tx_len /\ e.fin_pending \in BOOLEAN
      BY <1>t, OpenEntryFacts DEF Entry
    <2>4. SameQueue(e, u)
      <3>1. -1 \in Int /\ -1 <= Remaining(e) /\ Remaining(e) \in Int
        BY <2>3, FieldTypes DEF Remaining
      <3> HIDE DEF e
      <3>2. /\ u \in Entry /\ u.closed = e.closed /\ IsEnded(u) = IsEnded(e)
            /\ Remaining(u) = Remaining(e) - (IF -1 > 0 THEN -1 ELSE 0)
            /\ FinOK(e) => FinOK(u)
        BY <2>3, <3>1, UpdateTxQueue
      <3> HIDE DEF u
      <3>3. QED
        BY <3>1, <3>2 DEF SameQueue
    <2> HIDE DEF u
    <2>5. QED
      BY <1>t, <2>1, <2>2, <2>4, QuietPut DEF u
  <1>3. ASSUME NEW s \in StreamIds, WriteShut(s) PROVE SideStep
    <2> DEFINE u == DiscardTx(entry[s])
    <2>1. /\ entry' = [entry EXCEPT ![s] = u] /\ tr' = tr
          /\ tr[s].wr \in {"fin", "shut"}
      BY <1>3 DEF WriteShut, Shut, tVars
    <2>2. u \in Entry /\ Remaining(u) = 0
      BY <1>t, DiscardTxFacts DEF Remaining
    <2>3. u.closed = entry[s].closed /\ u.fin_sent
      BY <1>t DEF DiscardTx, Entry
    <2> HIDE DEF u
    <2>4. Moves(s) /\ entry'[s] = u
      BY <1>t, <2>1, <2>2, PutMoves
    <2>5. IsEnded(u) /\ FinOK(u)
      BY <2>2, <2>3 DEF IsEnded, FinOK
    <2>6. Side!Next
      BY <2>1, <2>2, <2>3, <2>4, <2>5, SideDiscards
    <2>7. QED
      BY <2>4, <2>5, <2>6, MovesFin DEF SideStep
  <1>4. ASSUME NEW s \in StreamIds, OpenPending(s) PROVE SideStep
    <2> DEFINE id == tNext[Bidi(s)]
               u == [entry[s] EXCEPT !.pending_open = FALSE]
    <2>1. /\ id \in StreamIds /\ tr' = [tr EXCEPT ![id] = Opened(id)]
          /\ \/ id = s /\ entry' = [entry EXCEPT ![s] = u]
             \/ entry' = entry
      BY <1>4 DEF OpenPending, TransportOpen
    <2>2. tr[id] = NoTransport
      BY <2>1, NextUnopened DEF Bidi
    <2> HIDE DEF id
    <2>3. SameQueue(entry[s], u) /\ SameQueue(entry[id], entry[id])
      BY <1>t, <2>1, SameQueueOperators
    <2> HIDE DEF u
    <2>4. QED
      BY <2>1, <2>2, <2>3, SideOpens
  <1>5. CASE WriteConnOnly \/ WriteClosing \/ WriteFatal
    BY <1>5, StutterSide DEF WriteConnOnly, WriteClosing, WriteFatal, table, tVars
  <1>6. QED
    BY <1>1, <1>2, <1>3, <1>4, <1>5 DEF DrainStep

(* One step, in all                                                        *)
LEMMA SideNext == TxInv /\ FinInv /\ [Next]_vars => SideStep
  BY AppCallSide, PacketSide, DrainSide, StutterSide DEF Next, vars, table, tVars

(* Nothing is open and nothing waits.                                      *)
LEMMA InitSide == Init => FinInv /\ Side!Init
  <1> SUFFICES ASSUME Init PROVE FinInv /\ Side!Init
    OBVIOUS
  <1>1. /\ NoEntry.tx_len = 0 /\ NoEntry.tx_offset = 0 /\ ~NoEntry.fin_sent
        /\ ~NoEntry.fin_pending /\ NoEntry.closed = FALSE
        /\ NoTransport.wr = "none" /\ NoTransport.sent = 0
    BY DEF NoEntry, NoTransport
  <1>2. FinInv
    BY <1>1 DEF Init, FinInv
  <1>3. SideOf(NoEntry, NoTransport) = Side!Fresh
    <2> DEFINE z == SideOf(NoEntry, NoTransport)
               x == Side!Fresh
    <2>1. /\ z \in SideRecord /\ z.waiting = 0 /\ z.sent = 0 /\ z.phase = "none"
          /\ z.closed = FALSE /\ z.ended = IsEnded(NoEntry)
      BY <1>1, NoEntryFacts, NoTransportFacts, SideOfFields DEF Remaining
    <2>2. z.ended = FALSE
      BY <1>1, <2>1 DEF IsEnded
    <2>3. /\ x \in SideRecord /\ x.waiting = 0 /\ x.sent = 0 /\ x.phase = "none"
          /\ x.closed = FALSE /\ x.ended = FALSE
      BY DEF Side!Fresh, SideRecord
    <2> HIDE DEF x, z
    <2>4. z = x
      BY SMT, <2>1, <2>2, <2>3 DEF SideRecord
    <2>5. QED
      BY <2>4 DEF x, z
  <1>4. \A s \in StreamIds : entry[s] = NoEntry /\ tr[s] = NoTransport
    BY DEF Init
  <1>5. Side!Init
    BY <1>3, <1>4 DEF Side!Init, sides
  <1>6. QED
    BY <1>2, <1>5

(* Bytes that wait behind a FIN that is marked as sent have a FIN of their *)
(* own to come, unless the stream is closed.                               *)
THEOREM FinInvariant == Spec => [](TxInv /\ FinInv)
  <1>1. Init => FinInv
    BY InitSide
  <1>2. TxInv /\ FinInv /\ [Next]_vars => FinInv'
    BY SideNext DEF SideStep
  <1>3. QED
    BY <1>1, <1>2, TxInvariant, PTL DEF Spec

(* The table, its callbacks and the transmit loop keep the promises of     *)
(* SendSide to every stream: whatever the calls, the packets and the       *)
(* answers of ngtcp2, a byte leaves once, in time, or is given up for a    *)
(* reason.                                                                 *)
THEOREM SendSideImplemented == Spec => ImplementsSendSide
  <1>1. Init => Side!Init
    BY InitSide
  <1>2. TxInv /\ FinInv /\ [Next]_vars => [Side!Next]_sides
    BY SideNext DEF SideStep
  <1>3. QED
    BY <1>1, <1>2, FinInvariant, PTL DEF Spec, ImplementsSendSide, Side!Spec
============================================================================
