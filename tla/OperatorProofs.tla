--------------------------- MODULE OperatorProofs ---------------------------
(***************************************************************************)
(* Lemmas about the operators that Lifecycle and ServerEndpoint share:     *)
(* what Select returns, and what each operation of Connection does to the  *)
(* fields of the record.                                                   *)
(*                                                                         *)
(* The provers cannot instantiate the induction theorems of the library,   *)
(* which take an operator; here induction goes over a set of numbers, by   *)
(* the least number that is not in it.                                     *)
(***************************************************************************)
EXTENDS Connection, Selection, WellFoundedInduction, TLAPS

(***************************************************************************)
(* Selection                                                               *)
(***************************************************************************)

(* A set that holds 0 and, with a number, the next one holds them all.     *)
LEMMA SetInduction ==
  ASSUME NEW P, 0 \in P, \A n \in Nat : n \in P => n + 1 \in P
  PROVE  \A n \in Nat : n \in P
  <1> DEFINE R == {ss \in Nat \X Nat : ss[1] < ss[2]}
             T == Nat \ P
  <1>1. IsWellFoundedOn(R, Nat)
    BY NatLessThanWellFounded DEF OpToRel
  <1>2. ASSUME T # {} PROVE FALSE
    <2> HIDE DEF R, T
    <2>1. T \subseteq Nat
      BY DEF T
    <2>2. PICK x \in T : \A y \in T : ~ (<<y, x>> \in R)
      BY <1>1, <1>2, <2>1, WFMin
    <2>3. \A y \in T : ~ (y < x)
      BY <2>1, <2>2 DEF R
    <2>4. x # 0 /\ x - 1 \in Nat
      BY <2>1 DEF T
    <2>5. x - 1 \in P
      BY <2>3, <2>4 DEF T
    <2>6. (x - 1) + 1 \in P
      BY <2>4, <2>5
    <2>7. QED
      BY <2>1, <2>4, <2>6 DEF T
  <1>3. QED
    BY <1>2

(* One step of the selection, from what was selected before                *)
Step(G, s, K, i) ==
  IF i = 0 THEN <<>> ELSE IF s[i] \in K THEN Append(G[i - 1], s[i]) ELSE G[i - 1]

(* G selects from the first n elements of s                                *)
SelectsTo(G, s, K, n) == G = [i \in 0..n |-> Step(G, s, K, i)]

(* The first n elements of s and t are the same.                           *)
Agree(s, t, n) == \A i \in 1..n : s[i] = t[i]

(* Two functions that select from the same elements agree.                 *)
LEMMA SelectsUnique ==
  ASSUME NEW s, NEW t, NEW K, NEW n \in Nat, NEW m \in Nat, NEW G, NEW H,
         SelectsTo(G, s, K, n), SelectsTo(H, t, K, m), n <= m,
         Agree(s, t, n)
  PROVE  \A i \in 0..n : G[i] = H[i]
  <1> DEFINE P == {i \in Nat : i <= n => G[i] = H[i]}
  <1>1. 0 \in P
    BY DEF SelectsTo, Step
  <1>2. ASSUME NEW i \in Nat, i \in P PROVE i + 1 \in P
    <2> SUFFICES ASSUME i + 1 <= n PROVE G[i + 1] = H[i + 1]
      OBVIOUS
    <2>1. i + 1 \in 0..n /\ i + 1 \in 0..m /\ i + 1 \in 1..n /\ (i + 1) - 1 = i /\ i + 1 # 0
      OBVIOUS
    <2>2. G[i] = H[i] /\ s[i + 1] = t[i + 1]
      BY <1>2, <2>1 DEF Agree
    <2>3. G[i + 1] = Step(G, s, K, i + 1) /\ H[i + 1] = Step(H, t, K, i + 1)
      BY <2>1 DEF SelectsTo
    <2>4. QED
      BY <2>1, <2>2, <2>3 DEF Step
  <1> HIDE DEF P
  <1>3. \A i \in Nat : i \in P
    BY <1>1, <1>2, SetInduction
  <1>4. QED
    BY <1>3 DEF P

(* There is such a function.                                               *)
LEMMA SelectsExists ==
  ASSUME NEW S, NEW s \in Seq(S), NEW K
  PROVE  \A n \in 0..Len(s) : \E G \in [0..n -> Seq(S)] : SelectsTo(G, s, K, n)
  <1> DEFINE P == {n \in Nat : n <= Len(s) =>
                     \E G \in [0..n -> Seq(S)] : SelectsTo(G, s, K, n)}
  <1>1. 0 \in P
    <2> DEFINE G == [i \in 0..0 |-> <<>>]
    <2>1. G \in [0..0 -> Seq(S)] /\ SelectsTo(G, s, K, 0)
      BY DEF SelectsTo, Step
    <2>2. QED
      BY <2>1
  <1>2. ASSUME NEW n \in Nat, n \in P PROVE n + 1 \in P
    <2> SUFFICES ASSUME n + 1 <= Len(s)
                 PROVE  \E G \in [0..(n + 1) -> Seq(S)] : SelectsTo(G, s, K, n + 1)
      OBVIOUS
    <2>1. PICK H \in [0..n -> Seq(S)] : SelectsTo(H, s, K, n)
      BY <1>2
    <2> DEFINE G == [i \in 0..(n + 1) |-> IF i <= n THEN H[i] ELSE Step(H, s, K, n + 1)]
    <2>2. s[n + 1] \in S /\ H[n] \in Seq(S) /\ (n + 1) - 1 = n
      OBVIOUS
    <2>3. Step(H, s, K, n + 1) \in Seq(S)
      BY <2>2 DEF Step
    <2>4. G \in [0..(n + 1) -> Seq(S)]
      BY <2>3
    <2>5. ASSUME NEW i \in 0..(n + 1) PROVE G[i] = Step(G, s, K, i)
      <3>1. CASE i <= n
        <4>1. i \in 0..n /\ G[i] = H[i]
          BY <3>1
        <4>2. H[i] = Step(H, s, K, i)
          <5> HIDE DEF G
          <5> QED
            BY <2>1, <4>1 DEF SelectsTo
        <4>3. i # 0 => i - 1 \in 0..(n + 1) /\ G[i - 1] = H[i - 1]
          BY <3>1
        <4>4. QED
          BY <4>1, <4>2, <4>3 DEF Step
      <3>2. CASE i = n + 1
        <4>1. G[i] = Step(H, s, K, i) /\ G[i - 1] = H[i - 1]
          BY <3>2
        <4>2. QED
          BY <4>1 DEF Step
      <3>3. QED
        BY <3>1, <3>2
    <2> HIDE DEF G
    <2>6. SelectsTo(G, s, K, n + 1)
      BY <2>4, <2>5 DEF SelectsTo
    <2>7. QED
      BY <2>4, <2>6
  <1> HIDE DEF P
  <1>3. \A n \in Nat : n \in P
    BY <1>1, <1>2, SetInduction
  <1>4. QED
    BY <1>3 DEF P

(* Select is the last value of that function.                              *)
LEMMA SelectIs ==
  ASSUME NEW S, NEW s \in Seq(S), NEW K
  PROVE  \E G \in [0..Len(s) -> Seq(S)] :
           SelectsTo(G, s, K, Len(s)) /\ Select(s, K) = G[Len(s)]
  <1>0. Len(s) \in 0..Len(s)
    OBVIOUS
  <1>1. PICK H \in [0..Len(s) -> Seq(S)] : SelectsTo(H, s, K, Len(s))
    <2>1. \A n \in 0..Len(s) : \E G \in [0..n -> Seq(S)] : SelectsTo(G, s, K, n)
      BY SelectsExists
    <2>2. QED
      BY <1>0, <2>1
  <1> DEFINE F == CHOOSE G : SelectsTo(G, s, K, Len(s))
  <1>2. SelectsTo(F, s, K, Len(s))
    BY <1>1
  <1>3. Select(s, K) = F[Len(s)]
    BY DEF Select, SelectsTo, Step
  <1> HIDE DEF F
  <1>4. \A i \in 0..Len(s) : F[i] = H[i]
    BY <1>1, <1>2, SelectsUnique DEF Agree
  <1>5. QED
    BY <1>1, <1>3, <1>4

(* Nothing is selected from the empty sequence.                            *)
THEOREM SelectEmpty ==
  ASSUME NEW K PROVE Select(<<>>, K) = <<>>
  <1>1. <<>> \in Seq({}) /\ Len(<<>>) = 0
    OBVIOUS
  <1>2. PICK G : SelectsTo(G, <<>>, K, Len(<<>>)) /\ Select(<<>>, K) = G[Len(<<>>)]
    <2> DEFINE s == <<>>
    <2>1. s \in Seq({})
      BY <1>1
    <2> HIDE DEF s
    <2>2. \E G : SelectsTo(G, s, K, Len(s)) /\ Select(s, K) = G[Len(s)]
      BY <2>1, SelectIs
    <2>3. QED
      BY <2>2 DEF s
  <1>3. QED
    BY <1>1, <1>2 DEF SelectsTo, Step

(* One more element is selected when it is in the set.                     *)
THEOREM SelectAppend ==
  ASSUME NEW S, NEW s \in Seq(S), NEW e \in S, NEW K
  PROVE  Select(Append(s, e), K) =
           IF e \in K THEN Append(Select(s, K), e) ELSE Select(s, K)
  <1> DEFINE t == Append(s, e)
             n == Len(s)
  <1>1. /\ t \in Seq(S) /\ n \in Nat /\ Len(t) = n + 1 /\ t[n + 1] = e
        /\ \A i \in 1..n : s[i] = t[i]
    OBVIOUS
  <1> HIDE DEF t, n
  <1>2. PICK G \in [0..n -> Seq(S)] : SelectsTo(G, s, K, n) /\ Select(s, K) = G[n]
    BY SelectIs DEF n
  <1>3. PICK H : SelectsTo(H, t, K, n + 1) /\ Select(t, K) = H[n + 1]
    <2>1. \E H \in [0..Len(t) -> Seq(S)] :
            SelectsTo(H, t, K, Len(t)) /\ Select(t, K) = H[Len(t)]
      BY <1>1, SelectIs
    <2>2. QED
      BY <1>1, <2>1
  <1>4. \A i \in 0..n : G[i] = H[i]
    <2>1. n + 1 \in Nat /\ n <= n + 1
      BY <1>1
    <2>2. SelectsTo(G, s, K, n) /\ SelectsTo(H, t, K, n + 1)
      BY <1>2, <1>3
    <2>3. n \in Nat /\ Agree(s, t, n)
      BY <1>1 DEF Agree
    <2>4. QED
      BY <2>1, <2>2, <2>3, SelectsUnique
  <1>5. H[n + 1] = Step(H, t, K, n + 1)
    <2>1. n + 1 \in 0..(n + 1)
      BY <1>1
    <2>2. QED
      BY <1>3, <2>1 DEF SelectsTo
  <1>6. H[n] = G[n] /\ (n + 1) - 1 = n /\ n + 1 # 0
    BY <1>1, <1>4
  <1>7. QED
    BY <1>1, <1>2, <1>3, <1>5, <1>6 DEF Step, t

(* Select returns a sequence of what it selects from.                      *)
THEOREM SelectType ==
  ASSUME NEW S, NEW s \in Seq(S), NEW K PROVE Select(s, K) \in Seq(S)
  <1>1. PICK G \in [0..Len(s) -> Seq(S)] : Select(s, K) = G[Len(s)]
    BY SelectIs
  <1>2. QED
    BY <1>1
(* e is an element of the sequence q.                                      *)
Within(q, e) == \E i \in 1..Len(q) : q[i] = e

(* Append adds one element.                                                *)
LEMMA WithinAppend ==
  ASSUME NEW S, NEW q \in Seq(S), NEW d \in S, NEW e
  PROVE  Within(Append(q, d), e) <=> Within(q, e) \/ d = e
  <1> DEFINE a == Append(q, d)
  <1>1. /\ Len(q) \in Nat /\ Len(a) = Len(q) + 1 /\ a[Len(q) + 1] = d
        /\ \A i \in 1..Len(q) : a[i] = q[i]
    OBVIOUS
  <1> HIDE DEF a
  <1>2. \A i \in 1..Len(a) : i \in 1..Len(q) \/ i = Len(q) + 1
    BY <1>1
  <1>3. \A i \in 1..Len(q) : i \in 1..Len(a)
    BY <1>1
  <1>4. Len(q) + 1 \in 1..Len(a)
    BY <1>1
  <1>5. Within(a, e) <=> Within(q, e) \/ d = e
    BY <1>1, <1>2, <1>3, <1>4 DEF Within
  <1>6. QED
    BY <1>5 DEF a

(* Select returns the elements of the sequence that are in the set.        *)
THEOREM SelectElements ==
  ASSUME NEW S, NEW s \in Seq(S), NEW K
  PROVE  \A e : Within(Select(s, K), e) <=> e \in K /\ Within(s, e)
  <1>1. PICK G \in [0..Len(s) -> Seq(S)] :
               SelectsTo(G, s, K, Len(s)) /\ Select(s, K) = G[Len(s)]
    BY SelectIs
  <1> DEFINE Upto(n, e) == \E i \in 1..n : s[i] = e
             P == {n \in Nat : n <= Len(s) =>
                     \A e : Within(G[n], e) <=> e \in K /\ Upto(n, e)}
  <1>2. 0 \in P
    BY <1>1 DEF SelectsTo, Step, Within
  <1>3. ASSUME NEW n \in Nat, n \in P PROVE n + 1 \in P
    <2> SUFFICES ASSUME n + 1 <= Len(s), NEW e
                 PROVE  Within(G[n + 1], e) <=> e \in K /\ Upto(n + 1, e)
      OBVIOUS
    <2>1. Within(G[n], e) <=> e \in K /\ Upto(n, e)
      BY <1>3
    <2>2. s[n + 1] \in S /\ G[n] \in Seq(S) /\ n + 1 # 0 /\ (n + 1) - 1 = n
      BY <1>1
    <2>3. G[n + 1] = Step(G, s, K, n + 1)
      BY <1>1 DEF SelectsTo
    <2>4. Upto(n + 1, e) <=> Upto(n, e) \/ s[n + 1] = e
      <3>1. \A i : i \in 1..(n + 1) <=> i \in 1..n \/ i = n + 1
        OBVIOUS
      <3>2. QED
        BY <3>1
    <2>5. Within(Append(G[n], s[n + 1]), e) <=> Within(G[n], e) \/ s[n + 1] = e
      BY <2>2, WithinAppend
    <2> HIDE DEF Upto
    <2>6. QED
      BY <2>1, <2>2, <2>3, <2>4, <2>5 DEF Step
  <1> HIDE DEF P
  <1>4. \A n \in Nat : n \in P
    BY <1>2, <1>3, SetInduction
  <1>5. \A e : Within(G[Len(s)], e) <=> e \in K /\ Upto(Len(s), e)
    BY <1>4 DEF P
  <1>6. QED
    BY <1>1, <1>5 DEF Within

(* Every two elements of q, at different places, are in the relation R.    *)
Pairwise(q, R) == \A i, j \in 1..Len(q) : i # j => <<q[i], q[j]>> \in R

(* What relates every two elements of a sequence relates what is selected. *)
THEOREM SelectPairwise ==
  ASSUME NEW S, NEW s \in Seq(S), NEW K, NEW R, Pairwise(s, R)
  PROVE  Pairwise(Select(s, K), R)
  <1>1. PICK G \in [0..Len(s) -> Seq(S)] :
               SelectsTo(G, s, K, Len(s)) /\ Select(s, K) = G[Len(s)]
    BY SelectIs
  <1> DEFINE From(n) == \A i \in 1..Len(G[n]) : \E k \in 1..n : G[n][i] = s[k]
             P == {n \in Nat : n <= Len(s) => From(n) /\ Pairwise(G[n], R)}
  <1>2. 0 \in P
    <2>1. G[0] = <<>> /\ Len(<<>>) = 0
      BY <1>1 DEF SelectsTo, Step
    <2>2. QED
      BY <2>1 DEF Pairwise
  <1>3. ASSUME NEW n \in Nat, n \in P PROVE n + 1 \in P
    <2> SUFFICES ASSUME n + 1 <= Len(s) PROVE From(n + 1) /\ Pairwise(G[n + 1], R)
      OBVIOUS
    <2>1. From(n) /\ Pairwise(G[n], R)
      BY <1>3
    <2> DEFINE q == G[n]
               e == s[n + 1]
               a == Append(q, e)
    <2>2. e \in S /\ q \in Seq(S) /\ n + 1 # 0 /\ (n + 1) - 1 = n
      BY <1>1
    <2>3. G[n + 1] = IF e \in K THEN a ELSE q
      <3>1. G[n + 1] = Step(G, s, K, n + 1)
        BY <1>1 DEF SelectsTo
      <3>2. QED
        BY <2>2, <3>1 DEF Step
    <2>4. /\ Len(q) \in Nat /\ Len(a) = Len(q) + 1 /\ a[Len(q) + 1] = e
          /\ \A i \in 1..Len(q) : a[i] = q[i]
      BY <2>2
    <2>5. \A i \in 1..Len(q) : \E k \in 1..n : q[i] = s[k]
      BY <2>1
    <2>6. \A i, j \in 1..Len(q) : i # j => <<q[i], q[j]>> \in R
      BY <2>1 DEF Pairwise
    <2>7. \A k \in 1..n : <<s[k], e>> \in R /\ <<e, s[k]>> \in R
      <3>1. \A k \in 1..n : k \in 1..Len(s) /\ n + 1 \in 1..Len(s) /\ k # n + 1
        OBVIOUS
      <3>2. QED
        BY <3>1 DEF Pairwise
    <2> HIDE DEF q, e, a
    <2>8. \A i \in 1..Len(a) : i \in 1..Len(q) \/ i = Len(q) + 1
      BY <2>4
    <2>9. ASSUME NEW i \in 1..Len(a) PROVE \E k \in 1..(n + 1) : a[i] = s[k]
      <3>1. CASE i \in 1..Len(q)
        <4>1. PICK k \in 1..n : q[i] = s[k]
          BY <2>5, <3>1
        <4>2. k \in 1..(n + 1)
          OBVIOUS
        <4>3. QED
          BY <2>4, <3>1, <4>1, <4>2
      <3>2. CASE i = Len(q) + 1
        <4>1. n + 1 \in 1..(n + 1)
          OBVIOUS
        <4>2. QED
          BY <2>4, <3>2, <4>1 DEF e
      <3>3. QED
        BY <2>8, <3>1, <3>2
    <2>10. ASSUME NEW i \in 1..Len(a), NEW j \in 1..Len(a), i # j
           PROVE  <<a[i], a[j]>> \in R
      <3>1. CASE i \in 1..Len(q) /\ j \in 1..Len(q)
        BY <2>4, <2>6, <2>10, <3>1
      <3>2. CASE i \in 1..Len(q) /\ j = Len(q) + 1
        <4>1. PICK k \in 1..n : q[i] = s[k]
          BY <2>5, <3>2
        <4>2. QED
          BY <2>4, <2>7, <3>2, <4>1
      <3>3. CASE i = Len(q) + 1 /\ j \in 1..Len(q)
        <4>1. PICK k \in 1..n : q[j] = s[k]
          BY <2>5, <3>3
        <4>2. QED
          BY <2>4, <2>7, <3>3, <4>1
      <3>4. QED
        BY <2>8, <2>10, <3>1, <3>2, <3>3
    <2>11. \A i \in 1..Len(q) : \E k \in 1..(n + 1) : q[i] = s[k]
      <3>1. \A k \in 1..n : k \in 1..(n + 1)
        OBVIOUS
      <3>2. QED
        BY <2>5, <3>1
    <2>12. CASE e \in K
      BY <2>3, <2>9, <2>10, <2>12 DEF Pairwise
    <2>13. CASE e \notin K
      BY <2>3, <2>6, <2>11, <2>13 DEF Pairwise
    <2>14. QED
      BY <2>12, <2>13
  <1> HIDE DEF P
  <1>4. \A n \in Nat : n \in P
    BY <1>2, <1>3, SetInduction
  <1>5. QED
    BY <1>1, <1>4 DEF P

(***************************************************************************)
(* Connection                                                              *)
(***************************************************************************)

(* The events that announce the end of a connection                        *)
ClosedEvent(by_peer) == [type |-> "ConnectionClosed", by_peer |-> by_peer]
DrainingEvent        == [type |-> "ConnectionDraining", by_peer |-> TRUE]

(* An event goes to the end of the queue; nothing else changes.            *)
LEMMA PushEventIs ==
  ASSUME NEW r \in Conn, NEW type \in EventType, NEW by_peer \in BOOLEAN
  PROVE  /\ PushEvent(r, type, by_peer) \in Conn
         /\ PushEvent(r, type, by_peer) =
              [r EXCEPT !.events = Append(r.events, [type |-> type, by_peer |-> by_peer])]
  <1> DEFINE e == [type |-> type, by_peer |-> by_peer]
  <1>1. e \in Event /\ r.events \in Seq(Event)
    BY DEF Event, Conn
  <1> HIDE DEF e
  <1>2. Append(r.events, e) \in Seq(Event)
    BY <1>1
  <1>3. [r EXCEPT !.events = Append(r.events, e)] \in Conn
    BY <1>2 DEF Conn
  <1>4. PushEvent(r, type, by_peer) = [r EXCEPT !.events = Append(r.events, e)]
    BY DEF PushEvent, e
  <1>5. QED
    BY <1>3, <1>4 DEF e

(* sync_state keeps the types.                                             *)
LEMMA SyncStateType == ASSUME NEW r \in Conn PROVE SyncState(r) \in Conn
  <1>1. ASSUME NEW q \in Conn PROVE SyncDraining(q) \in Conn
    <2>1. [q EXCEPT !.draining = TRUE] \in Conn
      BY DEF Conn
    <2>2. [q EXCEPT !.draining = TRUE, !.draining_event_emitted = TRUE] \in Conn
      BY DEF Conn
    <2>3. QED
      BY <2>1, <2>2, PushEventIs DEF SyncDraining, EventType
  <1>2. ASSUME NEW q \in Conn PROVE SyncClosed(q) \in Conn
    <2>1. [q EXCEPT !.closed = TRUE] \in Conn
      BY DEF Conn
    <2>2. [q EXCEPT !.closed = TRUE, !.close_event_emitted = TRUE] \in Conn
      BY DEF Conn
    <2>3. QED
      BY <2>1, <2>2, PushEventIs DEF SyncClosed, EventType
  <1>3. QED
    BY <1>1, <1>2 DEF SyncState

(* The periods ngtcp2 is in have been noticed                              *)
Noticed(r) == /\ r.t \in Periods => r.closed /\ r.close_event_emitted
              /\ r.t = "draining" => r.draining /\ r.draining_event_emitted

(* sync_state does nothing for a connection that has noticed its period.   *)
LEMMA SyncStateQuiet == ASSUME NEW r \in Conn, Noticed(r) PROVE SyncState(r) = r
  <1>1. ASSUME r.t = "draining" PROVE SyncDraining(r) = r
    BY <1>1 DEF SyncDraining, Noticed, Conn
  <1>2. ASSUME r.t \in Periods PROVE SyncClosed(r) = r
    BY <1>2 DEF SyncClosed, Noticed, Conn
  <1>3. QED
    BY <1>1, <1>2 DEF SyncState

(* sync_state of a connection that has just begun to drain: the event, and *)
(* the event of the close unless it is known already.                      *)
LEMMA SyncStateDrains ==
  ASSUME NEW r \in Conn, r.t = "draining", ~r.draining_event_emitted,
         r.closed <=> r.close_event_emitted
  PROVE  LET d == Append(r.events, DrainingEvent) IN
         SyncState(r) =
           [r EXCEPT !.draining = TRUE, !.draining_event_emitted = TRUE,
                     !.closed = TRUE, !.close_event_emitted = TRUE,
                     !.events = IF r.closed THEN d ELSE Append(d, ClosedEvent(TRUE))]
  BY DEF SyncState, SyncDraining, SyncClosed, PushEvent, Periods, Conn, ClosedEvent,
     DrainingEvent

(* sync_state leaves the request to close and the last error alone; the    *)
(* connection ends up closed if it was or if its period says so.           *)
LEMMA SyncStateKeeps ==
  ASSUME NEW r \in Conn
  PROVE  /\ SyncState(r).close_requested = r.close_requested
         /\ SyncState(r).close_packet_sent = r.close_packet_sent
         /\ SyncState(r).last_error = r.last_error
         /\ SyncState(r).t = r.t
         /\ SyncState(r).closed <=> (r.closed \/ r.t \in Periods)
  <1>1. ASSUME NEW q \in Conn
        PROVE  /\ SyncDraining(q).close_requested = q.close_requested
               /\ SyncDraining(q).close_packet_sent = q.close_packet_sent
               /\ SyncDraining(q).last_error = q.last_error /\ SyncDraining(q).t = q.t
               /\ SyncDraining(q).closed = q.closed
               /\ SyncDraining(q) \in Conn
    <2>1. /\ [q EXCEPT !.draining = TRUE] \in Conn
          /\ [q EXCEPT !.draining = TRUE, !.draining_event_emitted = TRUE] \in Conn
      BY DEF Conn
    <2>2. SyncDraining(q) \in Conn
      BY <2>1, PushEventIs DEF SyncDraining, EventType
    <2>3. QED
      BY <2>2 DEF SyncDraining, PushEvent, Conn
  <1>2. ASSUME NEW q \in Conn
        PROVE  /\ SyncClosed(q).close_requested = q.close_requested
               /\ SyncClosed(q).close_packet_sent = q.close_packet_sent
               /\ SyncClosed(q).last_error = q.last_error /\ SyncClosed(q).t = q.t
               /\ SyncClosed(q).closed
    BY DEF SyncClosed, PushEvent, Conn
  <1>3. ASSUME r.t \in Periods PROVE SyncState(r).closed
    <2>1. CASE r.t = "draining"
      BY <1>1, <1>2, <1>3, <2>1 DEF SyncState
    <2>2. CASE r.t # "draining"
      BY <1>2, <1>3, <2>2 DEF SyncState
    <2>3. QED
      BY <2>1, <2>2
  <1>4. ASSUME r.t \notin Periods PROVE SyncState(r) = r
    BY <1>4 DEF SyncState, Periods
  <1>5. ASSUME r.t \in Periods
        PROVE  /\ SyncState(r).close_requested = r.close_requested
               /\ SyncState(r).close_packet_sent = r.close_packet_sent
               /\ SyncState(r).last_error = r.last_error /\ SyncState(r).t = r.t
    <2>1. CASE r.t = "draining"
      BY <1>1, <1>2, <1>5, <2>1 DEF SyncState
    <2>2. CASE r.t # "draining"
      BY <1>2, <1>5, <2>2 DEF SyncState
    <2>3. QED
      BY <2>1, <2>2
  <1>6. QED
    BY <1>3, <1>4, <1>5

(* A packet changes the state of the transport and pushes events; the      *)
(* periods of the close are final.                                         *)
LEMMA ReadPktKeeps ==
  ASSUME NEW c \in Conn, NEW in \in Inputs(c.t)
  PROVE  /\ ReadPkt(c, in) \in Conn
         /\ ReadPkt(c, in).close_requested = c.close_requested
         /\ ReadPkt(c, in).close_packet_sent = c.close_packet_sent
         /\ ReadPkt(c, in).last_error = c.last_error
         /\ ReadPkt(c, in).closed = c.closed
         /\ IF c.t \in {"handshake", "open"} THEN ReadPkt(c, in).t \in {c.t, "open", "draining"}
            ELSE ReadPkt(c, in).t = c.t
  <1> DEFINE r == ReadPkt(c, in)
             o == [c EXCEPT !.idle = FALSE]
  <1>1. /\ o \in Conn /\ o.close_requested = c.close_requested
        /\ o.close_packet_sent = c.close_packet_sent /\ o.last_error = c.last_error
        /\ o.closed = c.closed /\ o.t = c.t
    BY DEF Conn
  <1>2. in \in {"data", "finished", "stream", "close"}
    BY DEF Inputs
  <1>3. in # "data" => c.t \in {"handshake", "open"}
    BY DEF Inputs
  <1>4. CASE in = "data"
    <2>1. r = o \/ (r = c /\ c.t \notin {"handshake", "open"})
      BY <1>4 DEF ReadPkt
    <2> HIDE DEF r, o
    <2>2. QED
      BY <1>1, <2>1 DEF r
  <1>5. ASSUME NEW q \in Conn, NEW type \in EventType, r = PushEvent(q, type, FALSE),
               q.close_requested = c.close_requested,
               q.close_packet_sent = c.close_packet_sent, q.last_error = c.last_error,
               q.closed = c.closed
        PROVE  /\ r \in Conn /\ r.close_requested = c.close_requested
               /\ r.close_packet_sent = c.close_packet_sent /\ r.last_error = c.last_error
               /\ r.closed = c.closed /\ r.t = q.t
    <2> HIDE DEF r
    <2>1. PushEvent(q, type, FALSE) \in Conn
      BY PushEventIs
    <2>2. QED
      BY <1>5, <2>1 DEF PushEvent, Conn
  <1>6. CASE in = "finished"
    <2> DEFINE p == [o EXCEPT !.t = "open"]
               q == [p EXCEPT !.established = TRUE]
    <2>1. r = HandshakeCompletedCb(p)
      BY <1>3, <1>6 DEF ReadPkt
    <2>2. /\ p \in Conn /\ p.close_requested = c.close_requested
          /\ p.close_packet_sent = c.close_packet_sent /\ p.last_error = c.last_error
          /\ p.closed = c.closed /\ p.t = "open"
      BY <1>1 DEF Conn
    <2>3. /\ q \in Conn /\ q.close_requested = c.close_requested
          /\ q.close_packet_sent = c.close_packet_sent /\ q.last_error = c.last_error
          /\ q.closed = c.closed /\ q.t = "open"
      BY <1>1 DEF Conn
    <2>4. r = p \/ r = PushEvent(q, "HandshakeCompleted", FALSE)
      BY <2>1 DEF HandshakeCompletedCb
    <2>5. "HandshakeCompleted" \in EventType
      BY DEF EventType
    <2> HIDE DEF r, p, q
    <2>6. QED
      BY <1>3, <1>5, <1>6, <2>2, <2>3, <2>4, <2>5 DEF r
  <1>7. CASE in = "stream"
    <2>1. r = PushEvent(o, "Stream", FALSE)
      BY <1>3, <1>7 DEF ReadPkt
    <2>2. "Stream" \in EventType
      BY DEF EventType
    <2> HIDE DEF r, o
    <2>3. QED
      BY <1>1, <1>3, <1>5, <1>7, <2>1, <2>2 DEF r
  <1>8. CASE in = "close"
    <2> DEFINE p == [o EXCEPT !.t = "draining"]
    <2>1. r = p
      BY <1>3, <1>8 DEF ReadPkt
    <2>2. /\ p \in Conn /\ p.close_requested = c.close_requested
          /\ p.close_packet_sent = c.close_packet_sent /\ p.last_error = c.last_error
          /\ p.closed = c.closed /\ p.t = "draining"
      BY <1>1 DEF Conn, Periods
    <2> HIDE DEF r, p
    <2>3. QED
      BY <1>3, <1>8, <2>1, <2>2 DEF r
  <1>9. QED
    BY <1>2, <1>4, <1>6, <1>7, <1>8

(* close() asks for the close once and keeps the first reason.             *)
LEMMA CloseKeeps ==
  ASSUME NEW c \in Conn, NEW err \in {"app", "app0"}
  PROVE  /\ Close(c, err) \in Conn
         /\ c.close_requested => Close(c, err) = c
         /\ Close(c, err).close_requested
         /\ Close(c, err).close_packet_sent = c.close_packet_sent
         /\ Close(c, err).t = c.t
         /\ ~c.close_requested => Close(c, err).closed /\ Close(c, err).last_error = err
  <1> DEFINE d == [c EXCEPT !.last_error = err, !.close_requested = TRUE, !.closed = TRUE]
             p == [d EXCEPT !.close_event_emitted = TRUE]
  <1>1. /\ d \in Conn /\ d.close_requested /\ d.close_packet_sent = c.close_packet_sent
        /\ d.t = c.t /\ d.closed /\ d.last_error = err
    BY DEF Conn
  <1>2. /\ p \in Conn /\ p.close_requested /\ p.close_packet_sent = c.close_packet_sent
        /\ p.t = c.t /\ p.closed /\ p.last_error = err
    BY DEF Conn
  <1>3. CASE c.close_requested
    BY <1>3 DEF Close
  <1>4. CASE ~c.close_requested
    <2> DEFINE w == PushEvent(p, "ConnectionClosed", FALSE)
    <2>1. Close(c, err) = d \/ Close(c, err) = w
      BY <1>4 DEF Close
    <2> HIDE DEF d, p
    <2>2. w \in Conn
      BY <1>2, PushEventIs DEF EventType
    <2>3. /\ w.close_requested /\ w.close_packet_sent = c.close_packet_sent
          /\ w.t = c.t /\ w.closed /\ w.last_error = err
      BY <1>2, <2>2 DEF PushEvent, Conn
    <2> HIDE DEF w
    <2>4. QED
      BY <1>1, <1>4, <2>1, <2>2, <2>3
  <1>5. QED
    BY <1>3, <1>4

(* drainOutgoingDatagrams() settles a close that is pending, and writes    *)
(* its packet while the connection is up.                                  *)
LEMMA DrainKeeps ==
  ASSUME NEW c \in Conn
  PROVE  /\ DrainOutgoing(c) \in Conn
         /\ DrainOutgoing(c).close_requested = c.close_requested
         /\ DrainOutgoing(c).last_error = c.last_error
         /\ IF ClosePending(c)
            THEN /\ DrainOutgoing(c).close_packet_sent /\ DrainOutgoing(c).closed = c.closed
                 /\ DrainOutgoing(c).t = IF WritesClose(c) THEN "closing" ELSE c.t
            ELSE /\ DrainOutgoing(c).close_packet_sent = c.close_packet_sent
                 /\ DrainOutgoing(c).closed <=> (c.closed \/ c.t \in Periods)
                 /\ DrainOutgoing(c).t = IF c.t = "initial" THEN "handshake" ELSE c.t
  <1>1. CASE ClosePending(c)
    BY <1>1 DEF DrainOutgoing, DrainClose, WritesClose, Periods, Conn
  <1>2. CASE ~ClosePending(c)
    <2> DEFINE d == IF c.t = "initial" THEN [c EXCEPT !.t = "handshake"] ELSE c
    <2>1. /\ d \in Conn /\ d.close_requested = c.close_requested
          /\ d.close_packet_sent = c.close_packet_sent /\ d.last_error = c.last_error
          /\ d.closed = c.closed /\ d.t = IF c.t = "initial" THEN "handshake" ELSE c.t
      BY DEF Conn
    <2>2. DrainOutgoing(c) = SyncState(d)
      BY <1>2 DEF DrainOutgoing, DrainLoop
    <2>3. (d.t \in Periods) = (c.t \in Periods)
      BY <2>1 DEF Periods
    <2> HIDE DEF d
    <2>4. QED
      BY <1>2, <2>1, <2>2, <2>3, SyncStateKeeps, SyncStateType
  <1>3. QED
    BY <1>1, <1>2
=============================================================================
