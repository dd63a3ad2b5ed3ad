---------------------------- MODULE TimersProofs ----------------------------
(***************************************************************************)
(* Proofs about Timers: for any number of connections, any clock           *)
(* resolution and any time that passes inside a call, the application      *)
(* sleeps neither past a deadline nor far from every one.                  *)
(***************************************************************************)
EXTENDS Timers, TLAPS

(* Division rounds down.                                                   *)
LEMMA DivFacts ==
  ASSUME NEW a \in Int, NEW m \in Nat \ {0}
  PROVE  /\ a \div m \in Int
         /\ (a \div m) * m <= a /\ a < (a \div m) * m + m
         /\ a >= 0 => a \div m \in Nat
  OBVIOUS

(* Multiplication is monotone, and stays inside the numbers.               *)
LEMMA TimesFacts ==
  ASSUME NEW m \in Nat
  PROVE  /\ \A a \in Int : a * m \in Int
         /\ \A a \in Nat : a * m \in Nat
         /\ \A a, b \in Int : a <= b => a * m <= b * m
         /\ \A a, b \in Int : (a + b) * m = a * m + b * m
  OBVIOUS

(* The numbers of a state that satisfies the invariant                     *)
LEMMA Numbers ==
  ASSUME TypeOK
  PROVE  /\ MS \in Nat \ {0} /\ Rows \in Nat \ {0} /\ MaxTime \in Nat /\ MaxLag \in 0..MaxTime
         /\ None \in Int /\ None < 0
         /\ now \in Nat /\ offset \in Nat /\ lag \in Nat /\ row \in Nat /\ row > 0
         /\ part # None => part \in Nat
         /\ best # None => best \in Nat
         /\ \A r \in 1..Rows : expiry[r] # None => expiry[r] \in Nat
  <1>1. MS \in Nat \ {0} /\ Rows \in Nat \ {0} /\ MaxTime \in Nat /\ MaxLag \in 0..MaxTime
    BY TimersAssumption
  <1>2. None \in Int /\ None < 0
    BY <1>1 DEF None
  <1>3. QED
    BY <1>1, <1>2 DEF TypeOK, Times

(* The timeout of a row, rounded down to milliseconds                      *)
LEMMA TimeoutMsFacts ==
  ASSUME TypeOK, NEW r \in 1..Rows, expiry[r] # None
  PROVE  /\ TimeoutMs(r) \in Nat
         /\ now + TimeoutMs(r) * MS <= Latest(r)
         /\ expiry[r] < now + TimeoutMs(r) * MS + MS
  <1>1. /\ MS \in Nat \ {0} /\ now \in Nat /\ lag \in Nat /\ expiry[r] \in Nat
    BY Numbers
  <1>2. CASE expiry[r] <= now
    <2>1. TimeoutMs(r) = 0 /\ 0 * MS = 0
      BY <1>1, <1>2 DEF TimeoutMs
    <2>2. QED
      BY <1>1, <1>2, <2>1 DEF Latest
  <1>3. CASE expiry[r] > now
    <2> DEFINE d == expiry[r] - now
    <2>1. d \in Nat /\ expiry[r] = now + d /\ TimeoutMs(r) = d \div MS
      BY <1>1, <1>3 DEF TimeoutMs
    <2> HIDE DEF d
    <2> DEFINE q == (d \div MS) * MS
    <2>2. d \div MS \in Nat /\ q <= d /\ d < q + MS /\ q \in Int
      BY <1>1, <2>1, DivFacts, TimesFacts
    <2>3. TimeoutMs(r) * MS = q
      BY <2>1
    <2> HIDE DEF q
    <2>4. now + q <= Latest(r) /\ expiry[r] < now + q + MS
      BY <1>1, <2>1, <2>2 DEF Latest
    <2>5. QED
      BY <2>1, <2>2, <2>3, <2>4
  <1>4. QED
    BY <1>1, <1>2, <1>3

(* The wall clock in milliseconds, rounded down                            *)
LEMMA EpochMsFacts ==
  ASSUME TypeOK
  PROVE  /\ EpochMs \in Nat /\ EpochMs * MS \in Int
         /\ EpochMs * MS - offset <= now /\ now < EpochMs * MS - offset + MS
  <1> DEFINE d == now + offset
  <1>1. MS \in Nat \ {0} /\ now \in Nat /\ offset \in Nat /\ d \in Nat
    BY Numbers
  <1>2. EpochMs = d \div MS
    BY DEF EpochMs
  <1> HIDE DEF d
  <1> DEFINE q == (d \div MS) * MS
  <1>3. d \div MS \in Nat /\ q <= d /\ d < q + MS /\ q \in Int
    BY <1>1, DivFacts, TimesFacts
  <1> HIDE DEF q
  <1>4. q - offset <= now /\ now < q - offset + MS
    BY <1>1, <1>3 DEF d
  <1>5. QED
    BY <1>2, <1>3, <1>4 DEF q

(* A smaller answer wakes the application no later.                        *)
LEMMA WakeAtFacts ==
  ASSUME TypeOK
  PROVE  /\ \A b \in Nat : WakeAt(b) \in Int
         /\ \A a, b \in Nat : a <= b => WakeAt(a) <= WakeAt(b)
  <1>1. MS \in Nat /\ now \in Nat /\ offset \in Nat
    BY Numbers
  <1>2. ASSUME NEW a \in Nat, NEW b \in Nat
        PROVE  /\ WakeAt(b) \in Int
               /\ a <= b => WakeAt(a) <= WakeAt(b)
    <2> DEFINE x == a * MS
               y == b * MS
    <2>1. x \in Int /\ y \in Int /\ (a <= b => x <= y)
      BY <1>1, TimesFacts
    <2>2. /\ WakeAt(a) = IF api = "timeout" THEN now + x ELSE x - offset
          /\ WakeAt(b) = IF api = "timeout" THEN now + y ELSE y - offset
      BY DEF WakeAt
    <2> HIDE DEF x, y
    <2>3. QED
      BY <1>1, <2>1, <2>2
  <1>3. QED
    BY <1>2

(* One more row has answered v.                                            *)
LEMMA RowAnswers ==
  ASSUME TypeOK, RowsAsked, row <= Rows, expiry[row] # None, NEW v \in Nat,
         WakeAt(v) <= Latest(row), expiry[row] < WakeAt(v) + Slack,
         row' = row + 1, best' = Merged(best, v),
         UNCHANGED <<now, offset, expiry, api, lag>>
  PROVE  RowsAsked' /\ best' \in Nat /\ row' \in 1..(Rows + 1)
  <1>1. /\ row \in 1..Rows /\ Rows \in Nat /\ row' \in 1..(Rows + 1)
        /\ MS \in Nat /\ now \in Nat /\ lag \in Nat
        /\ best # None => best \in Nat
        /\ \A r \in 1..Rows : expiry[r] # None => expiry[r] \in Nat
    BY Numbers DEF TypeOK
  <1>2. /\ best' \in {best, v} /\ best' \in Nat /\ best' <= v
        /\ best # None => best' <= best
    BY <1>1, Numbers DEF Merged
  <1>3. /\ WakeAt(best)' = WakeAt(best') /\ Slack' = Slack
        /\ \A r \in 1..Rows : Latest(r)' = Latest(r)
    BY DEF WakeAt, Slack, Latest
  <1>4. WakeAt(best') <= WakeAt(v) /\ (best # None => WakeAt(best') <= WakeAt(best))
    BY <1>1, <1>2, WakeAtFacts
  <1>5. /\ WakeAt(best') \in Int /\ WakeAt(v) \in Int
        /\ best # None => WakeAt(best) \in Int
        /\ Slack \in Int /\ \A r \in 1..Rows : expiry[r] # None => Latest(r) \in Int
    <2>1. Slack \in Int
      BY <1>1 DEF Slack
    <2>2. ASSUME NEW r \in 1..Rows, expiry[r] # None PROVE Latest(r) \in Int
      <3>1. expiry[r] \in Nat /\ lag \in Nat /\ now \in Nat
        BY <1>1, <2>2
      <3>2. QED
        BY <3>1 DEF Latest
    <2>3. \A b \in Nat : WakeAt(b) \in Int
      BY WakeAtFacts
    <2>4. QED
      BY <1>1, <1>2, <2>1, <2>2, <2>3
  <1>6. ASSUME NEW r \in 1..row, expiry[r] # None PROVE WakeAt(best') <= Latest(r)
    <2>1. r \in 1..Rows
      BY <1>1
    <2>2. CASE r = row
      BY <1>4, <1>5, <2>1, <2>2
    <2>3. CASE r # row
      <3>1. r \in 1..(row - 1)
        BY <1>1, <2>3
      <3>2. best # None /\ WakeAt(best) <= Latest(r)
        BY <1>6, <3>1 DEF RowsAsked
      <3>3. QED
        BY <1>4, <1>5, <1>6, <2>1, <3>2
    <2>4. QED
      BY <2>2, <2>3
  <1>7. \E r \in 1..Rows : expiry[r] # None /\ expiry[r] < WakeAt(best') + Slack
    <2>1. CASE best' = v
      BY <1>1, <2>1
    <2>2. CASE best' = best
      BY <1>2, <2>2, Numbers DEF RowsAsked
    <2>3. QED
      BY <1>2, <2>1, <2>2
  <1>8. 1..(row' - 1) = 1..row /\ best' # None
    BY <1>1, <1>2, Numbers
  <1>9. \A r \in 1..row : r \in 1..Rows
    BY <1>1
  <1>10. RowsAsked'
    <2>1. \A r \in 1..(row' - 1) :
            expiry'[r] # None => best' # None /\ WakeAt(best)' <= Latest(r)'
      BY <1>3, <1>6, <1>8, <1>9
    <2>2. \E r \in 1..Rows : expiry'[r] # None /\ expiry'[r] < WakeAt(best)' + Slack'
      BY <1>3, <1>7
    <2>3. QED
      BY <2>1, <2>2 DEF RowsAsked
  <1>11. QED
    BY <1>1, <1>2, <1>10


----------------------------------------------------------------------------
(* A call begins: nothing has been asked.                                  *)
LEMMA AskBeginStep == ASSUME TimersInv, AskBegin PROVE TimersInv'
  <1>1. TypeOK
    BY DEF TimersInv
  <1>2. TypeOK'
    BY <1>1, Numbers DEF AskBegin, TypeOK
  <1>3. RowsAsked'
    BY DEF AskBegin, RowsAsked
  <1>4. pc' = "ask"
    BY DEF AskBegin
  <1>5. QED
    BY <1>2, <1>3, <1>4 DEF TimersInv

(* A closed connection has no deadline, and adds nothing to the answer.    *)
LEMMA AskClosedStep == ASSUME TimersInv, AskClosed PROVE TimersInv'
  <1>1. /\ TypeOK /\ RowsAsked /\ pc = "ask" /\ pc' = "ask" /\ row <= Rows
        /\ expiry[row] = None /\ row' = row + 1 /\ best' = best /\ part' = None
        /\ UNCHANGED <<now, offset, expiry, idle, api, lag, wake>>
    BY DEF TimersInv, AskClosed, NextRow, InCall
  <1>2. row \in Nat /\ row > 0 /\ Rows \in Nat
    BY <1>1, Numbers
  <1>3. row' \in 1..(Rows + 1)
    BY <1>1, <1>2
  <1>4. TypeOK'
    BY <1>1, <1>3 DEF TypeOK
  <1>5. RowsAsked'
    <2>1. \A r \in 1..(row' - 1) : r = row \/ r \in 1..(row - 1)
      BY <1>1, <1>2
    <2>2. /\ WakeAt(best)' = WakeAt(best) /\ Slack' = Slack
          /\ \A r \in 1..(row' - 1) : Latest(r)' = Latest(r)
      BY <1>1 DEF WakeAt, Slack, Latest
    <2>3. QED
      BY <1>1, <2>1, <2>2 DEF RowsAsked
  <1>6. QED
    BY <1>1, <1>4, <1>5 DEF TimersInv

(* getNextTimeout() of one row                                             *)
LEMMA AskTimeoutStep == ASSUME TimersInv, AskTimeout PROVE TimersInv'
  <1> DEFINE v == TimeoutMs(row)
  <1>1. /\ TypeOK /\ RowsAsked /\ pc = "ask" /\ pc' = "ask" /\ row <= Rows
        /\ expiry[row] # None /\ api = "timeout"
        /\ row' = row + 1 /\ best' = Merged(best, v) /\ part' = None
        /\ UNCHANGED <<now, offset, expiry, idle, api, lag, wake>>
    BY DEF TimersInv, AskTimeout, NextRow, InCall
  <1>2. row \in 1..Rows
    BY <1>1, Numbers
  <1>3. v \in Nat /\ now + v * MS <= Latest(row) /\ expiry[row] < now + v * MS + MS
    BY <1>1, <1>2, TimeoutMsFacts
  <1>4. WakeAt(v) <= Latest(row) /\ expiry[row] < WakeAt(v) + Slack
    BY <1>1, <1>3 DEF WakeAt, Slack
  <1> HIDE DEF v
  <1>5. RowsAsked' /\ best' \in Nat /\ row' \in 1..(Rows + 1)
    BY <1>1, <1>3, <1>4, RowAnswers
  <1>6. TypeOK'
    BY <1>1, <1>5 DEF TypeOK
  <1>7. QED
    BY <1>1, <1>5, <1>6 DEF TimersInv

(* getNextExpiry() of one row: the monotonic clock first                   *)
LEMMA AskExpiryStep == ASSUME TimersInv, AskExpiry PROVE TimersInv'
  <1> DEFINE v == TimeoutMs(row)
  <1>1. /\ TypeOK /\ RowsAsked /\ pc = "ask" /\ pc' = "wall" /\ row <= Rows
        /\ expiry[row] # None /\ api = "expiry" /\ part' = v
        /\ UNCHANGED <<now, offset, expiry, idle, api, row, best, lag, wake>>
    BY DEF TimersInv, AskExpiry, InCall
  <1>2. row \in 1..Rows
    BY <1>1, Numbers
  <1>3. v \in Nat /\ now + v * MS <= Latest(row) /\ expiry[row] < now + v * MS + MS
    BY <1>1, <1>2, TimeoutMsFacts
  <1>4. v # None
    BY <1>1, <1>3, Numbers
  <1> HIDE DEF v
  <1>5. TypeOK'
    BY <1>1, <1>3 DEF TypeOK
  <1>6. RowInHand'
    <2>1. Latest(row)' = Latest(row)
      BY <1>1 DEF Latest
    <2>2. QED
      BY <1>1, <1>3, <1>4, <2>1 DEF RowInHand
  <1>7. RowsAsked'
    BY <1>1 DEF RowsAsked, WakeAt, Slack, Latest
  <1>8. QED
    BY <1>1, <1>5, <1>6, <1>7 DEF TimersInv

(* ... then the wall clock                                                 *)
LEMMA AskWallClockStep == ASSUME TimersInv, AskWallClock PROVE TimersInv'
  <1> DEFINE v == EpochMs + part
  <1>1. /\ TypeOK /\ RowsAsked /\ RowInHand /\ pc = "wall" /\ pc' = "ask"
        /\ row' = row + 1 /\ best' = Merged(best, v) /\ part' = None
        /\ UNCHANGED <<now, offset, expiry, idle, api, lag, wake>>
    BY DEF TimersInv, AskWallClock, NextRow, InCall
  <1>2. /\ row \in 1..Rows /\ expiry[row] # None /\ api = "expiry" /\ part \in Nat
        /\ expiry[row] \in Nat /\ MS \in Nat /\ now \in Nat /\ offset \in Nat
        /\ lag \in Nat /\ row <= Rows
        /\ now + part * MS <= Latest(row) /\ expiry[row] < now + part * MS + MS
    BY <1>1, Numbers DEF RowInHand
  <1>3. /\ EpochMs \in Nat /\ EpochMs * MS \in Int
        /\ EpochMs * MS - offset <= now /\ now < EpochMs * MS - offset + MS
    BY <1>1, EpochMsFacts
  <1>4. v \in Nat
    BY <1>2, <1>3
  <1>5. v * MS = EpochMs * MS + part * MS /\ part * MS \in Int
    BY <1>2, <1>3, TimesFacts
  <1>6. Latest(row) \in Int
    BY <1>2 DEF Latest
  <1>7. WakeAt(v) = v * MS - offset /\ Slack = 2 * MS
    BY <1>2 DEF WakeAt, Slack
  <1> DEFINE x == EpochMs * MS
             y == part * MS
             z == v * MS
  <1> HIDE DEF v, x, y, z
  <1>8. z = x + y /\ x \in Int /\ y \in Int /\ WakeAt(v) = z - offset
    BY <1>3, <1>5, <1>7 DEF x, y, z
  <1>9. /\ x - offset <= now /\ now < x - offset + MS
        /\ now + y <= Latest(row) /\ expiry[row] < now + y + MS
    BY <1>2, <1>3 DEF x, y
  <1>10. WakeAt(v) <= Latest(row) /\ expiry[row] < WakeAt(v) + Slack
    BY <1>2, <1>6, <1>7, <1>8, <1>9
  <1>11. RowsAsked' /\ best' \in Nat /\ row' \in 1..(Rows + 1)
    BY <1>1, <1>2, <1>4, <1>10, RowAnswers
  <1>12. TypeOK'
    BY <1>1, <1>11 DEF TypeOK
  <1>13. QED
    BY <1>1, <1>11, <1>12 DEF TimersInv

(* When the call returns, the application wakes in time and not too early. *)
LEMMA AskReturnWakes ==
  ASSUME TimersInv, AskReturn
  PROVE  /\ wake' \in Nat \cup {None}
         /\ \A r \in 1..Rows : expiry[r] # None =>
              /\ wake' # None
              /\ wake' <= (IF expiry[r] > now THEN expiry[r] ELSE now) + lag
         /\ wake' # None => \E r \in 1..Rows :
              expiry[r] # None /\ expiry[r] < wake' + Slack
  <1>1. /\ TypeOK /\ RowsAsked /\ row > Rows /\ wake' = WakeTime
    BY DEF TimersInv, AskReturn, InCall
  <1>2. /\ MS \in Nat \ {0} /\ Rows \in Nat /\ now \in Nat /\ offset \in Nat /\ lag \in Nat
        /\ row = Rows + 1 /\ None \in Int /\ None < 0
        /\ best # None => best \in Nat
        /\ \A r \in 1..Rows : expiry[r] # None => expiry[r] \in Nat
    BY <1>1, Numbers DEF TypeOK
  <1>3. CASE best = None
    <2>1. wake' = None
      BY <1>1, <1>3 DEF WakeTime
    <2>2. \A r \in 1..Rows : expiry[r] = None
      BY <1>1, <1>2, <1>3 DEF RowsAsked
    <2>3. QED
      BY <2>1, <2>2
  <1>4. CASE best # None
    <2> DEFINE w == WakeAt(best)
               x == best * MS
    <2>1. w \in Int /\ x \in Nat
      BY <1>1, <1>2, <1>4, WakeAtFacts, TimesFacts
    <2>2. wake' = (IF w > now THEN w ELSE now) /\ wake' \in Nat
      <3>1. w = IF api = "timeout" THEN now + x ELSE x - offset
        BY DEF WakeAt
      <3>2. wake' = IF api = "timeout" THEN now + x
                    ELSE IF x - offset > now THEN x - offset ELSE now
        BY <1>1, <1>4 DEF WakeTime
      <3> HIDE DEF w, x
      <3>3. QED
        BY <1>2, <2>1, <3>1, <3>2
    <2>3. Slack \in Int
      BY <1>2 DEF Slack
    <2>4. ASSUME NEW r \in 1..Rows, expiry[r] # None
          PROVE  wake' <= (IF expiry[r] > now THEN expiry[r] ELSE now) + lag
      <3>1. r \in 1..(row - 1) /\ expiry[r] \in Nat
        BY <1>2, <2>4
      <3>2. w <= Latest(r)
        BY <1>1, <2>4, <3>1 DEF RowsAsked
      <3> HIDE DEF w
      <3>3. QED
        BY <1>2, <2>1, <2>2, <3>1, <3>2 DEF Latest
    <2>5. PICK r \in 1..Rows : expiry[r] # None /\ expiry[r] < w + Slack
      BY <1>1, <1>4 DEF RowsAsked
    <2> HIDE DEF w
    <2>6. expiry[r] < wake' + Slack
      BY <1>2, <2>1, <2>2, <2>3, <2>5
    <2>7. wake' # None
      BY <1>2, <2>2
    <2>8. QED
      BY <2>2, <2>4, <2>5, <2>6, <2>7
  <1>5. QED
    BY <1>3, <1>4

(* The clock ticks: what the call has read gets older.                     *)
LEMMA TickStep == ASSUME TimersInv, Tick PROVE TimersInv'
  <1>1. /\ TypeOK /\ now < MaxTime /\ now' = now + 1
        /\ UNCHANGED <<offset, expiry, idle, api, pc, row, part, best, wake>>
        /\ lag' = IF InCall THEN lag + 1 ELSE lag
        /\ InCall => lag < MaxLag
    BY DEF TimersInv, Tick, asking
  <1>2. /\ MS \in Nat /\ Rows \in Nat /\ now \in Nat /\ offset \in Nat /\ lag \in Nat
        /\ MaxTime \in Nat /\ MaxLag \in Nat /\ row \in Nat
        /\ part # None => part \in Nat
        /\ best # None => best \in Nat
        /\ \A r \in 1..Rows : expiry[r] # None => expiry[r] \in Nat
    BY <1>1, Numbers
  <1>3. TypeOK'
    <2>1. now' \in Times
      BY <1>1, <1>2 DEF Times
    <2>2. lag' \in 0..MaxLag
      BY <1>1, <1>2 DEF TypeOK
    <2>3. QED
      BY <1>1, <2>1, <2>2 DEF TypeOK
  <1>4. ASSUME InCall PROVE RowsAsked' /\ (pc = "wall" => RowInHand')
    <2>1. RowsAsked /\ (pc = "wall" => RowInHand) /\ lag' = lag + 1
      BY <1>1, <1>4 DEF TimersInv
    <2>2. ASSUME NEW r \in 1..Rows, expiry[r] # None
          PROVE  Latest(r) \in Int /\ Latest(r)' = Latest(r) + 1
      <3>1. expiry[r] \in Nat
        BY <1>2, <2>2
      <3>2. QED
        BY <1>1, <1>2, <2>1, <3>1 DEF Latest
    <2>3. ASSUME best # None
          PROVE  /\ WakeAt(best) \in Int /\ WakeAt(best)' \in Int
                 /\ WakeAt(best) <= WakeAt(best)' /\ WakeAt(best)' <= WakeAt(best) + 1
      <3> DEFINE x == best * MS
      <3>1. x \in Int
        BY <1>2, <2>3, TimesFacts
      <3>2. /\ WakeAt(best) = IF api = "timeout" THEN now + x ELSE x - offset
            /\ WakeAt(best)' = IF api = "timeout" THEN now + 1 + x ELSE x - offset
        BY <1>1 DEF WakeAt
      <3> HIDE DEF x
      <3>3. QED
        BY <1>2, <3>1, <3>2
    <2>4. Slack' = Slack /\ Slack \in Int
      BY <1>1, <1>2 DEF Slack
    <2>5. \A r \in 1..(row - 1) : r \in 1..Rows
      BY <1>1, <1>2 DEF TypeOK
    <2>6. RowsAsked'
      <3>1. ASSUME NEW r \in 1..(row - 1), expiry[r] # None
            PROVE  best # None /\ WakeAt(best)' <= Latest(r)'
        <4>1. best # None /\ WakeAt(best) <= Latest(r)
          BY <2>1, <3>1 DEF RowsAsked
        <4>2. QED
          BY <2>2, <2>3, <2>5, <3>1, <4>1
      <3>2. ASSUME best # None
            PROVE  \E r \in 1..Rows : expiry[r] # None /\ expiry[r] < WakeAt(best)' + Slack
        <4>1. PICK r \in 1..Rows : expiry[r] # None /\ expiry[r] < WakeAt(best) + Slack
          BY <2>1, <3>2 DEF RowsAsked
        <4>2. expiry[r] < WakeAt(best)' + Slack
          BY <1>2, <2>3, <2>4, <3>2, <4>1
        <4>3. QED
          BY <4>1, <4>2
      <3>3. QED
        BY <1>1, <2>4, <3>1, <3>2 DEF RowsAsked
    <2>7. ASSUME pc = "wall" PROVE RowInHand'
      <3> DEFINE y == part * MS
      <3>1. /\ api = "expiry" /\ row <= Rows /\ expiry[row] # None /\ part # None
            /\ now + y <= Latest(row) /\ expiry[row] < now + y + MS
        BY <2>1, <2>7 DEF RowInHand
      <3>2. row \in 1..Rows /\ y \in Int
        BY <1>1, <1>2, <3>1, Numbers, TimesFacts
      <3>3. Latest(row) \in Int /\ Latest(row)' = Latest(row) + 1 /\ expiry[row] \in Nat
        BY <1>1, <1>2, <2>2, <3>1, <3>2
      <3>4. y' = y
        BY <1>1
      <3> HIDE DEF y
      <3>5. now' + y <= Latest(row)' /\ expiry[row] < now' + y + MS
        BY <1>1, <1>2, <3>1, <3>2, <3>3
      <3>6. QED
        BY <1>1, <3>1, <3>4, <3>5 DEF RowInHand, y
    <2>8. QED
      BY <2>6, <2>7
  <1>5. InCall' = InCall
    BY <1>1 DEF InCall
  <1>6. QED
    BY <1>1, <1>3, <1>4, <1>5 DEF TimersInv, InCall


(* What happens while no call is under way only has to keep the types.     *)
LEMMA IdleStep ==
  ASSUME TimersInv, expiry' \in [1..Rows -> Times \cup {None}], idle' \subseteq 1..Rows,
         pc' = "loop", UNCHANGED <<now, offset, api, asking, lag, wake>>
  PROVE  TimersInv'
  <1>1. TypeOK'
    BY DEF TimersInv, TypeOK, asking
  <1>2. QED
    BY <1>1 DEF TimersInv, InCall

(* A timer is armed inside the clock's range.                              *)
LEMMA ArmedInRange == ASSUME TypeOK PROVE Armed \subseteq Times
  BY Numbers DEF Armed, Times

(* A sweep leaves every row with a deadline or none.                       *)
LEMMA HandledStep ==
  ASSUME TypeOK, NEW n \in 0..Rows, Handled(n)
  PROVE  expiry' \in [1..Rows -> Times \cup {None}] /\ idle' \subseteq 1..Rows
  <1> DEFINE due == {r \in 1..n : Due(r)}
  <1>1. due \subseteq 1..Rows
    BY Numbers
  <1>2. PICK out \in SUBSET due :
          /\ idle' = idle \cup out
          /\ \E x \in [due \ out -> Armed \cup {None}] :
               expiry' = [r \in 1..Rows |-> IF r \in due \ out THEN x[r] ELSE expiry[r]]
    BY DEF Handled
  <1> HIDE DEF due
  <1>3. PICK x \in [due \ out -> Armed \cup {None}] :
          expiry' = [r \in 1..Rows |-> IF r \in due \ out THEN x[r] ELSE expiry[r]]
    BY <1>2
  <1>4. /\ expiry \in [1..Rows -> Times \cup {None}] /\ idle \subseteq 1..Rows
        /\ Armed \subseteq Times
    BY ArmedInRange DEF TypeOK
  <1>5. QED
    BY <1>1, <1>2, <1>3, <1>4

(* A datagram re-arms a timer inside the clock's range.                    *)
LEMMA DatagramStep ==
  ASSUME TimersInv, NEW r \in 1..Rows, Datagram(r) PROVE TimersInv'
  <1>1. TypeOK
    BY DEF TimersInv
  <1>2. PICK x \in Armed \cup {None, expiry[r]} :
          /\ expiry' = [expiry EXCEPT ![r] = x]
          /\ idle' = IF x = expiry[r] THEN idle ELSE idle \ {r}
    BY DEF Datagram
  <1>3. expiry \in [1..Rows -> Times \cup {None}] /\ idle \subseteq 1..Rows
    BY <1>1 DEF TypeOK
  <1>4. x \in Times \cup {None}
    BY <1>1, <1>2, <1>3, ArmedInRange
  <1>5. expiry' \in [1..Rows -> Times \cup {None}] /\ idle' \subseteq 1..Rows
    BY <1>2, <1>3, <1>4
  <1>6. QED
    BY <1>5, IdleStep DEF Datagram

(* TimersInv is an invariant.                                              *)
THEOREM TimersInvariant == Spec => []TimersInv
  <1>1. Init => TimersInv
    <2> SUFFICES ASSUME Init PROVE TimersInv
      OBVIOUS
    <2>1. /\ MS \in Nat \ {0} /\ Rows \in Nat \ {0} /\ MaxTime \in Nat /\ MaxLag \in 0..MaxTime
      BY TimersAssumption
    <2>2. expiry \in [1..Rows -> Times \cup {None}]
      <3>1. Armed \subseteq Times
        BY <2>1 DEF Init, Armed, Times
      <3>2. QED
        BY <3>1 DEF Init
    <2>3. TypeOK
      BY <2>1, <2>2 DEF Init, TypeOK, Times
    <2>4. QED
      BY <2>3 DEF Init, TimersInv, InCall
  <1>2. TimersInv /\ [Next]_vars => TimersInv'
    <2> SUFFICES ASSUME TimersInv, [Next]_vars PROVE TimersInv'
      OBVIOUS
    <2>1. CASE AskReturn
      <3>1. wake' \in Nat \cup {None}
        BY <2>1, AskReturnWakes
      <3>2. TypeOK' /\ ~InCall'
        BY <2>1, <3>1 DEF TimersInv, AskReturn, TypeOK, asking, InCall
      <3>3. QED
        BY <3>2 DEF TimersInv, InCall
    <2>2. CASE handleTimers
      <3>1. SweepEnd \in 0..Rows
        BY TimersAssumption DEF SweepEnd
      <3>2. QED
        BY <2>2, <3>1, HandledStep, IdleStep DEF handleTimers, TimersInv
    <2>3. CASE handleTimersThrows
      <3>1. PICK n \in 1..Rows : Handled(n - 1)
        BY <2>3 DEF handleTimersThrows
      <3>2. n - 1 \in 0..Rows
        BY TimersAssumption
      <3>3. QED
        BY <2>3, <3>1, <3>2, HandledStep, IdleStep DEF handleTimersThrows, TimersInv
    <2>4. CASE UNCHANGED vars
      <3>1. UNCHANGED <<now, offset, expiry, idle, api, pc, row, part, best, lag, wake>>
        BY <2>4 DEF vars, asking
      <3>2. TypeOK' = TypeOK /\ InCall' = InCall /\ RowsAsked' = RowsAsked
            /\ RowInHand' = RowInHand
        BY <3>1 DEF TypeOK, InCall, RowsAsked, RowInHand, WakeAt, Latest, Slack
      <3>3. QED
        BY <3>1, <3>2 DEF TimersInv
    <2>5. QED
      BY <2>1, <2>2, <2>3, <2>4, AskBeginStep, AskClosedStep, AskTimeoutStep, AskExpiryStep,
         AskWallClockStep, DatagramStep, TickStep DEF Next, Ask
  <1>3. QED
    BY <1>1, <1>2, PTL DEF Spec

(* No timeout is negative, and every deadline is one the code can compute. *)
THEOREM TimersTypeCorrect == Spec => []TypeOK
  <1>1. TimersInv => TypeOK
    BY DEF TimersInv
  <1>2. QED
    BY <1>1, TimersInvariant, PTL

(* The steps that return from a call                                       *)
LEMMA ReturnsOnly == [Next]_vars /\ Returns => AskReturn
  BY DEF Next, Ask, vars, Returns, AskBegin, AskClosed, AskTimeout, AskExpiry, AskWallClock,
         handleTimers, handleTimersThrows, Datagram, Tick, NextRow

(* The application never sleeps past a deadline by more than the time that *)
(* went by inside the call.                                                *)
THEOREM NeverSleepsPastADeadline == Spec => NeverLate
  <1>1. TimersInv /\ [Next]_vars =>
          (Returns => \A r \in 1..Rows :
             expiry[r] # None =>
               /\ wake' # None
               /\ wake' <= (IF expiry[r] > now THEN expiry[r] ELSE now) + lag)
    BY ReturnsOnly, AskReturnWakes
  <1>2. QED
    BY <1>1, TimersInvariant, PTL DEF Spec, NeverLate

(* The application never wakes much earlier than every deadline.           *)
THEOREM WakesNearADeadline == Spec => NotTooEarly
  <1>1. TimersInv /\ [Next]_vars =>
          (Returns /\ wake' # None => \E r \in 1..Rows :
             /\ expiry[r] # None
             /\ expiry[r] < wake' + (IF api = "timeout" THEN MS ELSE 2 * MS))
    BY ReturnsOnly, AskReturnWakes DEF Slack
  <1>2. QED
    BY <1>1, TimersInvariant, PTL DEF Spec, NotTooEarly

============================================================================
