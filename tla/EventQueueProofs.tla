-------------------------- MODULE EventQueueProofs --------------------------
(* The linked list of queue.c is a queue, whatever the number of nodes.    *)
EXTENDS EventQueueList, SequenceTheorems, TLAPS

(* What Append does to the nodes in order.                                 *)
LEMMA AppendFacts ==
  ASSUME NEW S, NEW s \in Seq(S), NEW x \in S
  PROVE  /\ Append(s, x) \in Seq(S) /\ Len(Append(s, x)) = Len(s) + 1
         /\ \A i \in 1..Len(s) : Append(s, x)[i] = s[i]
         /\ Append(s, x)[Len(s) + 1] = x
         /\ Append(s, x) # <<>>
  OBVIOUS

(* What Tail does to the nodes in order.                                   *)
LEMMA TailFacts ==
  ASSUME NEW S, NEW s \in Seq(S), s # <<>>
  PROVE  /\ Tail(s) \in Seq(S) /\ Len(s) >= 1 /\ Len(Tail(s)) = Len(s) - 1
         /\ \A i \in 1..(Len(s) - 1) : Tail(s)[i] = s[i + 1]
         /\ Tail(s) = <<>> <=> Len(s) = 1
  <1>1. /\ Tail(s) \in Seq(S) /\ Len(Tail(s)) = Len(s) - 1
        /\ \A i \in 1..Len(Tail(s)) : Tail(s)[i] = s[i + 1]
    BY HeadTailProperties
  <1>2. Len(s) \in Nat /\ Len(s) # 0 /\ (Tail(s) = <<>> <=> Len(Tail(s)) = 0)
    BY <1>1, EmptySeq
  <1>3. QED
    BY <1>1, <1>2

(* A sequence has a domain of its length, and is empty when that is zero.  *)
LEMMA SeqFacts ==
  ASSUME NEW S, NEW s \in Seq(S)
  PROVE  Len(s) \in Nat /\ DOMAIN s = 1..Len(s) /\ (s = <<>> <=> Len(s) = 0)
         /\ \A i \in 1..Len(s) : s[i] \in S
  OBVIOUS

(* The memory after a push: the new node, the old tail, the rest.          *)
LEMMA PushCells ==
  ASSUME ListInv, NEW e \in Events, NEW n \in Nodes \ live,
         cell' = Linked(Written(n, e), n)
  PROVE  /\ cell' \in [Nodes -> Cell]
         /\ cell'[n] = [event |-> e, next |-> NULL]
         /\ \A m \in Nodes \ {n} : cell'[m].event = cell[m].event
         /\ \A m \in Nodes \ {n} : m # tail => cell'[m].next = cell[m].next
         /\ tail # NULL => tail \in Nodes \ {n} /\ cell'[tail].next = n
  <1>1. cell \in [Nodes -> Cell] /\ tail \in Nodes \cup {NULL}
    BY DEF ListInv, TypeOK
  <1> DEFINE new == [event |-> e, next |-> NULL]
             mem == Written(n, e)
  <1>2. new \in Cell
    BY DEF Cell
  <1>3. mem \in [Nodes -> Cell] /\ mem[n] = new /\ \A m \in Nodes \ {n} : mem[m] = cell[m]
    BY <1>1, <1>2 DEF Written
  <1> HIDE DEF mem, new
  <1>4. CASE tail = NULL
    <2>1. cell' = mem
      BY <1>4 DEF Linked, mem
    <2>2. QED
      BY <1>3, <1>4, <2>1 DEF new
  <1>5. CASE tail # NULL
    <2>1. tail \in Nodes /\ tail # n
      <3>1. chain \in Seq(Nodes) /\ chain # <<>> /\ tail = chain[Len(chain)]
        BY <1>5 DEF ListInv, TypeOK, EndsInv
      <3>2. Len(chain) \in DOMAIN chain
        BY <3>1, SeqFacts
      <3>3. tail \in live
        BY <1>1, <1>5, <3>1, <3>2 DEF ListInv, ChainInv
      <3>4. QED
        BY <1>1, <1>5, <3>3
    <2> DEFINE old == [mem[tail] EXCEPT !.next = n]
    <2>2. mem[tail] \in Cell
      BY <1>3, <2>1
    <2>3. old \in Cell /\ old.next = n /\ old.event = mem[tail].event
      BY <2>2 DEF Cell
    <2>4. cell' = [mem EXCEPT ![tail] = old]
      BY <1>5 DEF Linked, mem
    <2> HIDE DEF old
    <2>5. /\ cell' \in [Nodes -> Cell] /\ cell'[tail] = old
          /\ \A m \in Nodes \ {tail} : cell'[m] = mem[m]
      BY <1>3, <2>1, <2>3, <2>4
    <2>6. QED
      BY <1>3, <1>5, <2>1, <2>3, <2>5 DEF new
  <1>6. QED
    BY <1>4, <1>5

(* Pushing preserves the list.                                             *)
LEMMA PushStep ==
  ASSUME ListInv, NEW e \in Events, NEW n \in Nodes \ live,
         cell' = Linked(Written(n, e), n), live' = live \cup {n},
         head' = HeadAfterPush(n), tail' = n, size' = size + 1,
         chain' = Append(chain, n), UNCHANGED out
  PROVE  ListInv'
  <1> DEFINE len == Len(chain)
  <1>1. /\ chain \in Seq(Nodes) /\ len \in Nat /\ DOMAIN chain = 1..len
        /\ (chain = <<>> <=> len = 0) /\ \A i \in 1..len : chain[i] \in Nodes
    BY SeqFacts DEF ListInv, TypeOK
  <1>2. /\ chain' \in Seq(Nodes) /\ Len(chain') = len + 1 /\ chain' # <<>>
        /\ \A i \in 1..len : chain'[i] = chain[i]
        /\ chain'[len + 1] = n
    BY <1>1, AppendFacts
  <1>3. DOMAIN chain' = 1..(len + 1)
    BY <1>2, SeqFacts
  <1>4. /\ cell' \in [Nodes -> Cell]
        /\ cell'[n] = [event |-> e, next |-> NULL]
        /\ \A m \in Nodes \ {n} : m # tail => cell'[m].next = cell[m].next
        /\ tail # NULL => tail \in Nodes \ {n} /\ cell'[tail].next = n
    BY PushCells
  <1>5. \A i \in 1..len : chain[i] # n /\ chain[i] \in live
    BY <1>1 DEF ListInv, ChainInv
  <1> HIDE DEF len
  <1>6. TypeOK'
    <2>1. size' \in Nat
      BY DEF ListInv, TypeOK
    <2>2. head' \in Nodes \cup {NULL} /\ tail' \in Nodes \cup {NULL} /\ live' \subseteq Nodes
      BY DEF ListInv, TypeOK, HeadAfterPush
    <2>3. QED
      BY <1>2, <1>4, <2>1, <2>2 DEF ListInv, TypeOK
  <1>7. ChainInv'
    <2>1. \A i, j \in 1..len : chain[i] = chain[j] => i = j
      BY <1>1 DEF ListInv, ChainInv
    <2>2. \A i, j \in 1..(len + 1) : chain'[i] = chain'[j] => i = j
      <3>1. \A i \in 1..(len + 1) : i \in 1..len \/ i = len + 1
        BY <1>1
      <3>2. QED
        BY <1>2, <1>5, <2>1, <3>1
    <2>3. \A m \in Nodes : m \in live <=> \E i \in 1..len : chain[i] = m
      BY <1>1 DEF ListInv, ChainInv
    <2>4. \A m \in Nodes : m \in live' <=> \E i \in 1..(len + 1) : chain'[i] = m
      <3>1. len + 1 \in 1..(len + 1) /\ \A i \in 1..len : i \in 1..(len + 1)
        BY <1>1
      <3>2. \A i \in 1..(len + 1) : i \in 1..len \/ i = len + 1
        BY <1>1
      <3>3. QED
        BY <1>2, <2>3, <3>1, <3>2
    <2>5. QED
      BY <1>3, <2>2, <2>4 DEF ChainInv
  <1>8. EndsInv'
    <2>1. size' = Len(chain')
      BY <1>1, <1>2 DEF ListInv, EndsInv, len
    <2>2. tail' = chain'[Len(chain')]
      BY <1>2
    <2>3. head' = chain'[1]
      <3>1. CASE len = 0
        <4>1. tail = NULL
          BY <1>1, <3>1 DEF ListInv, EndsInv
        <4>2. QED
          BY <1>2, <3>1, <4>1 DEF HeadAfterPush
      <3>2. CASE len # 0
        <4>1. 1 \in 1..len /\ len \in 1..len
          BY <1>1, <3>2
        <4>2. head = chain[1] /\ tail = chain[len]
          BY <1>1, <3>2 DEF ListInv, EndsInv, len
        <4>3. tail # NULL
          BY <1>1, <4>1, <4>2, NullAssumption
        <4>4. QED
          BY <1>2, <4>1, <4>2, <4>3 DEF HeadAfterPush
      <3>3. QED
        BY <3>1, <3>2
    <2>4. QED
      BY <1>2, <2>1, <2>2, <2>3 DEF EndsInv
  <1>9. LinksInv'
    <2> SUFFICES ASSUME NEW i \in 1..(len + 1)
                 PROVE  cell'[chain'[i]].next
                          = IF i = len + 1 THEN NULL ELSE chain'[i + 1]
      BY <1>2, <1>3 DEF LinksInv
    <2>1. CASE i = len + 1
      BY <1>2, <1>4, <2>1
    <2>2. CASE i = len /\ i # len + 1
      <3>1. i \in 1..len
        BY <1>1, <2>2
      <3>2. tail = chain[len] /\ tail # NULL
        <4>1. tail = chain[len]
          BY <1>1, <2>2, <3>1 DEF ListInv, EndsInv, len
        <4>2. QED
          BY <1>1, <2>2, <3>1, <4>1, NullAssumption
      <3>3. chain'[i] = tail /\ chain'[i + 1] = n
        BY <1>2, <2>2, <3>1, <3>2
      <3>4. QED
        BY <1>4, <2>2, <3>2, <3>3
    <2>3. CASE i # len /\ i # len + 1
      <3>1. i \in 1..len /\ i + 1 \in 1..len /\ len \in 1..len
        BY <1>1, <2>3
      <3>2. tail = chain[len]
        BY <1>1, <3>1 DEF ListInv, EndsInv, len
      <3>3. chain[i] # tail
        BY <1>1, <2>3, <3>1, <3>2 DEF ListInv, ChainInv
      <3>4. cell[chain[i]].next = chain[i + 1]
        BY <1>1, <2>3, <3>1 DEF ListInv, LinksInv, len
      <3>5. QED
        BY <1>1, <1>2, <1>4, <1>5, <2>3, <3>1, <3>3, <3>4
    <2>4. QED
      BY <2>1, <2>2, <2>3
  <1>10. QED
    BY <1>6, <1>7, <1>8, <1>9 DEF ListInv

(* The first node, when the list is not empty.                             *)
LEMMA HeadNode ==
  ASSUME ListInv, head # NULL
  PROVE  /\ chain # <<>> /\ Len(chain) >= 1 /\ head = chain[1] /\ head \in Nodes
         /\ cell[head].next = IF Len(chain) = 1 THEN NULL ELSE chain[2]
  <1>1. chain \in Seq(Nodes) /\ chain # <<>> /\ head = chain[1] /\ head \in Nodes
    BY DEF ListInv, TypeOK, EndsInv
  <1>2. Len(chain) \in Nat /\ Len(chain) # 0 /\ DOMAIN chain = 1..Len(chain)
    BY <1>1, SeqFacts
  <1>3. Len(chain) >= 1 /\ 1 \in DOMAIN chain
    BY <1>2
  <1>4. cell[head].next = IF 1 = Len(chain) THEN NULL ELSE chain[1 + 1]
    BY <1>1, <1>3 DEF ListInv, LinksInv
  <1>5. QED
    BY <1>1, <1>3, <1>4

(* Popping preserves the list.                                             *)
LEMMA PopStep ==
  ASSUME ListInv, Pop
  PROVE  ListInv'
  <1> DEFINE len == Len(chain)
  <1>1. /\ chain \in Seq(Nodes) /\ len \in Nat /\ DOMAIN chain = 1..len
        /\ (chain = <<>> <=> len = 0) /\ \A i \in 1..len : chain[i] \in Nodes
    BY SeqFacts DEF ListInv, TypeOK
  <1>2. /\ head # NULL /\ chain # <<>> /\ len >= 1 /\ head = chain[1] /\ head \in Nodes
        /\ cell[head].next = IF len = 1 THEN NULL ELSE chain[2]
    BY HeadNode DEF Pop
  <1>3. /\ chain' \in Seq(Nodes) /\ Len(chain') = len - 1
        /\ \A i \in 1..(len - 1) : chain'[i] = chain[i + 1]
        /\ (chain' = <<>> <=> len = 1)
    BY <1>1, <1>2, TailFacts DEF Pop
  <1>4. DOMAIN chain' = 1..(len - 1)
    BY <1>3, SeqFacts
  <1> HIDE DEF len
  <1>5. /\ UNCHANGED cell /\ head' = cell[head].next /\ live' = live \ {head}
        /\ tail' = (IF cell[head].next = NULL THEN NULL ELSE tail)
        /\ size' = size - 1 /\ out' = cell[head].event
    BY DEF Pop, TailAfterPop
  <1>6. \A i \in 1..(len - 1) : i + 1 \in 1..len /\ i + 1 # 1
    BY <1>1, <1>2
  <1>7. \A i \in 1..len : i = 1 \/ i - 1 \in 1..(len - 1)
    BY <1>1, <1>2
  <1>8. len # 1 => 2 \in 1..len /\ 1 \in 1..(len - 1)
    BY <1>1, <1>2
  <1>9. head' = IF chain' = <<>> THEN NULL ELSE chain'[1]
    <2>1. CASE len = 1
      BY <1>2, <1>3, <1>5, <2>1
    <2>2. CASE len # 1
      <3>1. chain'[1] = chain[1 + 1]
        BY <1>3, <1>8, <2>2
      <3>2. QED
        BY <1>2, <1>3, <1>5, <2>2, <3>1
    <2>3. QED
      BY <2>1, <2>2
  <1>10. tail' = IF chain' = <<>> THEN NULL ELSE chain'[Len(chain')]
    <2>1. CASE len = 1
      BY <1>2, <1>3, <1>5, <2>1
    <2>2. CASE len # 1
      <3>1. cell[head].next # NULL
        BY <1>1, <1>2, <1>8, <2>2, NullAssumption
      <3>2. tail = chain[len]
        BY <1>2 DEF ListInv, EndsInv, len
      <3>3. len - 1 \in 1..(len - 1) /\ (len - 1) + 1 = len
        BY <1>1, <1>2, <2>2
      <3>4. chain'[len - 1] = chain[len]
        BY <1>3, <3>3
      <3>5. QED
        BY <1>3, <1>5, <2>2, <3>1, <3>2, <3>4
    <2>3. QED
      BY <2>1, <2>2
  <1>11. EndsInv'
    <2>1. size' = Len(chain')
      BY <1>3, <1>5 DEF ListInv, EndsInv, len
    <2>2. QED
      BY <1>9, <1>10, <2>1 DEF EndsInv
  <1>12. TypeOK'
    <2>1. cell[head] \in Cell /\ size = len
      BY <1>2 DEF ListInv, TypeOK, EndsInv, len
    <2>2. cell[head].next \in Nodes \cup {NULL} /\ cell[head].event \in Events \cup {"none"}
      BY <2>1 DEF Cell
    <2>3. size' \in Nat
      BY <1>1, <1>2, <1>5, <2>1
    <2>4. QED
      BY <1>3, <1>5, <2>2, <2>3 DEF ListInv, TypeOK
  <1>13. ChainInv'
    <2>1. \A i, j \in 1..len : chain[i] = chain[j] => i = j
      BY <1>1 DEF ListInv, ChainInv
    <2>2. \A i, j \in 1..(len - 1) : chain'[i] = chain'[j] => i = j
      <3>1. \A i, j \in 1..(len - 1) : i + 1 = j + 1 => i = j
        BY <1>1
      <3>2. QED
        BY <1>3, <1>6, <2>1, <3>1
    <2>3. \A m \in Nodes : m \in live <=> \E i \in 1..len : chain[i] = m
      BY <1>1 DEF ListInv, ChainInv
    <2>4. ASSUME NEW m \in Nodes
          PROVE  m \in live' <=> \E i \in 1..(len - 1) : chain'[i] = m
      <3>1. ASSUME m \in live' PROVE \E i \in 1..(len - 1) : chain'[i] = m
        <4>1. PICK i \in 1..len : chain[i] = m
          BY <1>5, <2>3, <3>1
        <4>2. i # 1
          BY <1>2, <1>5, <3>1, <4>1
        <4>3. i - 1 \in 1..(len - 1) /\ (i - 1) + 1 = i
          BY <1>1, <1>7, <4>2
        <4>4. chain'[i - 1] = m
          BY <1>3, <4>1, <4>3
        <4>5. QED
          BY <4>3, <4>4
      <3>2. ASSUME NEW i \in 1..(len - 1), chain'[i] = m PROVE m \in live'
        <4>1. chain[i + 1] = m /\ i + 1 \in 1..len /\ i + 1 # 1
          BY <1>3, <1>6, <3>2
        <4>2. 1 \in 1..len
          BY <1>1, <1>2
        <4>3. m # head
          BY <1>2, <2>1, <4>1, <4>2
        <4>4. QED
          BY <1>5, <2>3, <4>1, <4>3
      <3>3. QED
        BY <3>1, <3>2
    <2>5. QED
      BY <1>4, <2>2, <2>4 DEF ChainInv
  <1>14. LinksInv'
    <2> SUFFICES ASSUME NEW i \in 1..(len - 1)
                 PROVE  cell'[chain'[i]].next
                          = IF i = len - 1 THEN NULL ELSE chain'[i + 1]
      BY <1>3, <1>4 DEF LinksInv
    <2>1. chain'[i] = chain[i + 1] /\ i + 1 \in 1..len
      BY <1>3, <1>6
    <2>2. cell[chain[i + 1]].next = IF i + 1 = len THEN NULL ELSE chain[(i + 1) + 1]
      BY <1>1, <2>1 DEF ListInv, LinksInv, len
    <2>3. i + 1 = len <=> i = len - 1
      BY <1>1
    <2>4. i # len - 1 => i + 1 \in 1..(len - 1)
      BY <1>1
    <2>5. i # len - 1 => chain'[i + 1] = chain[(i + 1) + 1]
      BY <1>3, <2>4
    <2>6. QED
      BY <1>5, <2>1, <2>2, <2>3, <2>5
  <1>15. QED
    BY <1>11, <1>12, <1>13, <1>14 DEF ListInv

(* The list is well formed after every push and pop: head, tail, size and  *)
(* the next pointers agree, and no pointer leads to a freed node.          *)
THEOREM ListCorrect == Spec => []ListInv
  <1>1. Init => ListInv
    <2> SUFFICES ASSUME Init PROVE ListInv
      OBVIOUS
    <2>1. chain = <<>> /\ chain \in Seq(Nodes) /\ Len(chain) = 0 /\ DOMAIN chain = {}
      BY DEF Init
    <2>2. TypeOK
      BY <2>1 DEF Init, TypeOK, Cell
    <2>3. ChainInv /\ EndsInv /\ LinksInv
      BY <2>1 DEF Init, ChainInv, EndsInv, LinksInv
    <2>4. QED
      BY <2>2, <2>3 DEF ListInv
  <1>2. ListInv /\ [Next]_vars => ListInv'
    <2> SUFFICES ASSUME ListInv, [Next]_vars PROVE ListInv'
      OBVIOUS
    <2>1. ASSUME NEW e \in Events, Push(e) PROVE ListInv'
      BY <2>1, PushStep DEF Push
    <2>2. CASE Pop
      BY <2>2, PopStep
    <2>3. CASE PopEmpty \/ UNCHANGED vars
      <3>1. UNCHANGED <<cell, live, head, tail, size, chain>>
        BY <2>3 DEF PopEmpty, vars
      <3>2. out' \in Events \cup {"none"}
        BY <2>3 DEF PopEmpty, vars, ListInv, TypeOK
      <3>3. QED
        BY <3>1, <3>2 DEF ListInv, TypeOK, ChainInv, EndsInv, LinksInv
    <2>4. QED
      BY <2>1, <2>2, <2>3 DEF Next
  <1>3. QED
    BY <1>1, <1>2, PTL DEF Spec

(* The events at the nodes of ch: what the refinement mapping gives q.     *)
EventsAt(mem, ch) == [i \in 1..Len(ch) |-> mem[ch[i]].event]

Waiting == EventsAt(cell, chain)

(* The queue is a sequence as long as the list.                            *)
LEMMA EventsAtFacts ==
  ASSUME NEW mem \in [Nodes -> Cell], NEW ch \in Seq(Nodes)
  PROVE  /\ EventsAt(mem, ch) \in Seq(Events \cup {"none"})
         /\ Len(EventsAt(mem, ch)) = Len(ch) /\ Len(ch) \in Nat
         /\ \A i \in 1..Len(ch) : EventsAt(mem, ch)[i] = mem[ch[i]].event
  <1> DEFINE w == EventsAt(mem, ch)
  <1>1. Len(ch) \in Nat /\ \A i \in 1..Len(ch) : ch[i] \in Nodes
    BY SeqFacts
  <1>2. \A i \in 1..Len(ch) : mem[ch[i]].event \in Events \cup {"none"}
    BY <1>1 DEF Cell
  <1>3. w \in [1..Len(ch) -> Events \cup {"none"}] /\ DOMAIN w = 1..Len(ch)
    BY <1>2 DEF EventsAt
  <1>4. w \in Seq(Events \cup {"none"})
    BY <1>1, <1>3
  <1>5. Len(w) = Len(ch)
    <2>1. DOMAIN w = 1..Len(w) /\ Len(w) \in Nat
      BY <1>4, SeqFacts
    <2> HIDE DEF w
    <2>2. QED
      BY <1>1, <1>3, <2>1
  <1>6. QED
    BY <1>1, <1>4, <1>5 DEF EventsAt

(* A push appends to the queue.                                            *)
LEMMA PushRefines ==
  ASSUME ListInv, ListInv', NEW e \in Events, Push(e)
  PROVE  Waiting' = Append(Waiting, e) /\ UNCHANGED out
  <1>1. PICK n \in Nodes \ live : /\ cell' = Linked(Written(n, e), n)
                                  /\ chain' = Append(chain, n) /\ UNCHANGED out
    BY DEF Push
  <1> DEFINE len == Len(chain)
             S == Events \cup {"none"}
  <1>2. /\ Waiting \in Seq(S) /\ Len(Waiting) = len /\ len \in Nat
        /\ \A i \in 1..len : Waiting[i] = cell[chain[i]].event
    BY EventsAtFacts DEF Waiting, ListInv, TypeOK
  <1>3. /\ Waiting' \in Seq(S) /\ Len(Waiting') = Len(chain')
        /\ \A i \in 1..Len(chain') : Waiting'[i] = cell'[chain'[i]].event
    BY EventsAtFacts DEF Waiting, ListInv, TypeOK
  <1>4. /\ chain \in Seq(Nodes) /\ Len(chain') = len + 1 /\ chain'[len + 1] = n
        /\ \A i \in 1..len : chain'[i] = chain[i]
    BY <1>1, AppendFacts DEF ListInv, TypeOK
  <1>5. /\ cell'[n] = [event |-> e, next |-> NULL]
        /\ \A m \in Nodes \ {n} : cell'[m].event = cell[m].event
    BY <1>1, PushCells
  <1>6. \A i \in 1..len : chain[i] \in Nodes \ {n}
    BY <1>4, SeqFacts DEF ListInv, ChainInv
  <1>7. /\ Append(Waiting, e) \in Seq(S) /\ Len(Append(Waiting, e)) = len + 1
        /\ \A i \in 1..len : Append(Waiting, e)[i] = Waiting[i]
        /\ Append(Waiting, e)[len + 1] = e
    BY <1>2, AppendFacts
  <1> HIDE DEF len, S
  <1>8. \A i \in 1..(len + 1) : Waiting'[i] = Append(Waiting, e)[i]
    <2> SUFFICES ASSUME NEW i \in 1..(len + 1)
                 PROVE  Waiting'[i] = Append(Waiting, e)[i]
      OBVIOUS
    <2>1. CASE i = len + 1
      <3>1. Waiting'[i] = cell'[n].event
        BY <1>3, <1>4, <2>1
      <3>2. QED
        BY <1>5, <1>7, <2>1, <3>1
    <2>2. CASE i # len + 1
      <3>1. i \in 1..len
        BY <1>2, <2>2
      <3>2. Waiting'[i] = cell'[chain[i]].event
        BY <1>3, <1>4, <3>1
      <3>3. QED
        BY <1>2, <1>5, <1>6, <1>7, <3>1, <3>2
    <2>3. QED
      BY <2>1, <2>2
  <1>9. QED
    BY <1>1, <1>3, <1>4, <1>7, <1>8, SeqEqual

(* A pop returns the oldest event and removes it from the queue.           *)
LEMMA PopRefines ==
  ASSUME ListInv, ListInv', Pop
  PROVE  Waiting # <<>> /\ out' = Head(Waiting) /\ Waiting' = Tail(Waiting)
  <1> DEFINE len == Len(chain)
             S == Events \cup {"none"}
  <1>1. /\ head # NULL /\ chain # <<>> /\ len >= 1 /\ head = chain[1]
    BY HeadNode DEF Pop
  <1>2. /\ Waiting \in Seq(S) /\ Len(Waiting) = len /\ len \in Nat
        /\ \A i \in 1..len : Waiting[i] = cell[chain[i]].event
    BY EventsAtFacts DEF Waiting, ListInv, TypeOK
  <1>3. /\ Waiting' \in Seq(S) /\ Len(Waiting') = Len(chain')
        /\ \A i \in 1..Len(chain') : Waiting'[i] = cell'[chain'[i]].event
    BY EventsAtFacts DEF Waiting, ListInv, TypeOK
  <1>4. /\ Len(chain') = len - 1
        /\ \A i \in 1..(len - 1) : chain'[i] = chain[i + 1]
    BY <1>1, TailFacts DEF Pop, ListInv, TypeOK
  <1> HIDE DEF len, S
  <1>5. Waiting # <<>>
    BY <1>1, <1>2, SeqFacts
  <1>6. /\ Tail(Waiting) \in Seq(S) /\ Len(Tail(Waiting)) = len - 1
        /\ \A i \in 1..(len - 1) : Tail(Waiting)[i] = Waiting[i + 1]
    BY <1>2, <1>5, TailFacts
  <1>7. out' = Head(Waiting)
    <2>1. out' = Waiting[1]
      BY <1>1, <1>2 DEF Pop
    <2>2. QED
      BY <1>2, <1>5, <2>1
  <1>8. \A i \in 1..(len - 1) : Waiting'[i] = Tail(Waiting)[i]
    <2>1. \A i \in 1..(len - 1) : i + 1 \in 1..len
      BY <1>2
    <2>2. cell' = cell
      BY DEF Pop
    <2>3. QED
      BY <1>2, <1>3, <1>4, <1>6, <2>1, <2>2
  <1>9. QED
    BY <1>3, <1>4, <1>5, <1>6, <1>7, <1>8, SeqEqual

(* queue.c implements the first-in first-out queue: whatever the order of  *)
(* pushes and pops, drainEvents() returns each event once, oldest first.   *)
THEOREM QueueImplementsFifo == Spec => ImplementsFifo
  <1>1. Init => Fifo!Init
    <2> SUFFICES ASSUME Init PROVE Fifo!Init
      OBVIOUS
    <2>1. Len(chain) = 0 /\ out = "none"
      BY DEF Init
    <2>2. QED
      BY <2>1 DEF Fifo!Init
  <1>2. ListInv /\ ListInv' /\ [Next]_vars => [Fifo!Next]_<<Waiting, out>>
    <2> SUFFICES ASSUME ListInv, ListInv', [Next]_vars
                 PROVE  Fifo!Next \/ UNCHANGED <<Waiting, out>>
      OBVIOUS
    <2>1. ASSUME NEW e \in Events, Push(e) PROVE Fifo!Next
      BY <2>1, PushRefines DEF Fifo!Next, Fifo!Push, Waiting, EventsAt
    <2>2. CASE Pop
      BY <2>2, PopRefines DEF Fifo!Next, Fifo!Pop, Waiting, EventsAt
    <2>3. CASE PopEmpty
      <3>1. chain = <<>> /\ UNCHANGED <<cell, chain>> /\ out' = "none"
        <4>1. \A i \in 1..Len(chain) : chain[i] # NULL
          BY NullAssumption, SeqFacts DEF ListInv, TypeOK
        <4>2. chain # <<>> => head = chain[1] /\ 1 \in 1..Len(chain)
          BY SeqFacts DEF ListInv, TypeOK, EndsInv
        <4>3. QED
          BY <2>3, <4>1, <4>2 DEF PopEmpty
      <3>2. Waiting = <<>>
        BY <3>1 DEF Waiting, EventsAt
      <3>3. Waiting' = Waiting
        BY <3>1 DEF Waiting
      <3>4. QED
        BY <3>1, <3>2, <3>3 DEF Fifo!Next, Fifo!PopEmpty, Waiting, EventsAt
    <2>4. CASE UNCHANGED vars
      BY <2>4 DEF vars, Waiting
    <2>5. QED
      BY <2>1, <2>2, <2>3, <2>4 DEF Next
  <1>3. [Fifo!Next]_<<Waiting, out>> => [Fifo!Next]_<<EventsAt(cell, chain), out>>
    BY DEF Waiting
  <1>4. QED
    BY <1>1, <1>2, ListCorrect, PTL
       DEF ImplementsFifo, Fifo!Spec, Spec, Waiting, EventsAt
============================================================================
