--------------------------- MODULE EventQueueList ---------------------------
(***************************************************************************)
(* php_quic_event_queue: a singly linked list with a head, a tail and a    *)
(* size, whose nodes come from emalloc and go back through efree.  A freed *)
(* node keeps its contents until it is allocated again.                    *)
(***************************************************************************)
EXTENDS Naturals, Sequences

CONSTANTS
  Events,    \* what can be queued
  Nodes,     \* addresses emalloc can return: the bound on the queue's length
  NULL       \* the null pointer

ASSUME NullAssumption == NULL \notin Nodes

VARIABLES
  cell,      \* memory: the event and the next pointer at every address
  live,      \* addresses that are allocated
  head, tail, size,
  out,       \* the event the last pop returned, or "none"
  chain      \* history: the nodes in the order of their push

vars == <<cell, live, head, tail, size, out, chain>>

Cell == [event : Events \cup {"none"}, next : Nodes \cup {NULL}]

Init ==
  /\ cell = [n \in Nodes |-> [event |-> "none", next |-> NULL]]
  /\ live = {}
  /\ head = NULL /\ tail = NULL /\ size = 0
  /\ out = "none"
  /\ chain = <<>>

(* Fault: every push makes its node the head                               *)
HeadAfterPush_Newest(n) == n

HeadAfterPush(n) == IF tail # NULL THEN head ELSE n

(* the new node, written before it is linked from the old tail             *)
Written(n, e) == [cell EXCEPT ![n] = [event |-> e, next |-> NULL]]

Linked(mem, n) == IF tail = NULL THEN mem
                  ELSE [mem EXCEPT ![tail] = [@ EXCEPT !.next = n]]

Push(e) ==
  \E n \in Nodes \ live :
    /\ cell' = Linked(Written(n, e), n)
    /\ live' = live \cup {n}
    /\ head' = HeadAfterPush(n)
    /\ tail' = n
    /\ size' = size + 1
    /\ chain' = Append(chain, n)
    /\ UNCHANGED out

(* Fault: the tail still points to the last node after it is freed         *)
TailAfterPop_Kept(next) == tail

TailAfterPop(next) == IF next = NULL THEN NULL ELSE tail

(* one turn of the loops of drainEvents() and event_queue_destroy()        *)
Pop ==
  /\ head # NULL
  /\ out' = cell[head].event
  /\ head' = cell[head].next
  /\ tail' = TailAfterPop(cell[head].next)
  /\ live' = live \ {head}
  /\ size' = size - 1
  /\ chain' = Tail(chain)
  /\ UNCHANGED cell

PopEmpty ==
  /\ head = NULL
  /\ out' = "none"
  /\ UNCHANGED <<cell, live, head, tail, size, chain>>

Next == (\E e \in Events : Push(e)) \/ Pop \/ PopEmpty

Spec == Init /\ [][Next]_vars
----------------------------------------------------------------------------
(* The types, and the list: chain lists the allocated nodes without        *)
(* repetition, head and tail are its ends, every next pointer leads to the *)
(* next of them, and size counts them.  In particular no pointer the code  *)
(* follows leads to a freed node.                                          *)
TypeOK ==
  /\ cell \in [Nodes -> Cell] /\ live \subseteq Nodes
  /\ head \in Nodes \cup {NULL} /\ tail \in Nodes \cup {NULL}
  /\ size \in Nat /\ out \in Events \cup {"none"} /\ chain \in Seq(Nodes)

ChainInv ==
  /\ \A i, j \in DOMAIN chain : chain[i] = chain[j] => i = j
  /\ \A n \in Nodes : n \in live <=> \E i \in DOMAIN chain : chain[i] = n

EndsInv ==
  /\ size = Len(chain)
  /\ head = IF chain = <<>> THEN NULL ELSE chain[1]
  /\ tail = IF chain = <<>> THEN NULL ELSE chain[Len(chain)]

LinksInv ==
  \A i \in DOMAIN chain :
    cell[chain[i]].next = IF i = Len(chain) THEN NULL ELSE chain[i + 1]

ListInv == TypeOK /\ ChainInv /\ EndsInv /\ LinksInv

(* The list implements the first-in first-out queue of EventQueue.         *)
Fifo == INSTANCE EventQueue
          WITH q <- [i \in 1..Len(chain) |-> cell[chain[i]].event], out <- out

ImplementsFifo == Fifo!Spec
============================================================================
