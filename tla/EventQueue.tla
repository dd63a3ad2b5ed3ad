----------------------------- MODULE EventQueue -----------------------------
(* What the event queue of a connection promises: drainEvents() returns    *)
(* the events push_event() pushed, each once, oldest first.                *)
EXTENDS Sequences

CONSTANT Events

VARIABLES
  q,      \* the events that wait
  out     \* the event the last pop returned, or "none" when it had none

Init == q = <<>> /\ out = "none"

Push(e) == q' = Append(q, e) /\ UNCHANGED out

Pop == q # <<>> /\ out' = Head(q) /\ q' = Tail(q)

PopEmpty == q = <<>> /\ out' = "none" /\ UNCHANGED q

Next == (\E e \in Events : Push(e)) \/ Pop \/ PopEmpty

Spec == Init /\ [][Next]_<<q, out>>
============================================================================
