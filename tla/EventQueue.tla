------------------------------ MODULE EventQueue ------------------------------
(***************************************************************************)
(* What the telemetry ring promises: a bounded queue.  Events enter in one  *)
(* order and are read in that order, each once and none invented, and no    *)
(* more than Capacity wait at a time.  An event that finds no room is given  *)
(* up by its producer and never enters.                                      *)
(***************************************************************************)
EXTENDS Naturals, Sequences

CONSTANTS Capacity, Events

VARIABLES
  queue,   \* events that wait, oldest first
  out      \* events read, in the order of reading

vars == <<queue, out>>

Init == queue = <<>> /\ out = <<>>

Enqueue ==
  /\ Len(queue) < Capacity
  /\ \E e \in Events : queue' = Append(queue, e)
  /\ UNCHANGED out

Dequeue ==
  /\ queue # <<>>
  /\ out' = Append(out, Head(queue))
  /\ queue' = Tail(queue)

Next == Enqueue \/ Dequeue

Spec == Init /\ [][Next]_vars
=============================================================================
