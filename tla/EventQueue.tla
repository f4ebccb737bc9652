----------------------------- MODULE EventQueue -----------------------------
(***************************************************************************)
(* What the Java service expects of the native message path: events are    *)
(* delivered one at a time in the order in which they came, and an event   *)
(* is dropped only when Capacity events are waiting.                       *)
(***************************************************************************)
EXTENDS Naturals, Sequences

CONSTANT Capacity

VARIABLES next,    \* the number of the next event
          queue,   \* the events waiting
          last     \* the event delivered last

qvars == <<next, queue, last>>

QInit == next = 1 /\ queue = <<>> /\ last = 0

\* ProcessDbMsg with room for the event, and without.
Put ==
  /\ Len(queue) < Capacity
  /\ queue' = Append(queue, next)
  /\ next' = next + 1
  /\ UNCHANGED last

Drop ==
  /\ Len(queue) = Capacity
  /\ next' = next + 1
  /\ UNCHANGED <<queue, last>>

\* OnEvent is called.
Deliver ==
  /\ queue # <<>>
  /\ last' = Head(queue)
  /\ queue' = Tail(queue)
  /\ UNCHANGED next

QueueSpec == QInit /\ [][Put \/ Drop \/ Deliver]_qvars
=============================================================================
