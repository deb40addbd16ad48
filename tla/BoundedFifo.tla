----------------------------- MODULE BoundedFifo -----------------------------
(* What base::RingQueue (src/base/ring_queue.hpp) promises: a bounded FIFO. *)
EXTENDS Naturals, Sequences

CONSTANTS Elements, Capacity, NoElement

VARIABLES
  queue,    \* the elements, oldest first
  seen      \* what Front last returned

vars == <<queue, seen>>

Init == queue = <<>> /\ seen = NoElement

Push(e) ==
  /\ Len(queue) < Capacity
  /\ queue' = Append(queue, e)
  /\ UNCHANGED seen

Pop ==
  /\ queue # <<>>
  /\ queue' = Tail(queue)
  /\ UNCHANGED seen

Front ==
  /\ queue # <<>>
  /\ seen' = Head(queue)
  /\ UNCHANGED queue

Clear == queue' = <<>> /\ UNCHANGED seen

Next == (\E e \in Elements : Push(e)) \/ Pop \/ Front \/ Clear

Spec == Init /\ [][Next]_vars
==============================================================================
