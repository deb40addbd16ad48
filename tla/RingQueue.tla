------------------------------ MODULE RingQueue ------------------------------
(***************************************************************************)
(* base::RingQueue<T, QUEUE_SIZE>, src/base/ring_queue.hpp: a circular     *)
(* buffer, in which EpollPoller keeps the descriptors that fired.  The     *)
(* assertions of the class are what its callers must respect: they are the *)
(* guards of Push, Pop and Front.                                          *)
(***************************************************************************)
EXTENDS Naturals, Sequences

CONSTANTS
  Elements,
  NoElement,    \* the value-initialized element of a slot never written
  Capacity      \* QUEUE_SIZE

ASSUME CapacityAssumption == Capacity \in Nat \ {0}

VARIABLES
  data,      \* data_
  front,     \* front_, the slot of the oldest element
  end,       \* end_, the slot after that of the newest one
  length,    \* length_
  seen       \* what Front last returned

vars == <<data, front, end, length, seen>>

Slots == 0 .. Capacity - 1

Init ==
  /\ data = [i \in Slots |-> NoElement]
  /\ front = 0
  /\ end = 0
  /\ length = 0
  /\ seen = NoElement

\* The slot after slot i.
After(i) == (i + 1) % Capacity

Full_TooLate == length = Capacity + 1
Full == length = Capacity
Empty == length = 0

\* Push and EmplaceBack.
Push(e) ==
  /\ ~Full
  /\ data' = [data EXCEPT ![end] = e]
  /\ end' = After(end)
  /\ length' = length + 1
  /\ UNCHANGED <<front, seen>>

Pop ==
  /\ ~Empty
  /\ front' = After(front)
  /\ length' = length - 1
  /\ UNCHANGED <<data, end, seen>>

Front ==
  /\ ~Empty
  /\ seen' = data[front]
  /\ UNCHANGED <<data, front, end, length>>

EndAfterClear_Kept == end
EndAfterClear == 0

Clear ==
  /\ front' = 0
  /\ end' = EndAfterClear
  /\ length' = 0
  /\ UNCHANGED <<data, seen>>

Next == (\E e \in Elements : Push(e)) \/ Pop \/ Front \/ Clear

Spec == Init /\ [][Next]_vars

\* The three counters are in range.
TypeOK ==
  /\ data \in [Slots -> Elements \cup {NoElement}]
  /\ front \in Slots /\ end \in Slots /\ length \in 0 .. Capacity
  /\ seen \in Elements \cup {NoElement}

\* length_ elements lie between front_ and end_: the redundant counter tells a
\* full queue from an empty one, whose indexes are the same.
IndexesAgree == end = (front + length) % Capacity

\* Iterator::operator*: the element at position i, from 0.
At(i) == data[(front + i) % Capacity]

\* The elements that begin() to end() visit are a FIFO queue.
Fifo == INSTANCE BoundedFifo WITH queue <- [i \in 1 .. length |-> At(i - 1)]

ImplementsBoundedFifo == Fifo!Spec
==============================================================================
