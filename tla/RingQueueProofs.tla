-------------------------- MODULE RingQueueProofs ---------------------------
(***************************************************************************)
(* RingQueue implements BoundedFifo for every capacity and any elements.   *)
(* The inductive invariant is TypeOK with IndexesAgree: without the second *)
(* the slot that Push writes could be one that still holds an element.     *)
(***************************************************************************)
EXTENDS RingQueue, TLAPS

IInv == TypeOK /\ IndexesAgree

-----------------------------------------------------------------------------
(* Arithmetic of the indexes *)

LEMMA Wrap ==
  ASSUME NEW i \in Slots
  PROVE  /\ After(i) \in Slots
         /\ After(i) = IF i + 1 = Capacity THEN 0 ELSE i + 1
BY CapacityAssumption DEF Slots, After

LEMMA WrapFrom ==
  ASSUME NEW i \in Slots, NEW l \in 0 .. Capacity
  PROVE  /\ (i + l) % Capacity = IF i + l >= Capacity THEN i + l - Capacity ELSE i + l
         /\ (i + l) % Capacity \in Slots
BY CapacityAssumption DEF Slots

-----------------------------------------------------------------------------
(* The invariant *)

LEMMA InitIInv == Init => IInv
BY CapacityAssumption, WrapFrom DEF Init, IInv, TypeOK, IndexesAgree, Slots

LEMMA NextIInv == IInv /\ [Next]_vars => IInv'
<1> SUFFICES ASSUME IInv, [Next]_vars
             PROVE  IInv'
  OBVIOUS
<1>0. front \in Slots /\ end \in Slots /\ length \in 0 .. Capacity
  BY DEF IInv, TypeOK
<1>1. ASSUME NEW e \in Elements, Push(e)
      PROVE  IInv'
  <2>1. length < Capacity /\ length + 1 \in 0 .. Capacity
    BY <1>0, <1>1, CapacityAssumption DEF Push, Full
  <2>2. TypeOK'
    BY <1>0, <1>1, <2>1, Wrap DEF Push, IInv, TypeOK
  <2>3. After(end) = (front + (length + 1)) % Capacity
    <3>1. end = IF front + length >= Capacity THEN front + length - Capacity ELSE front + length
      BY <1>0, WrapFrom DEF IInv, IndexesAgree
    <3>2. (front + (length + 1)) % Capacity = IF front + (length + 1) >= Capacity
            THEN front + (length + 1) - Capacity ELSE front + (length + 1)
      BY <1>0, <2>1, WrapFrom
    <3>3. After(end) = IF end + 1 = Capacity THEN 0 ELSE end + 1
      BY <1>0, Wrap
    <3>4. QED
      BY <1>0, <2>1, <3>1, <3>2, <3>3, CapacityAssumption DEF Slots
  <2>4. QED
    BY <1>1, <2>2, <2>3 DEF Push, IInv, IndexesAgree
<1>2. CASE Pop
  <2>1. length > 0 /\ length - 1 \in 0 .. Capacity
    BY <1>0, <1>2, CapacityAssumption DEF Pop, Empty
  <2>2. TypeOK'
    BY <1>0, <1>2, <2>1, Wrap DEF Pop, IInv, TypeOK
  <2>3. end = (After(front) + (length - 1)) % Capacity
    <3>1. end = IF front + length >= Capacity THEN front + length - Capacity ELSE front + length
      BY <1>0, WrapFrom DEF IInv, IndexesAgree
    <3>2. /\ After(front) \in Slots
          /\ After(front) = IF front + 1 = Capacity THEN 0 ELSE front + 1
      BY <1>0, Wrap
    <3>3. (After(front) + (length - 1)) % Capacity = IF After(front) + (length - 1) >= Capacity
            THEN After(front) + (length - 1) - Capacity ELSE After(front) + (length - 1)
      BY <2>1, <3>2, WrapFrom
    <3>4. QED
      BY <1>0, <2>1, <3>1, <3>2, <3>3, CapacityAssumption DEF Slots
  <2>4. QED
    BY <1>2, <2>2, <2>3 DEF Pop, IInv, IndexesAgree
<1>3. CASE Front
  BY <1>0, <1>3 DEF Front, IInv, TypeOK, IndexesAgree
<1>4. CASE Clear
  BY <1>0, <1>4, CapacityAssumption, WrapFrom
     DEF Clear, EndAfterClear, IInv, TypeOK, IndexesAgree, Slots
<1>5. CASE UNCHANGED vars
  BY <1>5 DEF vars, IInv, TypeOK, IndexesAgree
<1>6. QED
  BY <1>1, <1>2, <1>3, <1>4, <1>5 DEF Next

LEMMA Invariance == Spec => []IInv
BY InitIInv, NextIInv, PTL DEF Spec

\* The indexes stay in the array and the counter within its capacity.
THEOREM TypeCorrect == Spec => []TypeOK
BY Invariance, PTL DEF IInv

\* The two indexes and the redundant counter never drift apart, whatever the
\* number of times they have wrapped around.
THEOREM IndexesAgreeCorrect == Spec => []IndexesAgree
BY Invariance, PTL DEF IInv

-----------------------------------------------------------------------------
(* The refinement *)

QueueOf(d, f, l) == [i \in 1 .. l |-> d[(f + (i - 1)) % Capacity]]

IsRing(S, d, f, l) == d \in [Slots -> S] /\ f \in Slots /\ l \in 0 .. Capacity

LEMMA QueueOfIs ==
  ASSUME NEW S, NEW d, NEW f, NEW l, IsRing(S, d, f, l)
  PROVE  /\ QueueOf(d, f, l) \in Seq(S)
         /\ Len(QueueOf(d, f, l)) = l
         /\ \A i \in 1 .. l : QueueOf(d, f, l)[i] = d[(f + (i - 1)) % Capacity]
<1>1. \A i \in 1 .. l : d[(f + (i - 1)) % Capacity] \in S
  <2> SUFFICES ASSUME NEW i \in 1 .. l
               PROVE  d[(f + (i - 1)) % Capacity] \in S
    OBVIOUS
  <2>1. i - 1 \in 0 .. Capacity
    BY CapacityAssumption DEF IsRing
  <2>2. QED
    BY <2>1, WrapFrom DEF IsRing
<1>2. l \in Nat
  BY CapacityAssumption DEF IsRing
<1>3. QED
  BY <1>1, <1>2 DEF QueueOf

\* Two sequences of the same length and the same elements are equal.
LEMMA SameSequence ==
  ASSUME NEW S, NEW s \in Seq(S), NEW t \in Seq(S), Len(s) = Len(t),
         \A i \in 1 .. Len(s) : s[i] = t[i]
  PROVE  s = t
OBVIOUS

\* Writing e after the newest element appends it.
Pushed(d, f, l, e, D, n) == n = l + 1 /\ D = [d EXCEPT ![(f + l) % Capacity] = e]

LEMMA PushRefines ==
  ASSUME NEW S, NEW d, NEW f, NEW l, IsRing(S, d, f, l), NEW e \in S,
         NEW D, NEW n, IsRing(S, D, f, n), Pushed(d, f, l, e, D, n)
  PROVE  QueueOf(D, f, n) = Append(QueueOf(d, f, l), e)
<1> DEFINE q == QueueOf(d, f, l)
           Q == QueueOf(D, f, n)
           j == (f + l) % Capacity
<1>1. /\ Q \in Seq(S) /\ Len(Q) = n
      /\ \A i \in 1 .. n : Q[i] = D[(f + (i - 1)) % Capacity]
  BY QueueOfIs
<1>2. /\ q \in Seq(S) /\ Len(q) = l
      /\ \A i \in 1 .. l : q[i] = d[(f + (i - 1)) % Capacity]
  BY QueueOfIs
<1> HIDE DEF q, Q, j
<1>3. l \in Nat /\ n = l + 1 /\ f \in Slots /\ n \in 0 .. Capacity
  BY CapacityAssumption DEF IsRing, Pushed
<1>4. j \in Slots /\ j = IF f + l >= Capacity THEN f + l - Capacity ELSE f + l
  BY WrapFrom DEF IsRing, j
<1>5. D[j] = e /\ \A i \in Slots : i # j => D[i] = d[i]
  BY <1>4 DEF IsRing, Pushed, j
<1>6. /\ Append(q, e) \in Seq(S) /\ Len(Append(q, e)) = n
      /\ Append(q, e)[n] = e
      /\ \A i \in 1 .. l : Append(q, e)[i] = q[i]
  BY <1>2, <1>3
<1>7. ASSUME NEW i \in 1 .. n
      PROVE  Q[i] = Append(q, e)[i]
  <2>1. CASE i = n
    <3>1. i - 1 = l
      BY <1>3, <2>1
    <3>2. QED
      BY <1>1, <1>5, <1>6, <2>1, <3>1 DEF j
  <2>2. CASE i # n
    <3>1. i \in 1 .. l /\ i - 1 \in 0 .. Capacity
      BY <1>3, <2>2, CapacityAssumption
    <3>2. /\ (f + (i - 1)) % Capacity \in Slots
          /\ (f + (i - 1)) % Capacity = IF f + (i - 1) >= Capacity
               THEN f + (i - 1) - Capacity ELSE f + (i - 1)
      BY <1>3, <3>1, WrapFrom
    <3>3. (f + (i - 1)) % Capacity # j
      BY <1>3, <1>4, <3>1, <3>2, CapacityAssumption DEF Slots
    <3>4. QED
      BY <1>1, <1>2, <1>5, <1>6, <3>1, <3>2, <3>3
  <2>3. QED
    BY <2>1, <2>2
<1>8. Q = Append(q, e)
  BY <1>1, <1>6, <1>7, SameSequence
<1>9. QED
  BY <1>8 DEF Q, q

\* Moving the front to the next slot drops the oldest element.
Popped(f, l, g, n) == l # 0 /\ g = After(f) /\ n = l - 1

LEMMA PopRefines ==
  ASSUME NEW S, NEW d, NEW f, NEW l, IsRing(S, d, f, l),
         NEW g, NEW n, IsRing(S, d, g, n), Popped(f, l, g, n)
  PROVE  QueueOf(d, g, n) = Tail(QueueOf(d, f, l))
<1> DEFINE q == QueueOf(d, f, l)
           Q == QueueOf(d, g, n)
<1>1. /\ Q \in Seq(S) /\ Len(Q) = n
      /\ \A i \in 1 .. n : Q[i] = d[(g + (i - 1)) % Capacity]
  BY QueueOfIs
<1>2. /\ q \in Seq(S) /\ Len(q) = l
      /\ \A i \in 1 .. l : q[i] = d[(f + (i - 1)) % Capacity]
  BY QueueOfIs
<1> HIDE DEF q, Q
<1>3. l \in 1 .. Capacity /\ n = l - 1 /\ f \in Slots /\ g \in Slots
  BY CapacityAssumption DEF IsRing, Popped
<1>4. g = IF f + 1 = Capacity THEN 0 ELSE f + 1
  BY <1>3, Wrap DEF Popped
<1>5. /\ Tail(q) \in Seq(S) /\ Len(Tail(q)) = n
      /\ \A i \in 1 .. n : Tail(q)[i] = q[i + 1]
  BY <1>2, <1>3
<1>6. ASSUME NEW i \in 1 .. n
      PROVE  Q[i] = Tail(q)[i]
  <2>1. i - 1 \in 0 .. Capacity /\ i \in 0 .. Capacity /\ i + 1 \in 1 .. l /\ (i + 1) - 1 = i
    BY <1>3, CapacityAssumption
  <2>2. (f + i) % Capacity = IF f + i >= Capacity THEN f + i - Capacity ELSE f + i
    BY <1>3, <2>1, WrapFrom
  <2>3. (g + (i - 1)) % Capacity = IF g + (i - 1) >= Capacity
          THEN g + (i - 1) - Capacity ELSE g + (i - 1)
    BY <1>3, <2>1, WrapFrom
  <2>4. (g + (i - 1)) % Capacity = (f + i) % Capacity
    BY <1>3, <1>4, <2>1, <2>2, <2>3, CapacityAssumption DEF Slots
  <2>5. q[i + 1] = d[(f + i) % Capacity]
    BY <1>2, <2>1
  <2>6. QED
    BY <1>1, <1>5, <2>4, <2>5
<1>7. Q = Tail(q)
  BY <1>1, <1>5, <1>6, SameSequence
<1>8. QED
  BY <1>7 DEF Q, q

LEMMA HeadRefines ==
  ASSUME NEW S, NEW d, NEW f, NEW l, IsRing(S, d, f, l), l # 0
  PROVE  QueueOf(d, f, l) # <<>> /\ Head(QueueOf(d, f, l)) = d[f]
<1> DEFINE q == QueueOf(d, f, l)
<1>1. /\ q \in Seq(S) /\ Len(q) = l
      /\ \A i \in 1 .. l : q[i] = d[(f + (i - 1)) % Capacity]
  BY QueueOfIs
<1> HIDE DEF q
<1>2. (f + (1 - 1)) % Capacity = f /\ 1 \in 1 .. l
  BY CapacityAssumption DEF IsRing, Slots
<1>3. q[1] = d[f]
  BY <1>1, <1>2
<1>4. q # <<>> /\ Head(q) = q[1]
  BY <1>1, <1>2
<1>5. QED
  BY <1>3, <1>4 DEF q

Queue == QueueOf(data, front, length)

LEMMA QueueIs == Queue = [i \in 1 .. length |-> At(i - 1)]
BY DEF Queue, QueueOf, At

\* A ring of any capacity gives back what was pushed, in the order it was
\* pushed: no element is overwritten, repeated or skipped at the wrap-around.
THEOREM Refinement == Spec => ImplementsBoundedFifo
<1>1. Init => Fifo!Init
  <2>1. Init => Queue = <<>>
    BY DEF Init, Queue, QueueOf
  <2>2. QED
    BY <2>1, QueueIs DEF Init, Fifo!Init
<1>2. IInv /\ [Next]_vars => [Fifo!Next]_(Fifo!vars)
  <2> SUFFICES ASSUME IInv, [Next]_vars
               PROVE  Fifo!Next \/ UNCHANGED Fifo!vars
    OBVIOUS
  <2> DEFINE S == Elements \cup {NoElement}
  <2>0. /\ Queue = [i \in 1 .. length |-> At(i - 1)]
        /\ Queue' = [i \in 1 .. length |-> At(i - 1)]'
        /\ Queue = QueueOf(data, front, length)
        /\ Queue' = QueueOf(data', front', length')
    BY DEF Queue, QueueOf, At
  <2>1. IInv'
    BY NextIInv
  <2>2. IsRing(S, data, front, length) /\ IsRing(S, data', front', length')
    BY <2>1 DEF IInv, TypeOK, IsRing
  <2>3. ASSUME NEW e \in Elements, Push(e)
        PROVE  Fifo!Push(e)
    <3>1. e \in S
      OBVIOUS
    <3>2. /\ Pushed(data, front, length, e, data', length') /\ front' = front
      BY <2>3 DEF Pushed, Push, IInv, IndexesAgree
    <3> HIDE DEF S
    <3>3. QueueOf(data', front', length') = Append(QueueOf(data, front, length), e)
      BY <2>2, <3>1, <3>2, PushRefines
    <3>4. Len(QueueOf(data, front, length)) = length
      BY <2>2, QueueOfIs
    <3>5. length < Capacity
      BY <2>2, <2>3, CapacityAssumption DEF Push, Full, IsRing
    <3>6. QED
      BY <2>0, <2>3, <3>3, <3>4, <3>5 DEF Fifo!Push, Push
  <2>4. ASSUME Pop
        PROVE  Fifo!Pop
    <3>1. data' = data /\ length # 0 /\ Popped(front, length, front', length')
      BY <2>4 DEF Pop, Popped, Empty
    <3> HIDE DEF S
    <3>2. QueueOf(data', front', length') = Tail(QueueOf(data, front, length))
      BY <2>2, <3>1, PopRefines
    <3>3. QueueOf(data, front, length) # <<>>
      BY <2>2, <3>1, HeadRefines
    <3>4. QED
      BY <2>0, <2>4, <3>2, <3>3 DEF Fifo!Pop, Pop
  <2>5. ASSUME Front
        PROVE  Fifo!Front
    <3>1. length # 0 /\ seen' = data[front] /\ UNCHANGED <<data, front, length>>
      BY <2>5 DEF Front, Empty
    <3> HIDE DEF S
    <3>2. QueueOf(data, front, length) # <<>> /\ Head(QueueOf(data, front, length)) = data[front]
      BY <2>2, <3>1, HeadRefines
    <3>3. QED
      BY <2>0, <3>1, <3>2 DEF Fifo!Front
  <2>6. ASSUME Clear
        PROVE  Fifo!Clear
    <3>1. QueueOf(data', front', length') = <<>>
      BY <2>6 DEF Clear, QueueOf
    <3>2. QED
      BY <2>0, <2>6, <3>1 DEF Fifo!Clear, Clear
  <2>7. CASE UNCHANGED vars
    <3>1. QueueOf(data', front', length') = QueueOf(data, front, length)
      BY <2>7 DEF vars
    <3>2. QED
      BY <2>0, <2>7, <3>1 DEF vars, Fifo!vars
  <2>8. QED
    BY <2>3, <2>4, <2>5, <2>6, <2>7 DEF Next, Fifo!Next
<1>3. QED
  BY <1>1, <1>2, Invariance, PTL DEF Spec, ImplementsBoundedFifo, Fifo!Spec
=============================================================================
