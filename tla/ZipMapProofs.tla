---------------------------- MODULE ZipMapProofs ----------------------------
(***************************************************************************)
(* Proofs of the properties of ZipMap.                                     *)
(*                                                                         *)
(* The sizes add up because wait_freed_ counts no more than the lengths of *)
(* the Gone blocks: those that are cleared and that no entry of the index  *)
(* in use stands for.  The blocks that entries in use stand for come in    *)
(* the order of the entries, and what Zip keeps is among them: so the      *)
(* bindings of the index stay in their order, and what Find stops at is    *)
(* the oldest binding of a key.                                            *)
(***************************************************************************)
EXTENDS ZipMap, SequenceTheorems, FiniteSetTheorems, WellFoundedInduction, TLAPS

Blocks ==
  [key : Keys \cup {NoKey}, value : Values \cup {Missing}, hashcode : Nat, length : Nat \ {0},
   cleared : BOOLEAN]

Entries == [hashcode : Nat, offset : Nat]

\* How many bytes of the first blocks of s are in blocks at the positions in P.
Partial(s, P) ==
  LET part[i \in 0 .. Len(s)] ==
        IF i = 0 THEN 0 ELSE part[i - 1] + (IF i \in P THEN s[i].length ELSE 0)
  IN  part

Weight(s, P) == Partial(s, P)[Len(s)]

-----------------------------------------------------------------------------
(* The inductive invariant *)

\* The entries of an index ix that are in use, the blocks of a buffer bs that they
\* stand for, and the blocks of bs that nothing stands for.
LiveIn(ix) == {a \in DOMAIN ix : ix[a].hashcode # 0}

StandsFor(ix, bs, a, i) == ix[a].offset = Offset(bs, i)

GoneIn(ix, bs) ==
  {i \in DOMAIN bs : bs[i].cleared /\ \A a \in LiveIn(ix) : ~StandsFor(ix, bs, a, i)}

Cleared(bs) ==
  \A i \in DOMAIN bs : bs[i].hashcode \in Fragile \/ bs[i].key = NoKey => bs[i].cleared

\* An entry in use stands for the block of a binding.
Indexed(ix, bs) ==
  \A a \in LiveIn(ix) :
    \E i \in DOMAIN bs :
      /\ StandsFor(ix, bs, a, i)
      /\ bs[i].key \in Keys /\ bs[i].value \in Values
      /\ ix[a].hashcode = bs[i].hashcode
      /\ bs[i].cleared => bs[i].hashcode \in Fragile

Ordered(ix) == \A a, c \in LiveIn(ix) : a < c => ix[a].offset < ix[c].offset

Covered(ix, bs) ==
  \A i \in DOMAIN bs : ~bs[i].cleared => \E a \in LiveIn(ix) : StandsFor(ix, bs, a, i)

Consistent(ix, bs) ==
  /\ ix \in Seq(Entries) /\ bs \in Seq(Blocks)
  /\ Cleared(bs) /\ Indexed(ix, bs) /\ Ordered(ix) /\ Covered(ix, bs)

TypeInv ==
  /\ {indexSize, size, waitFreed, used, sets} \subseteq Nat
  /\ fate \in {"ok", "corrupt"}
  /\ holed \in BOOLEAN

ConsistentInv == Consistent(index, blocks)

MeasuredInv ==
  /\ size = TotalLength(blocks)
  /\ waitFreed <= Weight(blocks, GoneIn(index, blocks))

CountedInv == Len(IndexedBindings) <= used

RoomInv ==
  /\ Len(index) <= indexSize
  /\ indexSize <= MaxIndex
  /\ fate = "ok" => Len(index) = sets

WholeInv == ~holed => \A i \in DOMAIN blocks : blocks[i].key # NoKey

MapInv ==
  /\ TypeInv /\ ConsistentInv /\ MeasuredInv /\ CountedInv /\ RoomInv /\ WholeInv
  /\ SoundUntilHoled

-----------------------------------------------------------------------------
(* Recursion on the numbers up to n *)

\* Some numbers up to n have a least one.
LEMMA Least ==
  ASSUME NEW n \in Nat, NEW S \in SUBSET (0 .. n), S # {}
  PROVE  \E m \in S : \A k \in S : m <= k
<1> DEFINE R == StrictSubsetOrdering(S)
           T == {{j \in S : j < k} : k \in S}
<1>1. IsFiniteSet(S)
  <2>1. IsFiniteSet(0 .. n)
    BY FS_Interval
  <2> QED BY <2>1, FS_Subset
<1>2. IsWellFoundedOn(R, FiniteSubsetsOf(S))
  BY <1>1, FS_StrictSubsetOrderingWellFounded
<1>3. T \subseteq SUBSET S /\ T # {}
  OBVIOUS
<1>4. T \subseteq FiniteSubsetsOf(S)
  BY <1>1, <1>3, FS_Subset DEF FiniteSubsetsOf
<1>5. PICK t \in T : \A u \in T : ~(<<u, t>> \in R)
  <2> HIDE DEF R, T
  <2> QED BY <1>2, <1>3, <1>4, WFMin
<1>6. \A u \in T : ~(u \subseteq t /\ u # t)
  BY <1>4, <1>5 DEF StrictSubsetOrdering, FiniteSubsetsOf
<1>7. PICK m \in S : t = {j \in S : j < m}
  OBVIOUS
<1>8. ASSUME NEW k \in S, k < m PROVE FALSE
  <2> DEFINE u == {j \in S : j < k}
  <2>1. u \in T
    OBVIOUS
  <2>2. k \in t /\ k \notin u
    BY <1>7, <1>8
  <2>3. \A j \in S : j < k => j < m
    BY <1>8
  <2>4. u \subseteq t
    BY <1>7, <2>3
  <2> QED BY <1>6, <2>1, <2>2, <2>4
<1> QED BY <1>8

\* Induction up to n.
LEMMA Reach ==
  ASSUME NEW n \in Nat, NEW S, 0 \in S, \A i \in 1 .. n : i - 1 \in S => i \in S
  PROVE  \A i \in 0 .. n : i \in S
<1> DEFINE T == {i \in 0 .. n : i \notin S}
<1>1. SUFFICES ASSUME T # {} PROVE FALSE
  OBVIOUS
<1>2. PICK m \in T : \A k \in T : m <= k
  <2>1. T \in SUBSET (0 .. n)
    OBVIOUS
  <2> HIDE DEF T
  <2> QED BY <1>1, <2>1, Least
<1>3. m \in 1 .. n /\ m \notin S
  BY <1>2
<1>4. m - 1 \in 0 .. n /\ ~(m <= m - 1)
  BY <1>3
<1>5. m - 1 \in S
  BY <1>2, <1>4
<1> QED BY <1>3, <1>5

Steps(n, T, step) == step \in [1 .. n -> [T -> T]]

Follows(f, n, T, z, step) ==
  f \in [0 .. n -> T] /\ f[0] = z /\ \A i \in 1 .. n : f[i] = step[i][f[i - 1]]

\* What is defined by a first value and steps up to n is a function.
LEMMA Recursion ==
  ASSUME NEW n \in Nat, NEW T, NEW z \in T, NEW step, Steps(n, T, step)
  PROVE  \E f : Follows(f, n, T, z, step)
<1> DEFINE Upto(f, m) == Follows(f, m, T, z, step)
           S == {m \in 0 .. n : \E f : Upto(f, m)}
<1>1. 0 \in S
  <2>1. Upto([i \in 0 .. 0 |-> z], 0)
    BY DEF Follows
  <2> HIDE DEF Upto
  <2>2. \E f : Upto(f, 0)
    BY <2>1
  <2> QED BY <2>2
<1>2. ASSUME NEW m \in 1 .. n, m - 1 \in S PROVE m \in S
  <2>1. PICK f : Upto(f, m - 1)
    BY <1>2
  <2>2. f[m - 1] \in T
    BY <2>1 DEF Follows
  <2>3. PICK y \in T : y = step[m][f[m - 1]]
    BY <2>2 DEF Steps
  <2>4. PICK g : g = [i \in 0 .. m |-> IF i = m THEN y ELSE f[i]]
    OBVIOUS
  <2>5. \A i \in 0 .. m : i # m => g[i] = f[i] /\ f[i] \in T
    BY <2>1, <2>4 DEF Follows
  <2>6. g[m] = y /\ m # 0
    BY <2>4
  <2>7. g \in [0 .. m -> T]
    BY <2>4, <2>5
  <2>8. g[0] = z
    BY <2>1, <2>5, <2>6 DEF Follows
  <2>9. \A i \in 1 .. m : g[i] = step[i][g[i - 1]]
    <3>1. TAKE i \in 1 .. m
    <3>2. g[i - 1] = f[i - 1]
      BY <2>5
    <3>3. CASE i = m
      BY <2>3, <2>6, <3>2, <3>3
    <3>4. CASE i # m
      BY <2>1, <2>5, <3>2, <3>4 DEF Follows
    <3> QED BY <3>3, <3>4
  <2>10. Upto(g, m)
    BY <2>7, <2>8, <2>9 DEF Follows
  <2> HIDE DEF Upto
  <2>11. (\E h : Upto(h, m)) /\ m \in 0 .. n
    BY <2>10
  <2> QED BY <2>11
<1>3. n \in S
  <2> HIDE DEF S
  <2>1. \A i \in 0 .. n : i \in S
    BY <1>1, <1>2, Reach
  <2> QED BY <2>1
<1> QED BY <1>3

-----------------------------------------------------------------------------
(* The recursive functions of the model *)

LEMMA LengthOf ==
  ASSUME NEW s \in Seq(Blocks), NEW i \in 1 .. Len(s)
  PROVE  s[i] \in Blocks /\ s[i].length \in Nat /\ s[i].length > 0
<1>1. s[i] \in Blocks
  OBVIOUS
<1> QED BY <1>1 DEF Blocks

LEMMA PartialIs ==
  ASSUME NEW s \in Seq(Blocks), NEW P
  PROVE  /\ Partial(s, P) \in [0 .. Len(s) -> Nat]
         /\ Partial(s, P)[0] = 0
         /\ \A i \in 1 .. Len(s) :
              Partial(s, P)[i] = Partial(s, P)[i - 1] + (IF i \in P THEN s[i].length ELSE 0)
<1> DEFINE n == Len(s)
           Is(f) == f = [i \in 0 .. n |->
                           IF i = 0 THEN 0 ELSE f[i - 1] + (IF i \in P THEN s[i].length ELSE 0)]
<1>1. Partial(s, P) = CHOOSE g : Is(g)
  BY DEF Partial
<1>2. n \in Nat /\ \A i \in 1 .. n : (IF i \in P THEN s[i].length ELSE 0) \in Nat
  BY LengthOf
<1> HIDE DEF n
<1>3. PICK w \in [1 .. n -> Nat] : \A i \in 1 .. n : w[i] = IF i \in P THEN s[i].length ELSE 0
  <2>1. [i \in 1 .. n |-> IF i \in P THEN s[i].length ELSE 0] \in [1 .. n -> Nat]
    BY <1>2
  <2> QED BY <2>1
<1>4. PICK step : step = [i \in 1 .. n |-> [y \in Nat |-> y + w[i]]]
  OBVIOUS
<1>5. step \in [1 .. n -> [Nat -> Nat]] /\ \A i \in 1 .. n : \A y \in Nat : step[i][y] = y + w[i]
  BY <1>4
<1>6. PICK f \in [0 .. n -> Nat] : f[0] = 0 /\ \A i \in 1 .. n : f[i] = step[i][f[i - 1]]
  <2>1. PICK N : N = Nat
    OBVIOUS
  <2>2. PICK z \in N : z = 0
    BY <2>1
  <2>3. Steps(n, N, step)
    BY <1>5, <2>1 DEF Steps
  <2>4. \E f : Follows(f, n, N, z, step)
    BY <1>2, <2>3, Recursion
  <2> QED BY <2>1, <2>2, <2>4 DEF Follows
<1>7. \A i \in 1 .. n : f[i - 1] \in Nat /\ f[i] = f[i - 1] + w[i]
  <2>1. TAKE i \in 1 .. n
  <2>2. i - 1 \in 0 .. n
    BY <1>2
  <2>3. f[i - 1] \in Nat
    BY <2>2
  <2> QED BY <1>5, <1>6, <2>3
<1>8. Is(f)
  <2>1. \A i \in 0 .. n :
          f[i] = IF i = 0 THEN 0 ELSE f[i - 1] + (IF i \in P THEN s[i].length ELSE 0)
    <3>1. TAKE i \in 0 .. n
    <3>2. CASE i = 0
      BY <1>6, <3>2
    <3>3. CASE i # 0
      <4>1. i \in 1 .. n
        BY <1>2, <3>3
      <4> QED BY <1>3, <1>7, <3>3, <4>1
    <3> QED BY <3>2, <3>3
  <2>2. f = [i \in 0 .. n |-> f[i]]
    OBVIOUS
  <2> QED BY <2>1, <2>2
<1>9. PICK g : g = Partial(s, P)
  OBVIOUS
<1>10. Is(g)
  <2> HIDE DEF Is
  <2> QED BY <1>1, <1>8, <1>9
<1>11. g[0] = 0 /\ g = [i \in 0 .. n |-> g[i]] /\ \A i \in 1 .. n : g[i] = g[i - 1] + w[i]
  <2>1. 0 \in 0 .. n /\ \A i \in 1 .. n : i \in 0 .. n /\ i # 0
    BY <1>2
  <2> QED BY <1>3, <1>10, <2>1
<1>12. \A i \in 0 .. n : g[i] \in Nat
  <2> DEFINE S == {i \in 0 .. n : g[i] \in Nat}
  <2>1. 0 \in S
    BY <1>2, <1>11
  <2>2. \A i \in 1 .. n : i - 1 \in S => i \in S
    <3>1. TAKE i \in 1 .. n
    <3>2. HAVE i - 1 \in S
    <3>3. g[i - 1] \in Nat /\ i \in 0 .. n
      BY <1>2, <3>2
    <3>4. g[i] = g[i - 1] + w[i] /\ w[i] \in Nat
      BY <1>11
    <3>5. g[i] \in Nat
      BY <3>3, <3>4
    <3> QED BY <3>3, <3>5
  <2> HIDE DEF S
  <2>3. \A i \in 0 .. n : i \in S
    BY <1>2, <2>1, <2>2, Reach
  <2> QED BY <2>3 DEF S
<1> QED BY <1>3, <1>9, <1>11, <1>12 DEF n

LEMMA EndsAre ==
  ASSUME NEW s \in Seq(Blocks)
  PROVE  /\ Ends(s) = Partial(s, 1 .. Len(s))
         /\ Ends(s) \in [0 .. Len(s) -> Nat]
         /\ Ends(s)[0] = 0
         /\ \A i \in 1 .. Len(s) : Ends(s)[i] = Ends(s)[i - 1] + s[i].length
<1>1. Ends(s) = Partial(s, 1 .. Len(s))
  BY DEF Ends, Partial
<1> QED BY <1>1, PartialIs

\* f goes through s and leaves out what is not at a position in P.
Leaves(f, s, P, T) ==
  /\ f \in [0 .. Len(s) -> Seq(T)]
  /\ f[0] = <<>>
  /\ \A i \in 1 .. Len(s) : f[i] = IF i \in P THEN Append(f[i - 1], s[i]) ELSE f[i - 1]

LEMMA OnlyIs ==
  ASSUME NEW T, NEW s \in Seq(T), NEW P
  PROVE  \E f : Leaves(f, s, P, T) /\ Only(s, P) = f[Len(s)]
<1> DEFINE n == Len(s)
           Is(f) == f = [i \in 0 .. n |-> IF i = 0 THEN <<>>
                                          ELSE IF i \in P THEN Append(f[i - 1], s[i]) ELSE f[i - 1]]
<1>1. n \in Nat /\ \A i \in 1 .. n : s[i] \in T
  OBVIOUS
<1>2. Only(s, P) = (CHOOSE g : Is(g))[n]
  BY DEF Only
<1> HIDE DEF n
<1>3. PICK step : step = [i \in 1 .. n |-> [q \in Seq(T) |-> IF i \in P THEN Append(q, s[i]) ELSE q]]
  OBVIOUS
<1>4. /\ step \in [1 .. n -> [Seq(T) -> Seq(T)]]
      /\ \A i \in 1 .. n : \A q \in Seq(T) : step[i][q] = IF i \in P THEN Append(q, s[i]) ELSE q
  BY <1>1, <1>3
<1>5. <<>> \in Seq(T)
  OBVIOUS
<1>6. PICK f \in [0 .. n -> Seq(T)] : f[0] = <<>> /\ \A i \in 1 .. n : f[i] = step[i][f[i - 1]]
  <2>1. PICK z \in Seq(T) : z = <<>>
    BY <1>5
  <2>2. Steps(n, Seq(T), step)
    BY <1>4 DEF Steps
  <2>3. \E f : Follows(f, n, Seq(T), z, step)
    BY <1>1, <2>2, Recursion
  <2> QED BY <2>1, <2>3 DEF Follows
<1>7. \A i \in 1 .. n : f[i - 1] \in Seq(T)
  BY <1>1
<1>8. Is(f)
  <2>1. \A i \in 0 .. n :
          f[i] = IF i = 0 THEN <<>> ELSE IF i \in P THEN Append(f[i - 1], s[i]) ELSE f[i - 1]
    <3>1. TAKE i \in 0 .. n
    <3>2. CASE i = 0
      BY <1>6, <3>2
    <3>3. CASE i # 0
      <4>1. i \in 1 .. n
        BY <1>1, <3>3
      <4> QED BY <1>4, <1>6, <1>7, <3>3, <4>1
    <3> QED BY <3>2, <3>3
  <2>2. f = [i \in 0 .. n |-> f[i]]
    OBVIOUS
  <2> QED BY <2>1, <2>2
<1>9. PICK g : g = CHOOSE h : Is(h)
  OBVIOUS
<1>10. Is(g)
  <2> HIDE DEF Is
  <2> QED BY <1>8, <1>9
<1>11. /\ g[0] = <<>>
       /\ \A i \in 1 .. n : g[i] = IF i \in P THEN Append(g[i - 1], s[i]) ELSE g[i - 1]
       /\ g = [i \in 0 .. n |-> g[i]]
  <2>1. g = [i \in 0 .. n |-> IF i = 0 THEN <<>>
                               ELSE IF i \in P THEN Append(g[i - 1], s[i]) ELSE g[i - 1]]
    BY <1>10
  <2>2. 0 \in 0 .. n /\ \A i \in 1 .. n : i \in 0 .. n /\ i # 0
    BY <1>1
  <2> QED BY <2>1, <2>2, Zenon
<1>12. \A i \in 0 .. n : g[i] \in Seq(T)
  <2> DEFINE S == {i \in 0 .. n : g[i] \in Seq(T)}
  <2>1. 0 \in S
    <3>1. 0 \in 0 .. n
      BY <1>1
    <3>2. g[0] \in Seq(T)
      BY <1>5, <1>11
    <3> QED BY <3>1, <3>2
  <2>2. \A i \in 1 .. n : i - 1 \in S => i \in S
    <3>1. TAKE i \in 1 .. n
    <3>2. HAVE i - 1 \in S
    <3>3. g[i - 1] \in Seq(T) /\ i \in 0 .. n /\ s[i] \in T
      BY <1>1, <3>2
    <3>4. g[i] = IF i \in P THEN Append(g[i - 1], s[i]) ELSE g[i - 1]
      BY <1>11
    <3>5. g[i] \in Seq(T)
      BY <3>3, <3>4
    <3> QED BY <3>3, <3>5
  <2> HIDE DEF S
  <2>3. \A i \in 0 .. n : i \in S
    BY <1>1, <2>1, <2>2, Reach
  <2> QED BY <2>3 DEF S
<1>13. g \in [0 .. n -> Seq(T)]
  BY <1>11, <1>12
<1>14. Leaves(g, s, P, T)
  BY <1>11, <1>13 DEF n, Leaves
<1>15. Only(s, P) = g[Len(s)]
  BY <1>2, <1>9 DEF n
<1> QED BY <1>14, <1>15

-----------------------------------------------------------------------------
(* Sums of lengths *)

\* A sum looks only at the lengths of the chosen blocks.
LEMMA SamePartial ==
  ASSUME NEW s \in Seq(Blocks), NEW t \in Seq(Blocks), NEW P, NEW Q, Len(s) <= Len(t),
         \A i \in 1 .. Len(s) : t[i].length = s[i].length /\ (i \in P <=> i \in Q)
  PROVE  \A i \in 0 .. Len(s) : Partial(t, Q)[i] = Partial(s, P)[i]
<1>1. PICK p : p = Partial(s, P)
  OBVIOUS
<1>2. PICK q : q = Partial(t, Q)
  OBVIOUS
<1>3. PICK n \in Nat : n = Len(s)
  OBVIOUS
<1>4. \A i \in 1 .. n : i \in 1 .. Len(t)
  BY <1>3
<1>5. p[0] = 0 /\ \A i \in 1 .. n : p[i] = p[i - 1] + (IF i \in P THEN s[i].length ELSE 0)
  BY <1>1, <1>3, PartialIs
<1>6. q[0] = 0 /\ \A i \in 1 .. n : q[i] = q[i - 1] + (IF i \in Q THEN t[i].length ELSE 0)
  BY <1>2, <1>4, PartialIs
<1> DEFINE S == {i \in 0 .. n : q[i] = p[i]}
<1>7. 0 \in S
  BY <1>5, <1>6
<1>8. \A i \in 1 .. n : i - 1 \in S => i \in S
  <2>1. TAKE i \in 1 .. n
  <2>2. HAVE i - 1 \in S
  <2>3. q[i - 1] = p[i - 1] /\ i \in 0 .. n
    BY <2>2
  <2>4. t[i].length = s[i].length /\ (i \in P <=> i \in Q)
    BY <1>3
  <2>5. q[i] = p[i]
    BY <1>5, <1>6, <2>3, <2>4
  <2> QED BY <2>3, <2>5
<1> HIDE DEF S
<1>9. \A i \in 0 .. n : i \in S
  BY <1>7, <1>8, Reach
<1> QED BY <1>1, <1>2, <1>3, <1>9 DEF S

LEMMA Additive ==
  ASSUME NEW s \in Seq(Blocks), NEW P, NEW Q, P \cap Q = {}
  PROVE  Weight(s, P) + Weight(s, Q) = Weight(s, P \cup Q)
<1>1. PICK p : p = Partial(s, P)
  OBVIOUS
<1>2. PICK q : q = Partial(s, Q)
  OBVIOUS
<1>3. PICK r : r = Partial(s, P \cup Q)
  OBVIOUS
<1>4. PICK n \in Nat : n = Len(s)
  OBVIOUS
<1>5. \A i \in 0 .. n : p[i] \in Nat /\ q[i] \in Nat /\ r[i] \in Nat
  BY <1>1, <1>2, <1>3, <1>4, PartialIs
<1>6. p[0] = 0 /\ \A i \in 1 .. n : p[i] = p[i - 1] + (IF i \in P THEN s[i].length ELSE 0)
  BY <1>1, <1>4, PartialIs, SMTT(30)
<1>7. q[0] = 0 /\ \A i \in 1 .. n : q[i] = q[i - 1] + (IF i \in Q THEN s[i].length ELSE 0)
  BY <1>2, <1>4, PartialIs, SMTT(30)
<1>8. r[0] = 0 /\ \A i \in 1 .. n : r[i] = r[i - 1] + (IF i \in P \cup Q THEN s[i].length ELSE 0)
  BY <1>3, <1>4, PartialIs, SMTT(30)
<1> DEFINE S == {i \in 0 .. n : p[i] + q[i] = r[i]}
<1>9. 0 \in S
  BY <1>6, <1>7, <1>8
<1>10. \A i \in 1 .. n : i - 1 \in S => i \in S
  <2>1. TAKE i \in 1 .. n
  <2>2. HAVE i - 1 \in S
  <2>3. p[i - 1] + q[i - 1] = r[i - 1] /\ i \in 0 .. n /\ i - 1 \in 0 .. n
    BY <2>2
  <2>4. p[i - 1] \in Nat /\ q[i - 1] \in Nat /\ r[i - 1] \in Nat
    BY <1>5, <2>3
  <2>5. s[i].length \in Nat
    BY <1>4, LengthOf
  <2>6. PICK l \in Nat : l = s[i].length
    BY <2>5
  <2>7. /\ p[i] = p[i - 1] + (IF i \in P THEN l ELSE 0)
        /\ q[i] = q[i - 1] + (IF i \in Q THEN l ELSE 0)
        /\ r[i] = r[i - 1] + (IF i \in P \cup Q THEN l ELSE 0)
    BY <1>6, <1>7, <1>8, <2>6
  <2>8. p[i] + q[i] = r[i]
    BY <2>3, <2>4, <2>7
  <2> QED BY <2>3, <2>8
<1> HIDE DEF S
<1>11. \A i \in 0 .. n : i \in S
  BY <1>9, <1>10, Reach
<1>12. n \in 0 .. n
  OBVIOUS
<1>13. p[n] + q[n] = r[n]
  BY <1>11, <1>12 DEF S
<1> QED BY <1>1, <1>2, <1>3, <1>4, <1>13 DEF Weight

LEMMA Singleton ==
  ASSUME NEW s \in Seq(Blocks), NEW k \in 1 .. Len(s)
  PROVE  Weight(s, {k}) = s[k].length
<1>1. PICK p : p = Partial(s, {k})
  OBVIOUS
<1>2. PICK n \in Nat : n = Len(s)
  OBVIOUS
<1>3. p[0] = 0 /\ \A i \in 1 .. n : p[i] = p[i - 1] + (IF i = k THEN s[i].length ELSE 0)
  BY <1>1, <1>2, PartialIs
<1>4. PICK l \in Nat : l = s[k].length
  BY LengthOf
<1> DEFINE S == {i \in 0 .. n : p[i] = IF i < k THEN 0 ELSE l}
<1>5. 0 \in S
  BY <1>3
<1>6. \A i \in 1 .. n : i - 1 \in S => i \in S
  <2>1. TAKE i \in 1 .. n
  <2>2. HAVE i - 1 \in S
  <2>3. p[i - 1] = (IF i - 1 < k THEN 0 ELSE l) /\ i \in 0 .. n
    BY <2>2
  <2>4. p[i] = p[i - 1] + (IF i = k THEN l ELSE 0)
    BY <1>3, <1>4
  <2>5. k \in Int /\ i \in Int /\ (i < k \/ i = k \/ k <= i - 1)
    BY <1>2
  <2>6. p[i] = IF i < k THEN 0 ELSE l
    BY <2>3, <2>4, <2>5
  <2> QED BY <2>3, <2>6
<1> HIDE DEF S
<1>7. \A i \in 0 .. n : i \in S
  BY <1>5, <1>6, Reach
<1>8. n \in 0 .. n /\ ~(n < k)
  BY <1>2
<1>9. p[n] = l
  BY <1>7, <1>8 DEF S
<1> QED BY <1>1, <1>2, <1>4, <1>9 DEF Weight

LEMMA WeightIs ==
  ASSUME NEW s \in Seq(Blocks), NEW P
  PROVE  /\ Weight(s, P) \in Nat /\ TotalLength(s) \in Nat
         /\ Weight(s, P) <= TotalLength(s)
         /\ \A i \in DOMAIN s : i \notin P => Weight(s, P) + s[i].length <= TotalLength(s)
<1>1. Len(s) \in Nat /\ Len(s) \in 0 .. Len(s) /\ DOMAIN s = 1 .. Len(s)
  OBVIOUS
<1>2. \A Q : Weight(s, Q) \in Nat
  BY <1>1, PartialIs DEF Weight
<1>3. TotalLength(s) = Weight(s, 1 .. Len(s))
  BY EndsAre DEF TotalLength, Weight
<1> DEFINE R == (1 .. Len(s)) \cap P
<1>4. Weight(s, P) = Weight(s, R)
  <2>1. \A i \in 1 .. Len(s) : s[i].length = s[i].length /\ (i \in R <=> i \in P)
    OBVIOUS
  <2>2. Len(s) <= Len(s)
    BY <1>1
  <2>3. \A i \in 0 .. Len(s) : Partial(s, P)[i] = Partial(s, R)[i]
    <3> HIDE DEF R
    <3> QED BY <2>1, <2>2, SamePartial
  <2> QED BY <1>1, <2>3 DEF Weight
<1>5. ASSUME NEW Q, Q \subseteq 1 .. Len(s), Q \cap R = {}
      PROVE  Weight(s, R) + Weight(s, Q) <= TotalLength(s)
  <2> DEFINE O == (1 .. Len(s)) \ (R \cup Q)
  <2>1. (R \cup Q) \cap O = {} /\ (R \cup Q) \cup O = 1 .. Len(s) /\ R \cap Q = {}
    BY <1>5
  <2>2. Weight(s, R) + Weight(s, Q) = Weight(s, R \cup Q)
    BY <2>1, Additive
  <2>3. Weight(s, R \cup Q) + Weight(s, O) = Weight(s, 1 .. Len(s))
    <3> HIDE DEF R, O
    <3> QED BY <2>1, Additive
  <2>4. /\ Weight(s, R) \in Nat /\ Weight(s, Q) \in Nat /\ Weight(s, R \cup Q) \in Nat
        /\ Weight(s, O) \in Nat
    BY <1>2
  <2> HIDE DEF R, O
  <2> QED BY <1>3, <2>2, <2>3, <2>4
<1>6. Weight(s, P) <= TotalLength(s)
  <2>1. Weight(s, R) + Weight(s, {}) <= TotalLength(s)
    BY <1>5
  <2>2. Weight(s, R) \in Nat /\ Weight(s, {}) \in Nat /\ TotalLength(s) \in Nat
    BY <1>2, <1>3
  <2> HIDE DEF R
  <2> QED BY <1>4, <2>1, <2>2
<1>7. ASSUME NEW i \in DOMAIN s, i \notin P
      PROVE  Weight(s, P) + s[i].length <= TotalLength(s)
  <2>1. i \in 1 .. Len(s) /\ {i} \subseteq 1 .. Len(s) /\ {i} \cap R = {}
    BY <1>1, <1>7
  <2>2. Weight(s, {i}) = s[i].length
    BY <2>1, Singleton
  <2>3. Weight(s, R) + Weight(s, {i}) <= TotalLength(s)
    BY <1>5, <2>1
  <2> QED BY <1>4, <2>2, <2>3
<1> QED BY <1>2, <1>3, <1>6, <1>7

-----------------------------------------------------------------------------
(* Where the blocks begin *)

\* Blocks begin in their order, and none where another does.
LEMMA OffsetsGrow ==
  ASSUME NEW s \in Seq(Blocks)
  PROVE  /\ \A i \in DOMAIN s : Offset(s, i) \in Nat /\ Offset(s, i) < TotalLength(s)
         /\ \A i, j \in DOMAIN s : i < j <=> Offset(s, i) < Offset(s, j)
         /\ \A i, j \in DOMAIN s : Offset(s, i) = Offset(s, j) => i = j
<1>1. PICK e : e = Ends(s)
  OBVIOUS
<1>2. PICK n \in Nat : n = Len(s) /\ DOMAIN s = 1 .. n
  OBVIOUS
<1>3. (\A i \in 0 .. n : e[i] \in Nat) /\ \A i \in 1 .. n : e[i] = e[i - 1] + s[i].length
  BY <1>1, <1>2, EndsAre
<1>4. \A i \in 1 .. n : e[i - 1] < e[i]
  <2>1. TAKE i \in 1 .. n
  <2>2. e[i] = e[i - 1] + s[i].length /\ e[i - 1] \in Nat
    BY <1>3
  <2>3. s[i].length \in Nat /\ s[i].length > 0
    BY <1>2, LengthOf
  <2> QED BY <2>2, <2>3
<1> DEFINE S == {j \in 0 .. n : \A i \in 0 .. n : i < j => e[i] < e[j]}
<1>5. 0 \in S
  OBVIOUS
<1>6. \A j \in 1 .. n : j - 1 \in S => j \in S
  <2>1. TAKE j \in 1 .. n
  <2>2. HAVE j - 1 \in S
  <2>3. ASSUME NEW i \in 0 .. n, i < j PROVE e[i] < e[j]
    <3>1. e[i] \in Nat /\ e[j - 1] \in Nat /\ e[j] \in Nat /\ e[j - 1] < e[j]
      BY <1>3, <1>4
    <3>2. i = j - 1 \/ i < j - 1
      BY <2>3
    <3>3. i < j - 1 => e[i] < e[j - 1]
      BY <2>2
    <3> QED BY <3>1, <3>2, <3>3
  <2>4. j \in 0 .. n
    BY <1>2
  <2> QED BY <2>3, <2>4
<1> HIDE DEF S
<1>7. \A j \in 0 .. n : j \in S
  BY <1>5, <1>6, Reach
<1>8. \A i, j \in 0 .. n : i < j => e[i] < e[j]
  BY <1>7 DEF S
<1>9. \A i \in 1 .. n : Offset(s, i) = e[i - 1] /\ i - 1 \in 0 .. n /\ i - 1 < n
  BY <1>1, <1>2 DEF Offset
<1>10. TotalLength(s) = e[n] /\ n \in 0 .. n
  BY <1>1, <1>2 DEF TotalLength
<1>11. \A i \in 1 .. n : Offset(s, i) \in Nat /\ Offset(s, i) < TotalLength(s)
  BY <1>3, <1>8, <1>9, <1>10
<1>12. \A i, j \in 1 .. n : i < j => Offset(s, i) < Offset(s, j)
  <2>1. TAKE i, j \in 1 .. n
  <2>2. HAVE i < j
  <2>3. i - 1 < j - 1 /\ i - 1 \in 0 .. n /\ j - 1 \in 0 .. n
    BY <2>2
  <2> QED BY <1>8, <1>9, <2>3
<1>13. \A i, j \in 1 .. n : i < j \/ i = j \/ j < i
  OBVIOUS
<1>14. \A i, j \in 1 .. n : Offset(s, i) < Offset(s, j) => i < j
  <2>1. TAKE i, j \in 1 .. n
  <2>2. HAVE Offset(s, i) < Offset(s, j)
  <2>3. Offset(s, i) \in Nat /\ Offset(s, j) \in Nat
    BY <1>11
  <2>4. CASE j < i
    BY <1>12, <2>2, <2>3, <2>4
  <2>5. CASE i = j
    BY <2>2, <2>3, <2>5
  <2> QED BY <1>13, <2>4, <2>5
<1>15. \A i, j \in 1 .. n : Offset(s, i) = Offset(s, j) => i = j
  <2>1. TAKE i, j \in 1 .. n
  <2>2. HAVE Offset(s, i) = Offset(s, j)
  <2>3. Offset(s, i) \in Nat /\ Offset(s, j) \in Nat
    BY <1>11
  <2>4. ~(i < j) /\ ~(j < i)
    BY <1>12, <2>2, <2>3
  <2> QED BY <1>13, <2>4
<1> QED BY <1>2, <1>11, <1>12, <1>14, <1>15

\* The block at an offset where one begins.
LEMMA BlockAtIs ==
  ASSUME blocks \in Seq(Blocks), NEW i \in DOMAIN blocks
  PROVE  BlockAt(Offset(blocks, i)) = blocks[i]
<1>1. \A j \in DOMAIN blocks : Offset(blocks, j) = Offset(blocks, i) => j = i
  BY OffsetsGrow
<1>2. (CHOOSE j \in DOMAIN blocks : Offset(blocks, j) = Offset(blocks, i)) = i
  BY <1>1
<1> QED BY <1>2 DEF BlockAt

\* A block behind the others begins where they end.
LEMMA AppendedOffsets ==
  ASSUME NEW s \in Seq(Blocks), NEW b \in Blocks
  PROVE  LET t == Append(s, b) IN
         /\ t \in Seq(Blocks) /\ Len(t) = Len(s) + 1 /\ t[Len(s) + 1] = b
         /\ \A i \in 1 .. Len(s) : t[i] = s[i] /\ Offset(t, i) = Offset(s, i)
         /\ Offset(t, Len(s) + 1) = TotalLength(s)
         /\ TotalLength(t) = TotalLength(s) + b.length
         /\ \A P : P \subseteq 1 .. Len(s) => Weight(t, P) = Weight(s, P)
<1>1. PICK t : t = Append(s, b)
  OBVIOUS
<1>2. PICK n \in Nat : n = Len(s)
  OBVIOUS
<1>3. t \in Seq(Blocks) /\ Len(t) = n + 1 /\ t[n + 1] = b /\ \A i \in 1 .. n : t[i] = s[i]
  BY <1>1, <1>2
<1>4. \A P : \A i \in 0 .. n : Partial(t, P)[i] = Partial(s, P)[i]
  BY <1>2, <1>3, SamePartial
<1>5. \A i \in 0 .. n : Ends(t)[i] = Ends(s)[i]
  <2>1. Ends(t) = Partial(t, 1 .. n + 1) /\ Ends(s) = Partial(s, 1 .. n)
    BY <1>2, <1>3, EndsAre
  <2>2. \A i \in 1 .. Len(s) : t[i].length = s[i].length /\ (i \in 1 .. n <=> i \in 1 .. n + 1)
    BY <1>2, <1>3
  <2>3. Len(s) <= Len(t)
    BY <1>2, <1>3
  <2>4. \A i \in 0 .. Len(s) : Partial(t, 1 .. n + 1)[i] = Partial(s, 1 .. n)[i]
    BY <1>3, <2>2, <2>3, SamePartial, SMTT(30)
  <2> QED BY <1>2, <2>1, <2>4
<1>6. Ends(t)[n + 1] = Ends(t)[n + 1 - 1] + t[n + 1].length /\ n + 1 - 1 = n /\ n \in 0 .. n
  BY <1>3, EndsAre, SMTT(30)
<1>7. Ends(t)[n + 1] = Ends(s)[n] + b.length
  BY <1>3, <1>5, <1>6
<1>8. \A i \in 1 .. n : Offset(t, i) = Offset(s, i)
  BY <1>5 DEF Offset
<1>9. Offset(t, n + 1) = TotalLength(s)
  BY <1>2, <1>5, <1>6 DEF Offset, TotalLength
<1>10. TotalLength(t) = TotalLength(s) + b.length
  BY <1>2, <1>3, <1>7 DEF TotalLength
<1>11. ASSUME NEW P, P \subseteq 1 .. n PROVE Weight(t, P) = Weight(s, P)
  <2>1. PICK p : p = Partial(t, P)
    OBVIOUS
  <2>2. p[n + 1] = p[n + 1 - 1] + (IF n + 1 \in P THEN t[n + 1].length ELSE 0)
    <3>1. \A i \in 1 .. Len(t) : p[i] = p[i - 1] + (IF i \in P THEN t[i].length ELSE 0)
      <4>1. t \in Seq(Blocks)
        BY <1>3
      <4> QED BY <2>1, <4>1, PartialIs
    <3>2. n + 1 \in 1 .. Len(t)
      BY <1>3
    <3> QED BY <3>1, <3>2
  <2>3. n + 1 \notin P
    BY <1>11
  <2>4. p[n] = Partial(s, P)[n]
    BY <1>4, <1>6, <2>1
  <2>5. p \in [0 .. n + 1 -> Nat]
    BY <1>3, <2>1, PartialIs
  <2>6. p[n] \in Nat
    BY <1>6, <2>5
  <2>7. p[n + 1] = p[n]
    BY <1>6, <2>2, <2>3, <2>6
  <2> QED BY <1>2, <1>3, <2>1, <2>4, <2>7 DEF Weight
<1> QED BY <1>1, <1>2, <1>3, <1>8, <1>9, <1>10, <1>11

\* The lengths of what is left are the lengths of what was chosen.
LEMMA OnlyWeighs ==
  ASSUME NEW s \in Seq(Blocks), NEW P
  PROVE  TotalLength(Only(s, P)) = Weight(s, P)
<1>1. PICK n \in Nat : n = Len(s)
  OBVIOUS
<1>2. PICK f \in [0 .. n -> Seq(Blocks)] :
        /\ f[0] = <<>>
        /\ \A i \in 1 .. n : f[i] = IF i \in P THEN Append(f[i - 1], s[i]) ELSE f[i - 1]
        /\ Only(s, P) = f[n]
  <2>1. \E f : Leaves(f, s, P, Blocks) /\ Only(s, P) = f[Len(s)]
    BY OnlyIs
  <2> QED BY <1>1, <2>1 DEF Leaves
<1>3. PICK p : p = Partial(s, P)
  OBVIOUS
<1>4. p[0] = 0 /\ \A i \in 1 .. n : p[i] = p[i - 1] + (IF i \in P THEN s[i].length ELSE 0)
  BY <1>1, <1>3, PartialIs
<1> DEFINE S == {i \in 0 .. n : TotalLength(f[i]) = p[i]}
<1>5. 0 \in S
  <2>1. PICK e \in Seq(Blocks) : e = <<>> /\ Len(e) = 0
    <3>1. <<>> \in Seq(Blocks) /\ Len(<<>>) = 0
      OBVIOUS
    <3> QED BY <3>1
  <2>2. TotalLength(e) = 0
    BY <2>1, EndsAre DEF TotalLength
  <2> QED BY <1>2, <1>4, <2>1, <2>2
<1>6. \A i \in 1 .. n : i - 1 \in S => i \in S
  <2>1. TAKE i \in 1 .. n
  <2>2. HAVE i - 1 \in S
  <2>3. TotalLength(f[i - 1]) = p[i - 1] /\ i \in 0 .. n /\ i - 1 \in 0 .. n
    BY <2>2
  <2>4. s[i] \in Blocks /\ f[i - 1] \in Seq(Blocks)
    BY <1>1, <2>3
  <2>5. CASE i \in P
    <3>1. TotalLength(Append(f[i - 1], s[i])) = TotalLength(f[i - 1]) + s[i].length
      BY <2>4, AppendedOffsets
    <3> QED BY <1>2, <1>4, <2>3, <2>5, <3>1
  <2>6. CASE i \notin P
    <3>1. TotalLength(f[i - 1]) \in Nat
      BY <2>4, WeightIs
    <3> QED BY <1>2, <1>4, <2>3, <2>6, <3>1
  <2> QED BY <2>5, <2>6
<1> HIDE DEF S
<1>7. \A i \in 0 .. n : i \in S
  BY <1>5, <1>6, Reach
<1>8. n \in 0 .. n
  OBVIOUS
<1> QED BY <1>1, <1>2, <1>3, <1>7, <1>8 DEF S, Weight

-----------------------------------------------------------------------------
(* What Only leaves *)

\* u is what the first n positions of s leave, and r says where each element was.
Picks(r, u, s, P, n) ==
  /\ r \in [1 .. Len(u) -> 1 .. n]
  /\ \A j, k \in 1 .. Len(u) : j < k => r[j] < r[k]
  /\ \A j \in 1 .. Len(u) : r[j] \in P /\ u[j] = s[r[j]]
  /\ \A i \in 1 .. n : i \in P => \E j \in 1 .. Len(u) : r[j] = i

LEMMA PicksMore ==
  ASSUME NEW T, NEW s \in Seq(T), NEW P, NEW u \in Seq(T), NEW i \in 1 .. Len(s), NEW r,
         Picks(r, u, s, P, i - 1)
  PROVE  \E q : Picks(q, IF i \in P THEN Append(u, s[i]) ELSE u, s, P, i)
<1>1. PICK m \in Nat : m = Len(u)
  OBVIOUS
<1>2. /\ \A j \in 1 .. m : r[j] \in 1 .. i - 1 /\ r[j] \in P /\ u[j] = s[r[j]]
      /\ \A j, k \in 1 .. m : j < k => r[j] < r[k]
      /\ \A h \in 1 .. i - 1 : h \in P => \E j \in 1 .. m : r[j] = h
      /\ r = [j \in 1 .. m |-> r[j]]
  BY <1>1 DEF Picks
<1>3. i \in Nat /\ \A h \in 1 .. i : h = i \/ h \in 1 .. i - 1
  OBVIOUS
<1>4. \A j \in 1 .. m : r[j] \in 1 .. i /\ r[j] < i /\ r[j] \in Nat
  BY <1>2, <1>3
<1>5. CASE i \notin P
  <2>1. r \in [1 .. m -> 1 .. i]
    BY <1>2, <1>4
  <2>2. \A h \in 1 .. i : h \in P => \E j \in 1 .. m : r[j] = h
    BY <1>2, <1>3, <1>5
  <2>3. Picks(r, u, s, P, i)
    BY <1>1, <1>2, <2>1, <2>2 DEF Picks
  <2> QED BY <1>5, <2>3
<1>6. CASE i \in P
  <2>1. PICK v : v = Append(u, s[i])
    OBVIOUS
  <2>2. s[i] \in T
    OBVIOUS
  <2>3. v \in Seq(T) /\ Len(v) = m + 1 /\ v[m + 1] = s[i] /\ \A j \in 1 .. m : v[j] = u[j]
    BY <1>1, <2>1, <2>2
  <2>4. PICK q : q = [j \in 1 .. m + 1 |-> IF j = m + 1 THEN i ELSE r[j]]
    OBVIOUS
  <2>5. \A j \in 1 .. m + 1 : j = m + 1 \/ j \in 1 .. m
    OBVIOUS
  <2>6. q[m + 1] = i /\ m + 1 \in 1 .. m + 1 /\ \A j \in 1 .. m : q[j] = r[j] /\ j \in 1 .. m + 1
    BY <2>4
  <2>7. q \in [1 .. m + 1 -> 1 .. i]
    <3>1. i \in 1 .. i
      OBVIOUS
    <3>2. \A j \in 1 .. m + 1 : q[j] \in 1 .. i
      BY <1>4, <2>5, <2>6, <3>1
    <3> QED BY <2>4, <3>2
  <2>8. \A j, k \in 1 .. m + 1 : j < k => q[j] < q[k]
    <3>1. TAKE j, k \in 1 .. m + 1
    <3>2. HAVE j < k
    <3>3. j \in 1 .. m
      BY <3>2
    <3>4. CASE k = m + 1
      BY <1>4, <2>6, <3>3, <3>4
    <3>5. CASE k \in 1 .. m
      BY <1>2, <2>6, <3>2, <3>3, <3>5
    <3> QED BY <2>5, <3>4, <3>5
  <2>9. \A j \in 1 .. m + 1 : q[j] \in P /\ v[j] = s[q[j]]
    <3>1. TAKE j \in 1 .. m + 1
    <3>2. CASE j = m + 1
      BY <1>6, <2>3, <2>6, <3>2
    <3>3. CASE j \in 1 .. m
      BY <1>2, <2>3, <2>6, <3>3
    <3> QED BY <2>5, <3>2, <3>3
  <2>10. \A h \in 1 .. i : h \in P => \E j \in 1 .. m + 1 : q[j] = h
    <3>1. TAKE h \in 1 .. i
    <3>2. HAVE h \in P
    <3>3. CASE h = i
      BY <2>6, <3>3
    <3>4. CASE h \in 1 .. i - 1
      BY <1>2, <2>6, <3>2, <3>4
    <3> QED BY <1>3, <3>3, <3>4
  <2>11. Picks(q, v, s, P, i)
    BY <2>3, <2>7, <2>8, <2>9, <2>10 DEF Picks
  <2> QED BY <1>6, <2>1, <2>11
<1> QED BY <1>5, <1>6

\* Only leaves the elements at the chosen positions, in their order.
LEMMA OnlyPicks ==
  ASSUME NEW T, NEW s \in Seq(T), NEW P
  PROVE  Only(s, P) \in Seq(T) /\ \E r : Picks(r, Only(s, P), s, P, Len(s))
<1>1. PICK f : Leaves(f, s, P, T) /\ Only(s, P) = f[Len(s)]
  BY OnlyIs
<1>2. PICK n \in Nat : n = Len(s)
  OBVIOUS
<1>3. /\ \A i \in 0 .. n : f[i] \in Seq(T)
      /\ f[0] = <<>>
      /\ \A i \in 1 .. n : f[i] = IF i \in P THEN Append(f[i - 1], s[i]) ELSE f[i - 1]
  BY <1>1, <1>2 DEF Leaves
<1> DEFINE S == {i \in 0 .. n : \E r : Picks(r, f[i], s, P, i)}
<1>4. 0 \in S
  <2>1. f[0] = <<>> /\ Len(f[0]) = 0 /\ 0 \in 0 .. n
    BY <1>3
  <2>2. PICK r : r = [j \in 1 .. 0 |-> j]
    OBVIOUS
  <2>3. Picks(r, f[0], s, P, 0)
    BY <2>1, <2>2 DEF Picks
  <2> QED BY <2>1, <2>3
<1>5. \A i \in 1 .. n : i - 1 \in S => i \in S
  <2>1. TAKE i \in 1 .. n
  <2>2. HAVE i - 1 \in S
  <2>3. PICK r : Picks(r, f[i - 1], s, P, i - 1)
    BY <2>2
  <2>4. f[i - 1] \in Seq(T) /\ i \in 1 .. Len(s) /\ i \in 0 .. n
    BY <1>2, <1>3, <2>2
  <2>5. \E q : Picks(q, IF i \in P THEN Append(f[i - 1], s[i]) ELSE f[i - 1], s, P, i)
    BY <2>3, <2>4, PicksMore
  <2>6. \E q : Picks(q, f[i], s, P, i)
    BY <1>3, <2>5
  <2> QED BY <2>4, <2>6
<1> HIDE DEF S
<1>6. \A i \in 0 .. n : i \in S
  BY <1>4, <1>5, Reach
<1>7. n \in 0 .. n
  OBVIOUS
<1>8. \E r : Picks(r, f[n], s, P, n)
  BY <1>6, <1>7 DEF S
<1> QED BY <1>1, <1>2, <1>3, <1>7, <1>8

\* Nothing else does.
LEMMA PicksOnly ==
  ASSUME NEW T, NEW s \in Seq(T), NEW P, NEW u \in Seq(T), NEW r, Picks(r, u, s, P, Len(s))
  PROVE  u = Only(s, P)
<1>1. PICK f : Leaves(f, s, P, T) /\ Only(s, P) = f[Len(s)]
  BY OnlyIs
<1>2. PICK n \in Nat : n = Len(s)
  OBVIOUS
<1>3. PICK m \in Nat : m = Len(u)
  OBVIOUS
<1>4. /\ \A i \in 0 .. n : f[i] \in Seq(T)
      /\ f[0] = <<>>
      /\ \A i \in 1 .. n : f[i] = IF i \in P THEN Append(f[i - 1], s[i]) ELSE f[i - 1]
  BY <1>1, <1>2 DEF Leaves
<1>5. /\ \A j \in 1 .. m : r[j] \in 1 .. n /\ r[j] \in P /\ u[j] = s[r[j]]
      /\ \A j, k \in 1 .. m : j < k => r[j] < r[k]
      /\ \A h \in 1 .. n : h \in P => \E j \in 1 .. m : r[j] = h
  BY <1>2, <1>3 DEF Picks
<1> DEFINE Begins(v, i) == /\ Len(v) <= m
                           /\ \A j \in 1 .. Len(v) : v[j] = u[j]
                           /\ \A j \in 1 .. m : j <= Len(v) <=> r[j] <= i
           S == {i \in 0 .. n : Begins(f[i], i)}
<1>6. 0 \in S
  <2>1. Len(f[0]) = 0 /\ 0 \in 0 .. n
    BY <1>4
  <2>2. \A j \in 1 .. m : ~(j <= 0) /\ ~(r[j] <= 0)
    BY <1>5
  <2> QED BY <2>1, <2>2
<1>7. \A i \in 1 .. n : i - 1 \in S => i \in S
  <2>1. TAKE i \in 1 .. n
  <2>2. HAVE i - 1 \in S
  <2>3. PICK v \in Seq(T) : v = f[i - 1]
    BY <1>4
  <2>4. PICK l \in Nat : l = Len(v)
    OBVIOUS
  <2>5. /\ l <= m /\ \A j \in 1 .. l : v[j] = u[j]
        /\ \A j \in 1 .. m : j <= l <=> r[j] <= i - 1
    BY <2>2, <2>3, <2>4
  <2>6. f[i] = (IF i \in P THEN Append(v, s[i]) ELSE v) /\ i \in 0 .. n
    BY <1>4, <2>3
  <2>7. CASE i \notin P
    <3>1. \A j \in 1 .. m : r[j] # i /\ r[j] \in Nat
      BY <1>5, <2>7
    <3>2. \A j \in 1 .. m : r[j] <= i - 1 <=> r[j] <= i
      BY <3>1
    <3>3. \A j \in 1 .. m : j <= l <=> r[j] <= i
      BY <2>5, <3>2
    <3>4. Begins(v, i)
      BY <2>4, <2>5, <3>3
    <3> QED BY <2>6, <2>7, <3>4
  <2>8. CASE i \in P
    <3>1. PICK k \in 1 .. m : r[k] = i
      BY <1>5, <2>8
    <3>2. ~(k <= l)
      BY <2>5, <3>1
    <3>3. l + 1 \in 1 .. m
      BY <3>2
    <3>4. k = l + 1
      <4>1. SUFFICES ASSUME l + 1 < k PROVE FALSE
        BY <3>2
      <4>2. r[l + 1] < i /\ r[l + 1] \in 1 .. n
        BY <1>5, <3>1, <3>3, <4>1
      <4>3. r[l + 1] <= i - 1
        BY <4>2
      <4>4. l + 1 <= l
        BY <2>5, <3>3, <4>3
      <4> QED BY <4>4
    <3>5. u[l + 1] = s[i]
      BY <1>5, <3>1, <3>4
    <3>6. PICK w : w = Append(v, s[i])
      OBVIOUS
    <3>7. s[i] \in T
      BY <1>2
    <3>8. Len(w) = l + 1 /\ w[l + 1] = s[i] /\ \A j \in 1 .. l : w[j] = v[j]
      BY <2>4, <3>6, <3>7
    <3>9. \A j \in 1 .. l + 1 : w[j] = u[j]
      <4>1. TAKE j \in 1 .. l + 1
      <4>2. j = l + 1 \/ j \in 1 .. l
        OBVIOUS
      <4> QED BY <2>5, <3>5, <3>8, <4>2
    <3>10. \A j \in 1 .. m : j <= l + 1 <=> r[j] <= i
      <4>1. TAKE j \in 1 .. m
      <4>2. r[j] \in Nat
        BY <1>5
      <4>3. CASE j <= l
        BY <2>5, <4>2, <4>3
      <4>4. CASE j = l + 1
        BY <3>1, <3>4, <4>4
      <4>5. CASE l + 1 < j
        <5>1. i < r[j]
          BY <1>5, <3>1, <3>3, <3>4, <4>5
        <5> QED BY <4>2, <4>5, <5>1
      <4> QED BY <4>3, <4>4, <4>5
    <3>11. Begins(w, i)
      BY <3>3, <3>8, <3>9, <3>10
    <3> QED BY <2>6, <2>8, <3>6, <3>11
  <2> QED BY <2>7, <2>8
<1>8. PICK v \in Seq(T) : v = f[n]
  <2>1. n \in 0 .. n
    OBVIOUS
  <2> QED BY <1>4, <2>1
<1>9. Begins(v, n)
  <2> HIDE DEF S
  <2>1. \A i \in 0 .. n : i \in S
    BY <1>6, <1>7, Reach
  <2>2. n \in 0 .. n
    OBVIOUS
  <2> QED BY <1>8, <2>1, <2>2 DEF S
<1>10. Len(v) = m /\ \A j \in 1 .. m : v[j] = u[j]
  <2>1. \A j \in 1 .. m : r[j] <= n
    BY <1>5
  <2>2. \A j \in 1 .. m : j <= Len(v)
    BY <1>9, <2>1
  <2>3. Len(v) \in Nat /\ Len(v) <= m
    BY <1>9
  <2>4. Len(v) = m
    BY <2>2, <2>3
  <2> QED BY <1>9, <2>4
<1>11. v = u
  BY <1>3, <1>10, SeqEqual
<1> QED BY <1>1, <1>2, <1>8, <1>11

-----------------------------------------------------------------------------
(* The bindings of an index *)

Bindings == [key : Keys, value : Values, hashcode : Nat]

BlockIn(bs, offset) == bs[CHOOSE i \in DOMAIN bs : Offset(bs, i) = offset]

BindingIn(b) == [key |-> b.key, value |-> b.value, hashcode |-> b.hashcode]

BindingOf(ix, bs, a) == BindingIn(BlockIn(bs, ix[a].offset))

BindingsOf(ix, bs) ==
  LET live == Only(ix, LiveIn(ix))
  IN  [j \in DOMAIN live |-> BindingIn(BlockIn(bs, live[j].offset))]

LEMMA IndexedBindingsAre ==
  /\ IndexedBindings = BindingsOf(index, blocks)
  /\ IndexedBindings' = BindingsOf(index', blocks')
BY DEF IndexedBindings, BindingsOf, LiveIn, BlockAt, BlockIn, BindingIn

\* r says which entry each binding in t is of.
Lists(r, t, ix, bs) ==
  /\ r \in [1 .. Len(t) -> 1 .. Len(ix)]
  /\ \A j, k \in 1 .. Len(t) : j < k => r[j] < r[k]
  /\ \A j \in 1 .. Len(t) : r[j] \in LiveIn(ix) /\ t[j] = BindingOf(ix, bs, r[j])
  /\ \A a \in LiveIn(ix) : \E j \in 1 .. Len(t) : r[j] = a

\* The block of an entry in use, and the binding in it.
LEMMA EntryIs ==
  ASSUME NEW ix, NEW bs, Consistent(ix, bs), NEW a \in LiveIn(ix)
  PROVE  \E i \in DOMAIN bs :
           /\ StandsFor(ix, bs, a, i)
           /\ bs[i].key \in Keys /\ bs[i].value \in Values
           /\ ix[a].hashcode = bs[i].hashcode
           /\ bs[i].cleared => bs[i].hashcode \in Fragile
           /\ BlockIn(bs, ix[a].offset) = bs[i]
           /\ BindingOf(ix, bs, a) = BindingIn(bs[i])
           /\ BindingOf(ix, bs, a) \in Bindings
<1>1. bs \in Seq(Blocks)
  BY DEF Consistent
<1>2. PICK i \in DOMAIN bs :
        /\ StandsFor(ix, bs, a, i)
        /\ bs[i].key \in Keys /\ bs[i].value \in Values
        /\ ix[a].hashcode = bs[i].hashcode
        /\ bs[i].cleared => bs[i].hashcode \in Fragile
  BY DEF Consistent, Indexed
<1>3. \A j \in DOMAIN bs : Offset(bs, j) = Offset(bs, i) => j = i
  BY <1>1, OffsetsGrow
<1>4. BlockIn(bs, Offset(bs, i)) = bs[i]
  <2>1. (CHOOSE j \in DOMAIN bs : Offset(bs, j) = Offset(bs, i)) = i
    BY <1>3
  <2> QED BY <2>1 DEF BlockIn
<1>5. BlockIn(bs, ix[a].offset) = bs[i]
  BY <1>2, <1>4 DEF StandsFor
<1>6. BindingOf(ix, bs, a) = BindingIn(bs[i])
  BY <1>5 DEF BindingOf
<1>7. bs[i].hashcode \in Nat
  <2>1. bs[i] \in Blocks
    BY <1>1
  <2> QED BY <2>1 DEF Blocks
<1>8. BindingIn(bs[i]) \in Bindings
  BY <1>2, <1>7 DEF Bindings, BindingIn
<1> QED BY <1>2, <1>5, <1>6, <1>8

LEMMA BindingsAre ==
  ASSUME NEW ix, NEW bs, Consistent(ix, bs)
  PROVE  BindingsOf(ix, bs) \in Seq(Bindings) /\ \E r : Lists(r, BindingsOf(ix, bs), ix, bs)
<1>1. ix \in Seq(Entries)
  BY DEF Consistent
<1>2. PICK u : u = Only(ix, LiveIn(ix))
  OBVIOUS
<1>3. u \in Seq(Entries) /\ \E r : Picks(r, u, ix, LiveIn(ix), Len(ix))
  BY <1>1, <1>2, OnlyPicks
<1>4. PICK r : Picks(r, u, ix, LiveIn(ix), Len(ix))
  BY <1>3
<1>5. PICK m \in Nat : m = Len(u) /\ DOMAIN u = 1 .. m
  BY <1>3
<1>6. PICK t : t = [j \in 1 .. m |-> BindingOf(ix, bs, r[j])]
  OBVIOUS
<1>7. \A j \in 1 .. m : r[j] \in LiveIn(ix) /\ u[j] = ix[r[j]]
  BY <1>4, <1>5 DEF Picks
<1>8. t = BindingsOf(ix, bs)
  <2>1. \A j \in 1 .. m :
          BindingOf(ix, bs, r[j]) =
            BindingIn(BlockIn(bs, u[j].offset))
    BY <1>7 DEF BindingOf
  <2> QED BY <1>2, <1>5, <1>6, <2>1 DEF BindingsOf
<1>9. \A j \in 1 .. m : BindingOf(ix, bs, r[j]) \in Bindings
  BY <1>7, EntryIs
<1>10. t \in Seq(Bindings) /\ Len(t) = m
  BY <1>6, <1>9
<1>11. Lists(r, t, ix, bs)
  <2>1. r \in [1 .. m -> 1 .. Len(ix)] /\ \A j, k \in 1 .. m : j < k => r[j] < r[k]
    BY <1>4, <1>5 DEF Picks
  <2>2. \A a \in LiveIn(ix) : \E j \in 1 .. m : r[j] = a
    <3>1. \A a \in LiveIn(ix) : a \in 1 .. Len(ix)
      BY <1>1 DEF LiveIn
    <3> QED BY <1>4, <1>5, <3>1 DEF Picks
  <2>3. \A j \in 1 .. m : t[j] = BindingOf(ix, bs, r[j])
    BY <1>6
  <2> QED BY <1>7, <1>10, <2>1, <2>2, <2>3 DEF Lists
<1> QED BY <1>8, <1>10, <1>11

\* There is one way to list them.
LEMMA Listing ==
  ASSUME NEW ix \in Seq(Entries), NEW bs, NEW t \in Seq(Bindings), NEW r, Lists(r, t, ix, bs)
  PROVE  BindingsOf(ix, bs) = t
<1>1. PICK m \in Nat : m = Len(t) /\ DOMAIN t = 1 .. m
  OBVIOUS
<1>2. /\ \A j \in 1 .. m : r[j] \in 1 .. Len(ix) /\ r[j] \in LiveIn(ix) /\ t[j] = BindingOf(ix, bs, r[j])
      /\ r \in [1 .. m -> 1 .. Len(ix)]
      /\ \A j, k \in 1 .. m : j < k => r[j] < r[k]
      /\ \A a \in LiveIn(ix) : \E j \in 1 .. m : r[j] = a
  BY <1>1 DEF Lists
<1>3. PICK u : u = [j \in 1 .. m |-> ix[r[j]]]
  OBVIOUS
<1>4. \A j \in 1 .. m : ix[r[j]] \in Entries
  BY <1>2
<1>5. u \in Seq(Entries) /\ Len(u) = m /\ DOMAIN u = 1 .. m /\ \A j \in 1 .. m : u[j] = ix[r[j]]
  BY <1>3, <1>4
<1>6. Picks(r, u, ix, LiveIn(ix), Len(ix))
  BY <1>2, <1>5 DEF Picks
<1>7. u = Only(ix, LiveIn(ix))
  BY <1>5, <1>6, PicksOnly
<1>8. \A j \in 1 .. m :
        t[j] = BindingIn(BlockIn(bs, u[j].offset))
  <2>1. \A j \in 1 .. m : t[j] = BindingOf(ix, bs, r[j]) /\ u[j] = ix[r[j]]
    BY <1>2, <1>5
  <2> QED BY <2>1 DEF BindingOf
<1>9. t = [j \in 1 .. m |-> t[j]]
  BY <1>1
<1> QED BY <1>5, <1>7, <1>8, <1>9 DEF BindingsOf

LEMMA StandsIs ==
  ASSUME NEW ix, NEW bs \in Seq(Blocks), NEW a, NEW i \in DOMAIN bs, StandsFor(ix, bs, a, i)
  PROVE  /\ BlockIn(bs, ix[a].offset) = bs[i]
         /\ BindingOf(ix, bs, a) = BindingIn(bs[i])
<1>1. \A j \in DOMAIN bs : Offset(bs, j) = Offset(bs, i) => j = i
  BY OffsetsGrow
<1>2. (CHOOSE j \in DOMAIN bs : Offset(bs, j) = Offset(bs, i)) = i
  BY <1>1
<1>3. BlockIn(bs, ix[a].offset) = bs[i]
  BY <1>2 DEF BlockIn, StandsFor
<1> QED BY <1>3 DEF BindingOf

\* The entries in use and the blocks they stand for are in one order.
LEMMA StandsInOrder ==
  ASSUME NEW ix, NEW bs, Consistent(ix, bs),
         NEW a \in LiveIn(ix), NEW c \in LiveIn(ix), NEW i \in DOMAIN bs, NEW j \in DOMAIN bs,
         StandsFor(ix, bs, a, i), StandsFor(ix, bs, c, j)
  PROVE  (a < c <=> i < j) /\ (a = c <=> i = j)
<1>1. ix \in Seq(Entries) /\ bs \in Seq(Blocks) /\ Ordered(ix)
  BY DEF Consistent
<1>2. a \in Nat /\ c \in Nat
  BY <1>1 DEF LiveIn
<1>3. ix[a].offset = Offset(bs, i) /\ ix[c].offset = Offset(bs, j)
  BY DEF StandsFor
<1>4. /\ Offset(bs, i) \in Nat /\ Offset(bs, j) \in Nat
      /\ i < j <=> Offset(bs, i) < Offset(bs, j)
      /\ Offset(bs, i) = Offset(bs, j) => i = j
  BY <1>1, OffsetsGrow
<1>5. (a < c => ix[a].offset < ix[c].offset) /\ (c < a => ix[c].offset < ix[a].offset)
  BY <1>1 DEF Ordered
<1>6. i = j => ~(a < c) /\ ~(c < a)
  BY <1>3, <1>4, <1>5
<1>7. a < c \/ a = c \/ c < a
  BY <1>2
<1> QED BY <1>2, <1>3, <1>4, <1>5, <1>6, <1>7

\* More positions weigh no less.
LEMMA WeightGrows ==
  ASSUME NEW s \in Seq(Blocks), NEW P, NEW Q, P \subseteq Q
  PROVE  Weight(s, P) <= Weight(s, Q)
<1>1. PICK R : R = Q \ P
  OBVIOUS
<1>2. P \cap R = {} /\ P \cup R = Q
  BY <1>1
<1>3. Weight(s, P) + Weight(s, R) = Weight(s, P \cup R)
  BY <1>2, Additive
<1>4. Weight(s, P) \in Nat /\ Weight(s, R) \in Nat
  BY WeightIs
<1>5. Weight(s, P \cup R) = Weight(s, Q)
  BY <1>2, Zenon
<1> QED BY <1>3, <1>4, <1>5

\* Blocks of the same lengths lie at the same offsets.
LEMMA SameLengths ==
  ASSUME NEW s \in Seq(Blocks), NEW t \in Seq(Blocks), Len(t) = Len(s),
         \A i \in 1 .. Len(s) : t[i].length = s[i].length
  PROVE  /\ \A i \in DOMAIN s : Offset(t, i) = Offset(s, i)
         /\ TotalLength(t) = TotalLength(s)
         /\ \A P : Weight(t, P) = Weight(s, P)
<1>1. PICK n \in Nat : n = Len(s) /\ DOMAIN s = 1 .. n /\ n \in 0 .. n
  OBVIOUS
<1>2. ASSUME NEW P PROVE \A i \in 0 .. n : Partial(t, P)[i] = Partial(s, P)[i]
  <2>1. \A i \in 1 .. Len(s) : t[i].length = s[i].length /\ (i \in P <=> i \in P)
    OBVIOUS
  <2>2. Len(s) <= Len(t)
    BY <1>1
  <2> QED BY <1>1, <2>1, <2>2, SamePartial
<1>3. Ends(t) = Partial(t, 1 .. n) /\ Ends(s) = Partial(s, 1 .. n)
  BY <1>1, EndsAre
<1>4. \A i \in 0 .. n : Ends(t)[i] = Ends(s)[i]
  BY <1>2, <1>3
<1>5. \A i \in 1 .. n : i - 1 \in 0 .. n
  BY <1>1
<1> QED BY <1>1, <1>2, <1>4, <1>5 DEF Offset, TotalLength, Weight

-----------------------------------------------------------------------------
(* Set *)

LEMMA BlockIs ==
  ASSUME NEW k \in Keys, NEW v \in Values, NEW h \in Nat
  PROVE  /\ Block(k, v, h) \in Blocks
         /\ RequiredLength(k, v) \in Nat
         /\ k # NoKey
<1>1. RequiredLength(k, v) \in Nat \ {0}
  BY SizeAssumption DEF RequiredLength
<1> QED BY <1>1, NoKeyAssumption DEF Block, Blocks

\* Zip loses what Find stops at nowhere.
LEMMA ZeroIsFragile == 0 \in Fragile
<1>1. 0 % 256 = 0
  OBVIOUS
<1> QED BY <1>1 DEF Fragile

LEMMA SetKeeps ==
  ASSUME NEW ix, NEW bs, Consistent(ix, bs), NEW k \in Keys, NEW v \in Values,
         NEW h \in Nat
  PROVE  LET jx == Append(ix, [hashcode |-> h, offset |-> TotalLength(bs)])
             cs == Append(bs, Block(k, v, h))
         IN  /\ Consistent(jx, cs)
             /\ BindingsOf(jx, cs) = IF h = 0 THEN BindingsOf(ix, bs)
                                     ELSE Append(BindingsOf(ix, bs),
                                                 [key |-> k, value |-> v, hashcode |-> h])
             /\ TotalLength(cs) = TotalLength(bs) + RequiredLength(k, v)
             /\ Weight(bs, GoneIn(ix, bs)) <= Weight(cs, GoneIn(jx, cs))
<1>1. /\ ix \in Seq(Entries) /\ bs \in Seq(Blocks)
      /\ Cleared(bs) /\ Indexed(ix, bs) /\ Ordered(ix) /\ Covered(ix, bs)
  BY DEF Consistent
<1>2. PICK b \in Blocks : b = Block(k, v, h)
  BY BlockIs
<1>3. /\ b.key = k /\ b.value = v /\ b.hashcode = h /\ b.length = RequiredLength(k, v)
      /\ b.cleared <=> h \in Fragile
  BY <1>2 DEF Block
<1>4. TotalLength(bs) \in Nat
  BY <1>1, WeightIs
<1>5. PICK e \in Entries : e = [hashcode |-> h, offset |-> TotalLength(bs)]
  BY <1>4 DEF Entries
<1>6. e.hashcode = h /\ e.offset = TotalLength(bs)
  BY <1>5
<1>7. PICK jx : jx = Append(ix, e)
  OBVIOUS
<1>8. PICK cs : cs = Append(bs, b)
  OBVIOUS
<1>9. PICK l \in Nat : l = Len(ix)
  BY <1>1
<1>10. PICK n \in Nat : n = Len(bs)
  BY <1>1
<1>11. /\ jx \in Seq(Entries) /\ Len(jx) = l + 1 /\ DOMAIN jx = 1 .. l + 1 /\ DOMAIN ix = 1 .. l
       /\ jx[l + 1] = e /\ \A a \in 1 .. l : jx[a] = ix[a]
  BY <1>1, <1>7, <1>9
<1>12. /\ cs \in Seq(Blocks) /\ Len(cs) = n + 1 /\ cs[n + 1] = b
       /\ \A i \in 1 .. n : cs[i] = bs[i] /\ Offset(cs, i) = Offset(bs, i)
       /\ Offset(cs, n + 1) = TotalLength(bs)
       /\ TotalLength(cs) = TotalLength(bs) + b.length
       /\ \A P : P \subseteq 1 .. n => Weight(cs, P) = Weight(bs, P)
  BY <1>1, <1>8, <1>10, AppendedOffsets
<1>13. DOMAIN bs = 1 .. n /\ DOMAIN cs = 1 .. n + 1
  BY <1>1, <1>10, <1>12
<1>14. /\ \A a \in 1 .. l + 1 : a = l + 1 \/ a \in 1 .. l
       /\ \A i \in 1 .. n + 1 : i = n + 1 \/ i \in 1 .. n
       /\ \A a \in 1 .. l : a \in 1 .. l + 1
       /\ \A i \in 1 .. n : i \in 1 .. n + 1
       /\ n + 1 \in 1 .. n + 1 /\ l + 1 \in 1 .. l + 1
  OBVIOUS
<1>15. /\ \A a \in LiveIn(jx) : a = l + 1 \/ a \in LiveIn(ix)
       /\ \A a \in LiveIn(ix) : a \in LiveIn(jx) /\ a \in 1 .. l /\ jx[a] = ix[a]
       /\ l + 1 \in LiveIn(jx) <=> h # 0
  BY <1>6, <1>11, <1>14 DEF LiveIn
<1>16. /\ \A a \in LiveIn(ix), i \in 1 .. n : StandsFor(jx, cs, a, i) <=> StandsFor(ix, bs, a, i)
       /\ StandsFor(jx, cs, l + 1, n + 1)
  BY <1>6, <1>11, <1>12, <1>15 DEF StandsFor
<1>17. Cleared(cs)
  <2>1. ASSUME NEW i \in 1 .. n + 1, cs[i].hashcode \in Fragile \/ cs[i].key = NoKey
        PROVE  cs[i].cleared
    <3>1. CASE i = n + 1
      BY <1>3, <1>12, <2>1, <3>1, BlockIs
    <3>2. CASE i \in 1 .. n
      BY <1>1, <1>12, <1>13, <2>1, <3>2 DEF Cleared
    <3> QED BY <1>14, <3>1, <3>2
  <2> QED BY <1>13, <2>1 DEF Cleared
<1>18. Indexed(jx, cs)
  <2>1. ASSUME NEW a \in LiveIn(jx)
        PROVE  \E i \in DOMAIN cs :
                 /\ StandsFor(jx, cs, a, i)
                 /\ cs[i].key \in Keys /\ cs[i].value \in Values
                 /\ jx[a].hashcode = cs[i].hashcode
                 /\ cs[i].cleared => cs[i].hashcode \in Fragile
    <3>1. CASE a = l + 1
      BY <1>3, <1>6, <1>11, <1>12, <1>13, <1>14, <1>16, <3>1
    <3>2. CASE a \in LiveIn(ix)
      <4>1. PICK i \in 1 .. n :
              /\ StandsFor(ix, bs, a, i)
              /\ bs[i].key \in Keys /\ bs[i].value \in Values
              /\ ix[a].hashcode = bs[i].hashcode
              /\ bs[i].cleared => bs[i].hashcode \in Fragile
        BY <1>1, <1>13, <3>2 DEF Indexed
      <4> QED BY <1>12, <1>13, <1>14, <1>15, <1>16, <3>2, <4>1
    <3> QED BY <1>15, <3>1, <3>2
  <2> QED BY <2>1 DEF Indexed
<1>19. Ordered(jx)
  <2>1. ASSUME NEW a \in LiveIn(jx), NEW c \in LiveIn(jx), a < c
        PROVE  jx[a].offset < jx[c].offset
    <3>1. a \in 1 .. l + 1 /\ c \in 1 .. l + 1
      BY <1>11 DEF LiveIn
    <3>2. a # l + 1
      BY <2>1, <3>1
    <3>3. a \in LiveIn(ix)
      BY <1>15, <3>2
    <3>4. CASE c = l + 1
      <4>1. PICK i \in 1 .. n : StandsFor(ix, bs, a, i)
        BY <1>1, <1>13, <3>3 DEF Indexed
      <4>2. ix[a].offset < TotalLength(bs)
        BY <1>1, <1>13, <4>1, OffsetsGrow DEF StandsFor
      <4> QED BY <1>6, <1>11, <1>15, <3>3, <3>4, <4>2
    <3>5. CASE c \in LiveIn(ix)
      BY <1>1, <1>15, <2>1, <3>3, <3>5 DEF Ordered
    <3> QED BY <1>15, <3>4, <3>5
  <2> QED BY <2>1 DEF Ordered
<1>20. Covered(jx, cs)
  <2>1. ASSUME NEW i \in 1 .. n + 1, ~cs[i].cleared
        PROVE  \E a \in LiveIn(jx) : StandsFor(jx, cs, a, i)
    <3>1. CASE i = n + 1
      <4>1. l + 1 \in LiveIn(jx)
        BY <1>3, <1>12, <1>15, <2>1, <3>1, ZeroIsFragile
      <4> QED BY <1>16, <3>1, <4>1
    <3>2. CASE i \in 1 .. n
      <4>1. PICK a \in LiveIn(ix) : StandsFor(ix, bs, a, i)
        BY <1>1, <1>12, <1>13, <2>1, <3>2 DEF Covered
      <4> QED BY <1>15, <1>16, <3>2, <4>1
    <3> QED BY <1>14, <3>1, <3>2
  <2> QED BY <1>13, <2>1 DEF Covered
<1>21. Consistent(jx, cs)
  BY <1>11, <1>12, <1>17, <1>18, <1>19, <1>20 DEF Consistent
<1>22. Weight(bs, GoneIn(ix, bs)) <= Weight(cs, GoneIn(jx, cs))
  <2>1. GoneIn(ix, bs) \subseteq 1 .. n
    BY <1>13 DEF GoneIn
  <2>2. ASSUME NEW i \in GoneIn(ix, bs) PROVE i \in GoneIn(jx, cs)
    <3>1. i \in 1 .. n /\ bs[i].cleared /\ \A a \in LiveIn(ix) : ~StandsFor(ix, bs, a, i)
      BY <1>13, <2>2 DEF GoneIn
    <3>2. ~StandsFor(jx, cs, l + 1, i)
      <4>1. Offset(bs, i) < TotalLength(bs) /\ Offset(bs, i) \in Nat
        BY <1>1, <1>13, <3>1, OffsetsGrow
      <4>2. Offset(cs, i) # TotalLength(bs)
        BY <1>4, <1>12, <3>1, <4>1
      <4> QED BY <1>6, <1>11, <4>2 DEF StandsFor
    <3>3. \A a \in LiveIn(jx) : ~StandsFor(jx, cs, a, i)
      BY <1>15, <1>16, <3>1, <3>2
    <3> QED BY <1>12, <1>13, <1>14, <3>1, <3>3 DEF GoneIn
  <2>3. Weight(cs, GoneIn(ix, bs)) <= Weight(cs, GoneIn(jx, cs))
    BY <1>12, <2>2, WeightGrows
  <2> QED BY <1>12, <2>1, <2>3
<1>23. PICK t \in Seq(Bindings) : t = BindingsOf(ix, bs) /\ \E r : Lists(r, t, ix, bs)
  BY BindingsAre
<1>24. PICK r : Lists(r, t, ix, bs)
  BY <1>23
<1>25. PICK m \in Nat : m = Len(t)
  OBVIOUS
<1>26. /\ r \in [1 .. m -> 1 .. l]
       /\ \A j, d \in 1 .. m : j < d => r[j] < r[d]
       /\ \A j \in 1 .. m : r[j] \in LiveIn(ix) /\ t[j] = BindingOf(ix, bs, r[j]) /\ r[j] \in 1 .. l
       /\ \A a \in LiveIn(ix) : \E j \in 1 .. m : r[j] = a
  BY <1>9, <1>24, <1>25 DEF Lists
<1>27. \A a \in LiveIn(ix) : BindingOf(jx, cs, a) = BindingOf(ix, bs, a)
  <2>1. TAKE a \in LiveIn(ix)
  <2>2. PICK i \in 1 .. n : StandsFor(ix, bs, a, i)
    BY <1>1, <1>13, <2>1 DEF Indexed
  <2>3. BindingOf(ix, bs, a) = BindingIn(bs[i])
    BY <1>1, <1>13, <2>2, StandsIs
  <2>4. BindingOf(jx, cs, a) = BindingIn(cs[i])
    <3>1. cs \in Seq(Blocks) /\ i \in DOMAIN cs /\ StandsFor(jx, cs, a, i)
      BY <1>12, <1>13, <1>14, <1>16, <2>2
    <3> QED BY <3>1, StandsIs
  <2> QED BY <1>12, <2>3, <2>4
<1>28. CASE h = 0
  <2>1. LiveIn(jx) = LiveIn(ix)
    BY <1>15, <1>28
  <2>2. r \in [1 .. m -> 1 .. l + 1]
    BY <1>14, <1>26
  <2>3. Lists(r, t, jx, cs)
    BY <1>11, <1>25, <1>26, <1>27, <2>1, <2>2 DEF Lists
  <2>4. BindingsOf(jx, cs) = t
    BY <1>11, <2>3, Listing
  <2> QED BY <1>2, <1>3, <1>5, <1>7, <1>8, <1>12, <1>21, <1>22, <1>23, <1>28, <2>4
<1>29. CASE h # 0
  <2>1. PICK x \in Bindings : x = [key |-> k, value |-> v, hashcode |-> h]
    BY DEF Bindings
  <2>2. PICK u : u = Append(t, x)
    OBVIOUS
  <2>3. u \in Seq(Bindings) /\ Len(u) = m + 1 /\ u[m + 1] = x /\ \A j \in 1 .. m : u[j] = t[j]
    BY <1>25, <2>2
  <2>4. PICK q : q = [j \in 1 .. m + 1 |-> IF j = m + 1 THEN l + 1 ELSE r[j]]
    OBVIOUS
  <2>5. \A j \in 1 .. m + 1 : j = m + 1 \/ j \in 1 .. m
    OBVIOUS
  <2>6. q[m + 1] = l + 1 /\ m + 1 \in 1 .. m + 1 /\ \A j \in 1 .. m : q[j] = r[j] /\ j \in 1 .. m + 1
    BY <2>4
  <2>7. q \in [1 .. m + 1 -> 1 .. l + 1]
    <3>1. \A j \in 1 .. m + 1 : q[j] \in 1 .. l + 1
      BY <1>14, <1>26, <2>5, <2>6
    <3> QED BY <2>4, <3>1
  <2>8. \A j, d \in 1 .. m + 1 : j < d => q[j] < q[d]
    <3>1. TAKE j, d \in 1 .. m + 1
    <3>2. HAVE j < d
    <3>3. j \in 1 .. m
      BY <3>2
    <3>4. CASE d = m + 1
      BY <1>26, <2>6, <3>3, <3>4
    <3>5. CASE d \in 1 .. m
      BY <1>26, <2>6, <3>2, <3>3, <3>5
    <3> QED BY <2>5, <3>4, <3>5
  <2>9. BindingOf(jx, cs, l + 1) = x
    <3>1. cs \in Seq(Blocks) /\ n + 1 \in DOMAIN cs /\ StandsFor(jx, cs, l + 1, n + 1)
      BY <1>12, <1>13, <1>14, <1>16
    <3>2. BindingOf(jx, cs, l + 1) = BindingIn(cs[n + 1])
      BY <3>1, StandsIs
    <3> QED BY <1>3, <1>12, <2>1, <3>2 DEF BindingIn
  <2>10. \A j \in 1 .. m + 1 : q[j] \in LiveIn(jx) /\ u[j] = BindingOf(jx, cs, q[j])
    <3>1. TAKE j \in 1 .. m + 1
    <3>2. CASE j = m + 1
      BY <1>15, <1>29, <2>3, <2>6, <2>9, <3>2
    <3>3. CASE j \in 1 .. m
      BY <1>15, <1>26, <1>27, <2>3, <2>6, <3>3
    <3> QED BY <2>5, <3>2, <3>3
  <2>11. \A a \in LiveIn(jx) : \E j \in 1 .. m + 1 : q[j] = a
    BY <1>15, <1>26, <2>6
  <2>12. Lists(q, u, jx, cs)
    BY <1>11, <2>3, <2>7, <2>8, <2>10, <2>11 DEF Lists
  <2>13. BindingsOf(jx, cs) = u
    BY <1>11, <2>3, <2>12, Listing
  <2> QED BY <1>2, <1>3, <1>5, <1>7, <1>8, <1>12, <1>21, <1>22, <1>23, <1>29, <2>1, <2>2, <2>13
<1> QED BY <1>28, <1>29

-----------------------------------------------------------------------------
(* Delete *)

LEMMA FunctionIsSeq ==
  ASSUME NEW T, NEW n \in Nat, NEW f \in [1 .. n -> T]
  PROVE  f \in Seq(T) /\ Len(f) = n /\ DOMAIN f = 1 .. n
OBVIOUS

LEMMA RemoveAtIs ==
  ASSUME NEW T, NEW s \in Seq(T), NEW q \in 1 .. Len(s)
  PROVE  /\ RemoveAt(s, q) \in Seq(T)
         /\ Len(RemoveAt(s, q)) = Len(s) - 1
         /\ \A j \in 1 .. Len(s) - 1 : RemoveAt(s, q)[j] = IF j < q THEN s[j] ELSE s[j + 1]
<1>1. PICK n \in Nat : n = Len(s) /\ q \in 1 .. n /\ \A i \in 1 .. n : s[i] \in T
  OBVIOUS
<1>2. PICK x : x = SubSeq(s, 1, q - 1)
  OBVIOUS
<1>3. PICK y : y = SubSeq(s, q + 1, n)
  OBVIOUS
<1>4. x \in Seq(T) /\ Len(x) = q - 1 /\ \A j \in 1 .. q - 1 : x[j] = s[j]
  <2>1. \A i \in 1 .. q - 1 : s[i] \in T
    BY <1>1
  <2>2. /\ SubSeq(s, 1, q - 1) \in Seq(T)
        /\ Len(SubSeq(s, 1, q - 1)) = IF 1 <= q - 1 THEN q - 1 - 1 + 1 ELSE 0
        /\ \A j \in 1 .. q - 1 - 1 + 1 : SubSeq(s, 1, q - 1)[j] = s[1 + j - 1]
    BY <1>1, <2>1, SubSeqProperties
  <2>3. (IF 1 <= q - 1 THEN q - 1 - 1 + 1 ELSE 0) = q - 1 /\ q - 1 - 1 + 1 = q - 1
        /\ \A j \in 1 .. q - 1 : 1 + j - 1 = j
    BY <1>1
  <2> QED BY <1>2, <2>2, <2>3
<1>5. y \in Seq(T) /\ Len(y) = n - q /\ \A j \in 1 .. n - q : y[j] = s[q + j]
  <2>1. \A i \in q + 1 .. n : s[i] \in T
    BY <1>1
  <2>2. /\ SubSeq(s, q + 1, n) \in Seq(T)
        /\ Len(SubSeq(s, q + 1, n)) = IF q + 1 <= n THEN n - (q + 1) + 1 ELSE 0
        /\ \A j \in 1 .. n - (q + 1) + 1 : SubSeq(s, q + 1, n)[j] = s[q + 1 + j - 1]
    BY <1>1, <2>1, SubSeqProperties
  <2>3. (IF q + 1 <= n THEN n - (q + 1) + 1 ELSE 0) = n - q /\ n - (q + 1) + 1 = n - q
        /\ \A j \in 1 .. n - q : q + 1 + j - 1 = q + j
    BY <1>1
  <2> QED BY <1>3, <2>2, <2>3
<1>6. /\ x \o y \in Seq(T) /\ Len(x \o y) = q - 1 + (n - q)
      /\ \A j \in 1 .. q - 1 + (n - q) : (x \o y)[j] = IF j <= q - 1 THEN x[j] ELSE y[j - (q - 1)]
  <2>1. x \in Seq(T) /\ y \in Seq(T) /\ Len(x) = q - 1 /\ Len(y) = n - q
    BY <1>4, <1>5
  <2>2. /\ x \o y \in Seq(T) /\ Len(x \o y) = Len(x) + Len(y)
        /\ \A j \in 1 .. Len(x) + Len(y) : (x \o y)[j] = IF j <= Len(x) THEN x[j] ELSE y[j - Len(x)]
    BY <2>1, ConcatProperties
  <2> QED BY <2>1, <2>2
<1>7. PICK z : z = x \o y
  OBVIOUS
<1>8. RemoveAt(s, q) = z
  BY <1>1, <1>2, <1>3, <1>7 DEF RemoveAt
<1>9. q - 1 + (n - q) = n - 1
  BY <1>1
<1>10. \A j \in 1 .. n - 1 : z[j] = IF j < q THEN s[j] ELSE s[j + 1]
  <2>1. TAKE j \in 1 .. n - 1
  <2>2. z[j] = IF j <= q - 1 THEN x[j] ELSE y[j - (q - 1)]
    BY <1>6, <1>7, <1>9
  <2>3. CASE j < q
    <3>1. j <= q - 1 /\ j \in 1 .. q - 1
      BY <1>1, <2>3
    <3> QED BY <1>4, <2>2, <2>3, <3>1
  <2>4. CASE ~(j < q)
    <3>1. ~(j <= q - 1) /\ j - (q - 1) \in 1 .. n - q /\ q + (j - (q - 1)) = j + 1
      BY <1>1, <2>4
    <3> QED BY <1>5, <2>2, <2>4, <3>1
  <2> QED BY <2>3, <2>4
<1> QED BY <1>1, <1>6, <1>7, <1>8, <1>9, <1>10

\* The index without entry a, and the buffer in which the block at offset is cleared.
WithoutEntry(ix, a) == [ix EXCEPT ![a].hashcode = 0]
WithoutBlock(bs, offset) ==
  [i \in DOMAIN bs |-> IF Offset(bs, i) = offset THEN [bs[i] EXCEPT !.cleared = TRUE] ELSE bs[i]]

LEMMA DeleteKeeps ==
  ASSUME NEW ix, NEW bs, Consistent(ix, bs), NEW a \in LiveIn(ix),
         NEW t \in Seq(Bindings), NEW r, Lists(r, t, ix, bs), NEW q \in 1 .. Len(t), r[q] = a
  PROVE  LET jx == WithoutEntry(ix, a)
             cs == WithoutBlock(bs, ix[a].offset)
         IN  /\ Consistent(jx, cs)
             /\ BindingsOf(jx, cs) = RemoveAt(t, q)
             /\ Len(jx) = Len(ix)
             /\ TotalLength(cs) = TotalLength(bs)
             /\ Weight(bs, GoneIn(ix, bs)) + BlockIn(bs, ix[a].offset).length
                  <= Weight(cs, GoneIn(jx, cs))
             /\ DOMAIN cs = DOMAIN bs /\ \A i \in DOMAIN bs : cs[i].key = bs[i].key
<1>1. /\ ix \in Seq(Entries) /\ bs \in Seq(Blocks)
      /\ Cleared(bs) /\ Indexed(ix, bs) /\ Ordered(ix) /\ Covered(ix, bs)
  BY DEF Consistent
<1>1a. PICK jx : jx = WithoutEntry(ix, a)
  OBVIOUS
<1>1b. PICK cs : cs = WithoutBlock(bs, ix[a].offset)
  OBVIOUS
<1>2. PICK l \in Nat : l = Len(ix) /\ DOMAIN ix = 1 .. l
  BY <1>1
<1>3. PICK n \in Nat : n = Len(bs) /\ DOMAIN bs = 1 .. n
  BY <1>1
<1>4. a \in 1 .. l /\ \A c \in LiveIn(ix) : c \in 1 .. l
  BY <1>2 DEF LiveIn
<1>5. PICK o \in 1 .. n : StandsFor(ix, bs, a, o)
  BY <1>1, <1>3 DEF Indexed
<1>6. /\ jx \in Seq(Entries) /\ Len(jx) = l /\ DOMAIN jx = 1 .. l
      /\ jx[a].hashcode = 0
      /\ \A c \in 1 .. l : jx[c].offset = ix[c].offset /\ (c # a => jx[c] = ix[c])
  <2>1. \A c \in 1 .. l : ix[c] \in Entries
    BY <1>1, <1>2
  <2>2. \A c \in 1 .. l : jx[c] = IF c = a THEN [ix[a] EXCEPT !.hashcode = 0] ELSE ix[c]
    BY <1>2, <1>1a DEF WithoutEntry
  <2>3. [ix[a] EXCEPT !.hashcode = 0] \in Entries
    BY <1>4, <2>1 DEF Entries
  <2>4. /\ [ix[a] EXCEPT !.hashcode = 0].hashcode = 0
        /\ [ix[a] EXCEPT !.hashcode = 0].offset = ix[a].offset
    BY <1>4, <2>1 DEF Entries
  <2>5. DOMAIN jx = 1 .. l /\ jx = [c \in 1 .. l |-> jx[c]]
    BY <1>2, <1>1a DEF WithoutEntry
  <2>6. \A c \in 1 .. l : jx[c] \in Entries
    BY <2>1, <2>2, <2>3
  <2>7. jx \in Seq(Entries) /\ Len(jx) = l
    <3>1. jx \in [1 .. l -> Entries]
      BY <2>5, <2>6
    <3> QED BY <3>1, FunctionIsSeq
  <2> QED BY <1>4, <2>2, <2>4, <2>5, <2>7
<1>7. \A i \in 1 .. n : Offset(bs, i) = ix[a].offset <=> i = o
  BY <1>1, <1>3, <1>5, OffsetsGrow DEF StandsFor
<1>8. /\ cs \in Seq(Blocks) /\ Len(cs) = n /\ DOMAIN cs = 1 .. n
      /\ cs[o].cleared
      /\ \A i \in 1 .. n : i # o => cs[i] = bs[i]
      /\ \A i \in 1 .. n : cs[i].key = bs[i].key /\ cs[i].length = bs[i].length
  <2>1. \A i \in 1 .. n : bs[i] \in Blocks
    BY <1>1, <1>3
  <2>2. \A i \in 1 .. n : cs[i] = IF i = o THEN [bs[i] EXCEPT !.cleared = TRUE] ELSE bs[i]
    BY <1>3, <1>7, <1>1b DEF WithoutBlock
  <2>3. /\ [bs[o] EXCEPT !.cleared = TRUE] \in Blocks
        /\ [bs[o] EXCEPT !.cleared = TRUE].cleared
        /\ [bs[o] EXCEPT !.cleared = TRUE].key = bs[o].key
        /\ [bs[o] EXCEPT !.cleared = TRUE].length = bs[o].length
    BY <2>1 DEF Blocks
  <2>4. DOMAIN cs = 1 .. n /\ cs = [i \in 1 .. n |-> cs[i]]
    BY <1>3, <1>1b DEF WithoutBlock
  <2>5. \A i \in 1 .. n : cs[i] \in Blocks
    BY <2>1, <2>2, <2>3
  <2>6. cs \in Seq(Blocks) /\ Len(cs) = n
    <3>1. cs \in [1 .. n -> Blocks]
      BY <2>4, <2>5
    <3> QED BY <3>1, FunctionIsSeq
  <2> QED BY <2>2, <2>3, <2>4, <2>6
<1>9. /\ \A i \in 1 .. n : Offset(cs, i) = Offset(bs, i)
      /\ TotalLength(cs) = TotalLength(bs)
      /\ \A P : Weight(cs, P) = Weight(bs, P)
  <2>1. /\ bs \in Seq(Blocks) /\ cs \in Seq(Blocks) /\ Len(cs) = Len(bs)
        /\ \A i \in 1 .. Len(bs) : cs[i].length = bs[i].length
    BY <1>1, <1>3, <1>8
  <2>2. /\ \A i \in DOMAIN bs : Offset(cs, i) = Offset(bs, i)
        /\ TotalLength(cs) = TotalLength(bs)
        /\ \A P : Weight(cs, P) = Weight(bs, P)
    BY <2>1, SameLengths
  <2> QED BY <1>3, <2>2
<1>10. \A c \in LiveIn(jx) : c \in LiveIn(ix) /\ c # a /\ jx[c] = ix[c]
  BY <1>2, <1>6 DEF LiveIn
<1>11. \A c \in LiveIn(ix) : c # a => c \in LiveIn(jx)
  BY <1>2, <1>6 DEF LiveIn
<1>12. \A c \in LiveIn(ix), i \in 1 .. n : StandsFor(jx, cs, c, i) <=> StandsFor(ix, bs, c, i)
  BY <1>4, <1>6, <1>9 DEF StandsFor
<1>13. \A c \in LiveIn(ix), i \in 1 .. n : StandsFor(ix, bs, c, i) => (c = a <=> i = o)
  BY <1>3, <1>5, StandsInOrder
<1>14. Cleared(cs)
  <2>1. ASSUME NEW i \in 1 .. n, cs[i].hashcode \in Fragile \/ cs[i].key = NoKey
        PROVE  cs[i].cleared
    BY <1>1, <1>3, <1>8, <2>1 DEF Cleared
  <2> QED BY <1>8, <2>1 DEF Cleared
<1>15. Indexed(jx, cs)
  <2>1. ASSUME NEW c \in LiveIn(jx)
        PROVE  \E i \in DOMAIN cs :
                 /\ StandsFor(jx, cs, c, i)
                 /\ cs[i].key \in Keys /\ cs[i].value \in Values
                 /\ jx[c].hashcode = cs[i].hashcode
                 /\ cs[i].cleared => cs[i].hashcode \in Fragile
    <3>1. c \in LiveIn(ix) /\ c # a /\ jx[c] = ix[c]
      BY <1>10
    <3>2. PICK i \in 1 .. n :
            /\ StandsFor(ix, bs, c, i)
            /\ bs[i].key \in Keys /\ bs[i].value \in Values
            /\ ix[c].hashcode = bs[i].hashcode
            /\ bs[i].cleared => bs[i].hashcode \in Fragile
      BY <1>1, <1>3, <3>1 DEF Indexed
    <3>3. cs[i] = bs[i]
      BY <1>8, <1>13, <3>1, <3>2
    <3> QED BY <1>8, <1>12, <3>1, <3>2, <3>3
  <2> QED BY <2>1 DEF Indexed
<1>16. Ordered(jx)
  BY <1>1, <1>10 DEF Ordered
<1>17. Covered(jx, cs)
  <2>1. ASSUME NEW i \in 1 .. n, ~cs[i].cleared
        PROVE  \E c \in LiveIn(jx) : StandsFor(jx, cs, c, i)
    <3>1. i # o /\ ~bs[i].cleared
      BY <1>8, <2>1
    <3>2. PICK c \in LiveIn(ix) : StandsFor(ix, bs, c, i)
      BY <1>1, <1>3, <3>1 DEF Covered
    <3> QED BY <1>11, <1>12, <1>13, <3>1, <3>2
  <2> QED BY <1>8, <2>1 DEF Covered
<1>18. Consistent(jx, cs)
  BY <1>6, <1>8, <1>14, <1>15, <1>16, <1>17 DEF Consistent
<1>19. Weight(bs, GoneIn(ix, bs)) + BlockIn(bs, ix[a].offset).length <= Weight(cs, GoneIn(jx, cs))
  <2>1. BlockIn(bs, ix[a].offset) = bs[o]
    BY <1>1, <1>3, <1>5, StandsIs
  <2>2. Weight(bs, {o}) = bs[o].length
    BY <1>1, <1>3, Singleton
  <2>3. GoneIn(ix, bs) \cap {o} = {}
    BY <1>5 DEF GoneIn
  <2>4. Weight(bs, GoneIn(ix, bs)) + Weight(bs, {o}) = Weight(bs, GoneIn(ix, bs) \cup {o})
    BY <1>1, <2>3, Additive
  <2>5. ASSUME NEW i \in GoneIn(ix, bs) \cup {o} PROVE i \in GoneIn(jx, cs)
    <3>1. i \in 1 .. n
      BY <1>3, <2>5 DEF GoneIn
    <3>2. cs[i].cleared
      BY <1>8, <2>5, <3>1 DEF GoneIn
    <3>3. ASSUME NEW c \in LiveIn(jx), StandsFor(jx, cs, c, i) PROVE FALSE
      <4>1. c \in LiveIn(ix) /\ c # a
        BY <1>10
      <4>2. StandsFor(ix, bs, c, i)
        BY <1>12, <3>1, <3>3, <4>1
      <4>3. i # o
        BY <1>13, <3>1, <4>1, <4>2
      <4>4. i \in GoneIn(ix, bs)
        BY <2>5, <4>3
      <4> QED BY <4>1, <4>2, <4>4 DEF GoneIn
    <3> QED BY <1>8, <3>1, <3>2, <3>3 DEF GoneIn
  <2>6. Weight(bs, GoneIn(ix, bs) \cup {o}) <= Weight(bs, GoneIn(jx, cs))
    BY <1>1, <2>5, WeightGrows
  <2> QED BY <1>9, <2>1, <2>2, <2>4, <2>6
<1>20. PICK m \in Nat : m = Len(t) /\ q \in 1 .. m
  OBVIOUS
<1>21. /\ \A j \in 1 .. m : r[j] \in 1 .. l /\ r[j] \in LiveIn(ix) /\ t[j] = BindingOf(ix, bs, r[j])
       /\ \A j, h \in 1 .. m : j < h => r[j] < r[h]
       /\ \A c \in LiveIn(ix) : \E j \in 1 .. m : r[j] = c
  BY <1>2, <1>20 DEF Lists
<1>22. \A j \in 1 .. m : r[j] = a => j = q
  <2>1. TAKE j \in 1 .. m
  <2>2. HAVE r[j] = a
  <2>3. ~(j < q) /\ ~(q < j)
    BY <1>4, <1>20, <1>21, <2>2
  <2> QED BY <1>20, <2>3
<1>23. \A c \in LiveIn(jx) : BindingOf(jx, cs, c) = BindingOf(ix, bs, c)
  <2>1. TAKE c \in LiveIn(jx)
  <2>2. c \in LiveIn(ix) /\ c # a
    BY <1>10
  <2>3. PICK i \in 1 .. n : StandsFor(ix, bs, c, i)
    BY <1>1, <1>3, <2>2 DEF Indexed
  <2>4. BindingOf(ix, bs, c) = BindingIn(bs[i])
    BY <1>1, <1>3, <2>3, StandsIs
  <2>5. StandsFor(jx, cs, c, i)
    BY <1>12, <2>2, <2>3
  <2>6. BindingOf(jx, cs, c) = BindingIn(cs[i])
    <3>1. cs \in Seq(Blocks) /\ i \in DOMAIN cs
      BY <1>8
    <3> QED BY <2>5, <3>1, StandsIs
  <2>7. cs[i] = bs[i]
    BY <1>8, <1>13, <2>2, <2>3
  <2> QED BY <2>4, <2>6, <2>7
<1>24. PICK u : u = RemoveAt(t, q)
  OBVIOUS
<1>25. /\ u \in Seq(Bindings) /\ Len(u) = m - 1
       /\ \A j \in 1 .. m - 1 : u[j] = IF j < q THEN t[j] ELSE t[j + 1]
  BY <1>20, <1>24, RemoveAtIs
<1>26. PICK p : p = [j \in 1 .. m - 1 |-> IF j < q THEN r[j] ELSE r[j + 1]]
  OBVIOUS
<1>27. \A j \in 1 .. m - 1 :
         \E h \in 1 .. m : h = (IF j < q THEN j ELSE j + 1) /\ h # q /\ p[j] = r[h] /\ u[j] = t[h]
  BY <1>20, <1>25, <1>26
<1>28. \A j \in 1 .. m - 1 : p[j] \in 1 .. l /\ p[j] \in LiveIn(jx) /\ u[j] = BindingOf(jx, cs, p[j])
  <2>1. TAKE j \in 1 .. m - 1
  <2>2. PICK h \in 1 .. m : h # q /\ p[j] = r[h] /\ u[j] = t[h]
    BY <1>27
  <2>3. r[h] \in LiveIn(jx)
    BY <1>11, <1>21, <1>22, <2>2
  <2> QED BY <1>21, <1>23, <2>2, <2>3
<1>29. \A j, h \in 1 .. m - 1 : j < h => p[j] < p[h]
  <2>1. TAKE j, h \in 1 .. m - 1
  <2>2. HAVE j < h
  <2>3. PICK x \in 1 .. m : x = (IF j < q THEN j ELSE j + 1) /\ p[j] = r[x]
    BY <1>27
  <2>4. PICK y \in 1 .. m : y = (IF h < q THEN h ELSE h + 1) /\ p[h] = r[y]
    BY <1>27
  <2>5. x < y
    BY <1>20, <2>2, <2>3, <2>4
  <2> QED BY <1>21, <2>3, <2>4, <2>5
<1>30. \A c \in LiveIn(jx) : \E j \in 1 .. m - 1 : p[j] = c
  <2>1. TAKE c \in LiveIn(jx)
  <2>2. c \in LiveIn(ix) /\ c # a
    BY <1>10
  <2>3. PICK h \in 1 .. m : r[h] = c
    BY <1>21, <2>2
  <2>4. h # q
    BY <2>2, <2>3
  <2>5. CASE h < q
    <3>1. h \in 1 .. m - 1 /\ p[h] = r[h]
      BY <1>20, <1>26, <2>5
    <3> QED BY <2>3, <3>1
  <2>6. CASE q < h
    <3>1. h - 1 \in 1 .. m - 1 /\ ~(h - 1 < q) /\ h - 1 + 1 = h
      BY <1>20, <2>6
    <3>2. p[h - 1] = r[h]
      BY <1>26, <3>1
    <3> QED BY <2>3, <3>1, <3>2
  <2> QED BY <1>20, <2>4, <2>5, <2>6
<1>31. Lists(p, u, jx, cs)
  <2>1. p \in [1 .. m - 1 -> 1 .. l]
    BY <1>26, <1>28
  <2> QED BY <1>6, <1>25, <1>28, <1>29, <1>30, <2>1 DEF Lists
<1>32. BindingsOf(jx, cs) = u
  BY <1>6, <1>25, <1>31, Listing
<1> QED BY <1>2, <1>3, <1>6, <1>8, <1>9, <1>18, <1>19, <1>24, <1>32, <1>1a, <1>1b

-----------------------------------------------------------------------------
(* Zip *)

LEMMA Climbs ==
  ASSUME NEW m \in Nat, NEW l \in Nat, NEW g, \A j \in 1 .. m : g[j] \in 1 .. l,
         \A j, k \in 1 .. m : j < k => g[j] < g[k]
  PROVE  m <= l
<1> DEFINE S == {j \in 0 .. m : j = 0 \/ j <= g[j]}
<1>1. 0 \in S
  OBVIOUS
<1>2. \A j \in 1 .. m : j - 1 \in S => j \in S
  <2>1. TAKE j \in 1 .. m
  <2>2. HAVE j - 1 \in S
  <2>3. g[j] \in 1 .. l /\ j \in 0 .. m
    OBVIOUS
  <2>4. CASE j = 1
    BY <2>3, <2>4
  <2>5. CASE j # 1
    <3>1. j - 1 \in 1 .. m /\ j - 1 < j /\ j - 1 <= g[j - 1]
      BY <2>2, <2>5
    <3>2. g[j - 1] < g[j] /\ g[j - 1] \in 1 .. l
      BY <3>1
    <3> QED BY <2>3, <3>1, <3>2
  <2> QED BY <2>4, <2>5
<1> HIDE DEF S
<1>3. \A j \in 0 .. m : j \in S
  BY <1>1, <1>2, Reach
<1>4. m \in 0 .. m
  OBVIOUS
<1>5. m = 0 \/ m <= g[m]
  BY <1>3, <1>4 DEF S
<1>6. CASE m = 0
  BY <1>6
<1>7. CASE m # 0
  <2>1. m \in 1 .. m
    BY <1>7
  <2>2. g[m] \in 1 .. l
    BY <2>1
  <2> QED BY <1>5, <1>7, <2>2
<1> QED BY <1>6, <1>7

\* What Zip keeps, and the index it makes of that.
Uncleared(bs) == {i \in DOMAIN bs : ~bs[i].cleared}

KeptOf(bs) == Only(bs, Uncleared(bs))

IndexOf(ix, kept) ==
  [i \in DOMAIN ix |->
     IF i > Len(kept) THEN NoEntry
     ELSE [hashcode |-> kept[i].hashcode, offset |-> Offset(kept, i)]]

\* e says which block each kept one was, and g which entry stands for it.
Traces(e, g, kept, ix, bs) ==
  /\ \A j \in 1 .. Len(kept) :
       /\ e[j] \in DOMAIN bs /\ g[j] \in LiveIn(ix) /\ StandsFor(ix, bs, g[j], e[j])
       /\ kept[j] = bs[e[j]] /\ ~bs[e[j]].cleared
       /\ kept[j].key \in Keys /\ kept[j].value \in Values /\ kept[j].hashcode \in Nat \ Fragile
  /\ \A j, k \in 1 .. Len(kept) : j < k => e[j] < e[k] /\ g[j] < g[k]
  /\ \A i \in DOMAIN bs : ~bs[i].cleared => \E j \in 1 .. Len(kept) : e[j] = i

LEMMA KeptIs ==
  ASSUME NEW ix, NEW bs, Consistent(ix, bs)
  PROVE  /\ KeptOf(bs) \in Seq(Blocks) /\ Len(KeptOf(bs)) <= Len(ix)
         /\ \E e, g : Traces(e, g, KeptOf(bs), ix, bs)
<1>1. /\ ix \in Seq(Entries) /\ bs \in Seq(Blocks)
      /\ Cleared(bs) /\ Indexed(ix, bs) /\ Ordered(ix) /\ Covered(ix, bs)
  BY DEF Consistent
<1>2. PICK kept : kept = KeptOf(bs)
  OBVIOUS
<1>3. kept \in Seq(Blocks) /\ \E r : Picks(r, kept, bs, Uncleared(bs), Len(bs))
  BY <1>1, <1>2, OnlyPicks DEF KeptOf
<1>4. PICK e : Picks(e, kept, bs, Uncleared(bs), Len(bs))
  BY <1>3
<1>5. PICK m \in Nat : m = Len(kept)
  BY <1>3
<1>6. PICK n \in Nat : n = Len(bs) /\ DOMAIN bs = 1 .. n
  BY <1>1
<1>7. PICK l \in Nat : l = Len(ix) /\ DOMAIN ix = 1 .. l
  BY <1>1
<1>8. /\ \A j \in 1 .. m : e[j] \in 1 .. n /\ ~bs[e[j]].cleared /\ kept[j] = bs[e[j]]
      /\ \A j, k \in 1 .. m : j < k => e[j] < e[k]
      /\ \A i \in 1 .. n : ~bs[i].cleared => \E j \in 1 .. m : e[j] = i
  BY <1>4, <1>5, <1>6 DEF Picks, Uncleared
<1>9. PICK g : g = [j \in 1 .. m |-> CHOOSE a \in LiveIn(ix) : StandsFor(ix, bs, a, e[j])]
  OBVIOUS
<1>10. \A j \in 1 .. m : g[j] \in LiveIn(ix) /\ StandsFor(ix, bs, g[j], e[j])
  <2>1. TAKE j \in 1 .. m
  <2>2. \E a \in LiveIn(ix) : StandsFor(ix, bs, a, e[j])
    BY <1>1, <1>6, <1>8 DEF Covered
  <2>3. g[j] = CHOOSE a \in LiveIn(ix) : StandsFor(ix, bs, a, e[j])
    BY <1>9
  <2> QED BY <2>2, <2>3
<1>11. \A j, k \in 1 .. m : j < k => g[j] < g[k]
  <2>1. TAKE j, k \in 1 .. m
  <2>2. HAVE j < k
  <2>3. e[j] < e[k]
    BY <1>8, <2>2
  <2> QED BY <1>6, <1>8, <1>10, <2>3, StandsInOrder
<1>12. \A j \in 1 .. m :
         kept[j].key \in Keys /\ kept[j].value \in Values /\ kept[j].hashcode \in Nat \ Fragile
  <2>1. TAKE j \in 1 .. m
  <2>2. e[j] \in 1 .. n /\ ~bs[e[j]].cleared /\ kept[j] = bs[e[j]]
    BY <1>8
  <2>3. PICK i \in 1 .. n :
          StandsFor(ix, bs, g[j], i) /\ bs[i].key \in Keys /\ bs[i].value \in Values
    BY <1>1, <1>6, <1>10 DEF Indexed
  <2>4. i = e[j]
    BY <1>6, <1>10, <2>2, <2>3, StandsInOrder
  <2>5. bs[e[j]].hashcode \in Nat \ Fragile
    <3>1. bs[e[j]].hashcode \notin Fragile
      BY <1>1, <1>6, <2>2 DEF Cleared
    <3>2. bs[e[j]] \in Blocks
      BY <1>1, <1>6, <2>2
    <3> QED BY <3>1, <3>2 DEF Blocks
  <2> QED BY <2>2, <2>3, <2>4, <2>5
<1>13. m <= l
  <2>1. \A j \in 1 .. m : g[j] \in 1 .. l
    BY <1>7, <1>10 DEF LiveIn
  <2> QED BY <1>11, <2>1, Climbs
<1>14. Traces(e, g, kept, ix, bs)
  BY <1>5, <1>6, <1>8, <1>10, <1>11, <1>12 DEF Traces
<1> QED BY <1>2, <1>3, <1>5, <1>7, <1>13, <1>14

LEMMA HoleIs ==
  ASSUME NEW n \in Nat \ {0}
  PROVE  /\ Hole(n) \in Blocks /\ Hole(n).length = n
         /\ Hole(n).key = NoKey /\ Hole(n).cleared
BY DEF Hole, Blocks

\* The bindings of what is kept are those that are not filed under Fragile codes.
LEMMA KeptBindings ==
  ASSUME NEW ix, NEW bs, Consistent(ix, bs), NEW kept \in Seq(Blocks), NEW e, NEW g,
         Traces(e, g, kept, ix, bs), NEW t \in Seq(Bindings), NEW r, Lists(r, t, ix, bs),
         NEW u \in Seq(Bindings), Len(u) = Len(kept),
         \A j \in 1 .. Len(kept) : u[j] = BindingIn(kept[j])
  PROVE  u = Only(t, {j \in DOMAIN t : t[j].hashcode \notin Fragile})
<1>1. PICK m \in Nat : m = Len(kept)
  OBVIOUS
<1>2. PICK w \in Nat : w = Len(t) /\ DOMAIN t = 1 .. w
  OBVIOUS
<1>3. PICK N : N = {j \in 1 .. w : t[j].hashcode \notin Fragile}
  OBVIOUS
<1>4. bs \in Seq(Blocks) /\ Indexed(ix, bs) /\ ix \in Seq(Entries)
  BY DEF Consistent
<1>5. /\ \A j \in 1 .. m : /\ e[j] \in DOMAIN bs /\ g[j] \in LiveIn(ix) /\ StandsFor(ix, bs, g[j], e[j])
                           /\ kept[j] = bs[e[j]] /\ kept[j].hashcode \notin Fragile
      /\ \A j, k \in 1 .. m : j < k => g[j] < g[k]
      /\ \A i \in DOMAIN bs : ~bs[i].cleared => \E j \in 1 .. m : e[j] = i
  BY <1>1 DEF Traces
<1>6. /\ \A j \in 1 .. w : r[j] \in LiveIn(ix) /\ t[j] = BindingOf(ix, bs, r[j])
      /\ \A j, k \in 1 .. w : j < k => r[j] < r[k]
      /\ \A a \in LiveIn(ix) : \E j \in 1 .. w : r[j] = a
  BY <1>2 DEF Lists
<1>7. \A a \in LiveIn(ix) : a \in Nat
  BY <1>4 DEF LiveIn
<1>8. PICK p : p = [j \in 1 .. m |-> CHOOSE h \in 1 .. w : r[h] = g[j]]
  OBVIOUS
<1>9. \A j \in 1 .. m : p[j] \in 1 .. w /\ r[p[j]] = g[j]
  <2>1. TAKE j \in 1 .. m
  <2>2. \E h \in 1 .. w : r[h] = g[j]
    BY <1>5, <1>6
  <2>3. p[j] = CHOOSE h \in 1 .. w : r[h] = g[j]
    BY <1>8
  <2> QED BY <2>2, <2>3
<1>10. \A j \in 1 .. m : u[j] = t[p[j]] /\ u[j] = BindingIn(kept[j])
  <2>1. TAKE j \in 1 .. m
  <2>2. BindingOf(ix, bs, g[j]) = BindingIn(bs[e[j]])
    <3>1. bs \in Seq(Blocks) /\ e[j] \in DOMAIN bs /\ StandsFor(ix, bs, g[j], e[j])
      BY <1>4, <1>5
    <3>2. PICK a : a = g[j]
      OBVIOUS
    <3>3. PICK i \in DOMAIN bs : i = e[j]
      BY <3>1
    <3>4. bs \in Seq(Blocks) /\ StandsFor(ix, bs, a, i)
      BY <3>1, <3>2, <3>3
    <3>5. BindingOf(ix, bs, a) = BindingIn(bs[i])
      BY <3>4, StandsIs
    <3> QED BY <3>2, <3>3, <3>5
  <2>3. t[p[j]] = BindingOf(ix, bs, g[j])
    <3>1. p[j] \in 1 .. w /\ r[p[j]] = g[j]
      BY <1>9
    <3> QED BY <1>6, <3>1
  <2>4. u[j] = BindingIn(kept[j])
    BY <1>1
  <2>5. kept[j] = bs[e[j]]
    BY <1>5
  <2> QED BY <2>2, <2>3, <2>4, <2>5
<1>11. \A j \in 1 .. m : p[j] \in N
  <2>1. TAKE j \in 1 .. m
  <2>2. t[p[j]].hashcode = kept[j].hashcode
    <3>1. t[p[j]] = BindingIn(kept[j])
      BY <1>10
    <3> QED BY <3>1 DEF BindingIn
  <2> QED BY <1>3, <1>5, <1>9, <2>2
<1>12. \A j, k \in 1 .. m : j < k => p[j] < p[k]
  <2>1. TAKE j, k \in 1 .. m
  <2>2. HAVE j < k
  <2>3. r[p[j]] < r[p[k]] /\ r[p[j]] \in Nat /\ r[p[k]] \in Nat
    BY <1>5, <1>7, <1>9, <2>2
  <2>4. p[j] \in 1 .. w /\ p[k] \in 1 .. w
    BY <1>9
  <2>5. p[j] # p[k]
    BY <2>3
  <2>6. ~(p[k] < p[j])
    BY <1>6, <2>3, <2>4
  <2> QED BY <2>4, <2>5, <2>6
<1>13. \A h \in 1 .. w : h \in N => \E j \in 1 .. m : p[j] = h
  <2>1. TAKE h \in 1 .. w
  <2>2. HAVE h \in N
  <2>3. r[h] \in LiveIn(ix) /\ t[h] = BindingOf(ix, bs, r[h]) /\ t[h].hashcode \notin Fragile
    BY <1>3, <1>6, <2>2
  <2>4. PICK i \in DOMAIN bs : /\ StandsFor(ix, bs, r[h], i)
                               /\ bs[i].cleared => bs[i].hashcode \in Fragile
    BY <1>4, <2>3 DEF Indexed
  <2>5. BindingOf(ix, bs, r[h]) = BindingIn(bs[i])
    BY <1>4, <2>4, StandsIs
  <2>6. t[h].hashcode = bs[i].hashcode
    BY <2>3, <2>5 DEF BindingIn
  <2>7. PICK j \in 1 .. m : e[j] = i
    BY <1>5, <2>3, <2>4, <2>6
  <2>8. StandsFor(ix, bs, g[j], i) /\ g[j] \in LiveIn(ix)
    BY <1>5, <2>7
  <2>9. g[j] = r[h]
    BY <2>3, <2>4, <2>8, StandsInOrder
  <2>10. p[j] \in 1 .. w /\ r[p[j]] = r[h] /\ r[h] \in Nat
    BY <1>7, <1>9, <2>3, <2>9
  <2>11. ~(p[j] < h) /\ ~(h < p[j])
    BY <1>6, <2>10
  <2>12. p[j] = h
    BY <2>10, <2>11
  <2> QED BY <2>12
<1>14. p \in [1 .. m -> 1 .. w]
  BY <1>8, <1>9
<1>15. Picks(p, u, t, N, w)
  BY <1>1, <1>10, <1>11, <1>12, <1>13, <1>14 DEF Picks
<1>16. u = Only(t, N)
  BY <1>2, <1>15, PicksOnly
<1> QED BY <1>2, <1>3, <1>16

\* The blocks that Zip leaves: what it keeps, and behind it the bytes that are left over.
LEMMA WithHole ==
  ASSUME NEW kept \in Seq(Blocks), NEW rest \in Nat
  PROVE  LET cs == IF rest > 0 THEN Append(kept, Hole(rest)) ELSE kept
             m == Len(kept)
         IN  /\ cs \in Seq(Blocks)
             /\ \A i \in 1 .. m : cs[i] = kept[i] /\ Offset(cs, i) = Offset(kept, i)
             /\ TotalLength(cs) = TotalLength(kept) + rest
             /\ \E z \in {m, m + 1} :
                  /\ DOMAIN cs = 1 .. z
                  /\ \A i \in 1 .. z : i \in 1 .. m \/ (cs[i] = Hole(rest) /\ rest > 0)
<1>1. PICK cs : cs = IF rest > 0 THEN Append(kept, Hole(rest)) ELSE kept
  OBVIOUS
<1>2. PICK m \in Nat : m = Len(kept) /\ DOMAIN kept = 1 .. m
  OBVIOUS
<1>3. TotalLength(kept) \in Nat
  BY WeightIs
<1>4. CASE ~(rest > 0)
  <2>1. cs = kept /\ rest = 0
    BY <1>1, <1>4
  <2>2. TotalLength(kept) = TotalLength(kept) + rest
    BY <1>3, <2>1
  <2>3. PICK z \in {m, m + 1} : z = m
    OBVIOUS
  <2> QED BY <1>1, <1>2, <2>1, <2>2, <2>3, Zenon
<1>5. CASE rest > 0
  <2>1. PICK b \in Blocks : b = Hole(rest) /\ b.length = rest
    BY <1>5, HoleIs
  <2>2. cs = Append(kept, b)
    BY <1>1, <1>5, <2>1
  <2>3. /\ cs \in Seq(Blocks) /\ Len(cs) = m + 1 /\ cs[m + 1] = b
        /\ \A i \in 1 .. m : cs[i] = kept[i] /\ Offset(cs, i) = Offset(kept, i)
        /\ TotalLength(cs) = TotalLength(kept) + rest
    BY <1>2, <2>1, <2>2, AppendedOffsets
  <2>4. PICK z \in {m, m + 1} : z = m + 1
    OBVIOUS
  <2>5. DOMAIN cs = 1 .. z
    BY <2>3, <2>4
  <2>6. \A i \in 1 .. z : i \in 1 .. m \/ i = m + 1
    BY <2>4
  <2>7. \A i \in 1 .. z : i \in 1 .. m \/ (cs[i] = Hole(rest) /\ rest > 0)
    BY <1>5, <2>1, <2>3, <2>6, Zenon
  <2> QED BY <1>1, <1>2, <2>3, <2>5, <2>7, Zenon
<1> QED BY <1>4, <1>5

LEMMA ZipKeeps ==
  ASSUME NEW ix, NEW bs, Consistent(ix, bs), NEW rest \in Nat
  PROVE  LET kept == KeptOf(bs)
             cs == IF rest > 0 THEN Append(kept, Hole(rest)) ELSE kept
             jx == IndexOf(ix, kept)
             t == BindingsOf(ix, bs)
         IN  /\ Consistent(jx, cs)
             /\ BindingsOf(jx, cs) = Only(t, {j \in DOMAIN t : t[j].hashcode \notin Fragile})
             /\ Len(BindingsOf(jx, cs)) <= Len(t)
             /\ Len(jx) = Len(ix)
             /\ TotalLength(cs) = TotalLength(kept) + rest
             /\ rest = 0 => \A i \in DOMAIN cs : cs[i].key # NoKey
<1>0a. PICK kept : kept = KeptOf(bs)
  OBVIOUS
<1>0b. PICK cs : cs = IF rest > 0 THEN Append(kept, Hole(rest)) ELSE kept
  OBVIOUS
<1>0c. PICK t : t = BindingsOf(ix, bs) /\ t \in Seq(Bindings)
  BY BindingsAre
<1>1. PICK jx : jx = IndexOf(ix, kept)
  OBVIOUS
<1>2. ix \in Seq(Entries) /\ bs \in Seq(Blocks)
  BY DEF Consistent
<1>3. PICK l \in Nat : l = Len(ix) /\ DOMAIN ix = 1 .. l
  BY <1>2
<1>4. kept \in Seq(Blocks) /\ \E e, g : Traces(e, g, kept, ix, bs)
  BY <1>0a, KeptIs
<1>5. PICK m \in Nat : m = Len(kept) /\ m <= l
  BY <1>0a, <1>3, <1>4, KeptIs
<1>6. PICK e, g : Traces(e, g, kept, ix, bs)
  BY <1>4
<1>7. /\ \A j \in 1 .. m : /\ e[j] \in DOMAIN bs /\ kept[j] = bs[e[j]] /\ ~bs[e[j]].cleared
                           /\ kept[j].key \in Keys /\ kept[j].value \in Values
                           /\ kept[j].hashcode \in Nat /\ kept[j].hashcode \notin Fragile
  BY <1>5, <1>6 DEF Traces
<1>8. TotalLength(kept) \in Nat
  BY <1>4, WeightIs
<1>9. /\ cs \in Seq(Blocks)
      /\ \A i \in 1 .. m : cs[i] = kept[i] /\ Offset(cs, i) = Offset(kept, i)
      /\ TotalLength(cs) = TotalLength(kept) + rest
      /\ \E z \in {m, m + 1} :
           /\ DOMAIN cs = 1 .. z
           /\ \A i \in 1 .. z : i \in 1 .. m \/ (cs[i] = Hole(rest) /\ rest > 0)
  BY <1>0b, <1>4, <1>5, WithHole
<1>9a. cs \in Seq(Blocks)
  BY <1>9
<1>9b. \A i \in 1 .. m : cs[i] = kept[i] /\ Offset(cs, i) = Offset(kept, i)
  BY <1>9
<1>9c. TotalLength(cs) = TotalLength(kept) + rest
  BY <1>9
<1>9d. PICK z \in {m, m + 1} :
         /\ DOMAIN cs = 1 .. z
         /\ \A i \in 1 .. z : i \in 1 .. m \/ (cs[i] = Hole(rest) /\ rest > 0)
  BY <1>9
<1>10. \A i \in 1 .. m : i \in 1 .. z /\ i \in 1 .. l
  BY <1>5, <1>9d
<1>11. \A i \in 1 .. l :
         jx[i] = IF i > m THEN NoEntry
                 ELSE [hashcode |-> kept[i].hashcode, offset |-> Offset(kept, i)]
  BY <1>1, <1>3, <1>5 DEF IndexOf
<1>12. /\ \A i \in 1 .. m : jx[i].hashcode = kept[i].hashcode /\ jx[i].offset = Offset(kept, i)
       /\ \A i \in 1 .. l : ~(i \in 1 .. m) => jx[i] = NoEntry
  <2>1. ASSUME NEW i \in 1 .. m
        PROVE  jx[i].hashcode = kept[i].hashcode /\ jx[i].offset = Offset(kept, i)
    <3>1. i \in 1 .. l /\ ~(i > m)
      BY <1>10
    <3>2. jx[i] = [hashcode |-> kept[i].hashcode, offset |-> Offset(kept, i)]
      BY <1>11, <3>1
    <3> QED BY <3>2
  <2>2. ASSUME NEW i \in 1 .. l, ~(i \in 1 .. m) PROVE jx[i] = NoEntry
    <3>1. i > m
      BY <2>2
    <3> QED BY <1>11, <3>1
  <2> QED BY <2>1, <2>2
<1>13. \A i \in 1 .. m :
         kept[i].hashcode \in Nat /\ kept[i].hashcode # 0 /\ Offset(kept, i) \in Nat
  BY <1>4, <1>5, <1>7, ZeroIsFragile, OffsetsGrow
<1>14. jx \in Seq(Entries) /\ Len(jx) = l /\ DOMAIN jx = 1 .. l
  <2>1. NoEntry \in Entries
    BY DEF NoEntry, Entries
  <2>2. \A i \in 1 .. m : [hashcode |-> kept[i].hashcode, offset |-> Offset(kept, i)] \in Entries
    BY <1>13 DEF Entries
  <2>3. \A i \in 1 .. l : jx[i] \in Entries
    <3>1. TAKE i \in 1 .. l
    <3>2. CASE i > m
      BY <1>11, <2>1, <3>2
    <3>3. CASE ~(i > m)
      <4>1. i \in 1 .. m
        BY <3>3
      <4> QED BY <1>11, <2>2, <3>3, <4>1
    <3> QED BY <3>2, <3>3
  <2>4. DOMAIN jx = 1 .. l /\ jx = [i \in 1 .. l |-> jx[i]]
    BY <1>1, <1>3 DEF IndexOf
  <2>5. jx \in [1 .. l -> Entries]
    BY <2>3, <2>4
  <2> QED BY <2>5, FunctionIsSeq
<1>15. LiveIn(jx) = 1 .. m
  <2>1. NoEntry.hashcode = 0
    BY DEF NoEntry
  <2>2. \A a \in 1 .. l : jx[a].hashcode # 0 <=> a \in 1 .. m
    BY <1>10, <1>12, <1>13, <2>1
  <2> QED BY <1>10, <1>14, <2>2 DEF LiveIn
<1>16. \A a \in 1 .. m : StandsFor(jx, cs, a, a)
  BY <1>9b, <1>12 DEF StandsFor
<1>17. Cleared(cs)
  <2>1. ASSUME NEW i \in 1 .. z, cs[i].hashcode \in Fragile \/ cs[i].key = NoKey
        PROVE  cs[i].cleared
    <3>1. CASE i \in 1 .. m
      <4>1. cs[i].key \in Keys /\ cs[i].hashcode \notin Fragile
        BY <1>7, <1>9b, <3>1
      <4> QED BY <2>1, <4>1, NoKeyAssumption
    <3>2. CASE cs[i] = Hole(rest) /\ rest > 0
      BY <3>2, HoleIs
    <3> QED BY <1>9d, <3>1, <3>2
  <2> QED BY <1>9d, <2>1 DEF Cleared
<1>18. Indexed(jx, cs)
  <2>1. ASSUME NEW a \in 1 .. m
        PROVE  \E i \in DOMAIN cs :
                 /\ StandsFor(jx, cs, a, i)
                 /\ cs[i].key \in Keys /\ cs[i].value \in Values
                 /\ jx[a].hashcode = cs[i].hashcode
                 /\ cs[i].cleared => cs[i].hashcode \in Fragile
    <3>1. cs[a] = kept[a] /\ a \in DOMAIN cs /\ ~kept[a].cleared
      BY <1>7, <1>9b, <1>9d, <1>10
    <3> QED BY <1>7, <1>12, <1>16, <3>1
  <2> QED BY <1>15, <2>1 DEF Indexed
<1>19. Ordered(jx)
  <2>1. ASSUME NEW a \in 1 .. m, NEW c \in 1 .. m, a < c PROVE jx[a].offset < jx[c].offset
    <3>1. Offset(kept, a) < Offset(kept, c)
      BY <1>4, <1>5, <2>1, OffsetsGrow
    <3> QED BY <1>12, <3>1
  <2> QED BY <1>15, <2>1 DEF Ordered
<1>20. Covered(jx, cs)
  <2>1. ASSUME NEW i \in 1 .. z, ~cs[i].cleared
        PROVE  \E a \in LiveIn(jx) : StandsFor(jx, cs, a, i)
    <3>1. i \in 1 .. m
      <4>1. rest > 0 => rest \in Nat \ {0}
        OBVIOUS
      <4>2. rest > 0 => Hole(rest).cleared
        BY <4>1, HoleIs
      <4> QED BY <1>9d, <2>1, <4>2
    <3> QED BY <1>15, <1>16, <3>1
  <2> QED BY <1>9d, <2>1 DEF Covered
<1>21. Consistent(jx, cs)
  BY <1>9a, <1>14, <1>17, <1>18, <1>19, <1>20 DEF Consistent
<1>22. PICK u : u = [j \in 1 .. m |-> BindingIn(kept[j])]
  OBVIOUS
<1>23. u \in Seq(Bindings) /\ Len(u) = m /\ \A j \in 1 .. m : u[j] = BindingIn(kept[j])
  <2>1. \A j \in 1 .. m : BindingIn(kept[j]) \in Bindings
    BY <1>7 DEF BindingIn, Bindings
  <2>2. u \in [1 .. m -> Bindings] /\ \A j \in 1 .. m : u[j] = BindingIn(kept[j])
    BY <1>22, <2>1
  <2> QED BY <2>2, FunctionIsSeq
<1>24. BindingsOf(jx, cs) = u
  <2>1. PICK r : r = [j \in 1 .. m |-> j]
    OBVIOUS
  <2>2. \A j \in 1 .. m : BindingOf(jx, cs, j) = BindingIn(kept[j])
    <3>1. TAKE j \in 1 .. m
    <3>2. j \in DOMAIN cs /\ StandsFor(jx, cs, j, j) /\ cs[j] = kept[j]
      BY <1>9b, <1>9d, <1>10, <1>16
    <3>3. BindingOf(jx, cs, j) = BindingIn(cs[j])
      <4>1. cs \in Seq(Blocks)
        BY <1>9a
      <4> QED BY <3>2, <4>1, StandsIs
    <3> QED BY <3>2, <3>3
  <2>3. r \in [1 .. m -> 1 .. l] /\ \A j \in 1 .. m : r[j] = j
    BY <1>10, <2>1
  <2>4. Lists(r, u, jx, cs)
    BY <1>14, <1>15, <1>23, <2>2, <2>3 DEF Lists
  <2> QED BY <1>14, <1>23, <2>4, Listing
<1>25. PICK r : Lists(r, t, ix, bs)
  BY <1>0c, BindingsAre
<1>26. u = Only(t, {j \in DOMAIN t : t[j].hashcode \notin Fragile})
  BY <1>0c, <1>4, <1>5, <1>6, <1>23, <1>25, KeptBindings
<1>27. m <= Len(t)
  <2>1. PICK w \in Nat : w = Len(t)
    BY <1>0c
  <2>2. PICK p : Picks(p, u, t, {j \in DOMAIN t : t[j].hashcode \notin Fragile}, Len(t))
    BY <1>0c, <1>26, OnlyPicks
  <2>3. (\A j \in 1 .. m : p[j] \in 1 .. w) /\ \A j, k \in 1 .. m : j < k => p[j] < p[k]
    BY <1>23, <2>1, <2>2 DEF Picks
  <2> QED BY <2>1, <2>3, Climbs
<1>28. rest = 0 => \A i \in DOMAIN cs : cs[i].key # NoKey
  <2>1. SUFFICES ASSUME rest = 0, NEW i \in DOMAIN cs PROVE cs[i].key # NoKey
    OBVIOUS
  <2>2. i \in 1 .. m /\ cs[i] = kept[i]
    <3>1. i \in 1 .. z
      BY <1>9d
    <3>2. i \in 1 .. m
      BY <1>9d, <2>1, <3>1
    <3> QED BY <1>9b, <3>2
  <2>3. kept[i].key \in Keys
    BY <1>7, <2>2
  <2> QED BY <2>2, <2>3, NoKeyAssumption
<1> QED BY <1>0a, <1>0b, <1>0c, <1>1, <1>3, <1>9c, <1>14, <1>21, <1>23, <1>24, <1>26, <1>27, <1>28

\* What is kept and what is gone fit the buffer together.
LEMMA Fits ==
  ASSUME NEW ix, NEW bs, Consistent(ix, bs)
  PROVE  /\ TotalLength(KeptOf(bs)) \in Nat
         /\ Weight(bs, GoneIn(ix, bs)) \in Nat
         /\ Weight(bs, GoneIn(ix, bs)) + TotalLength(KeptOf(bs)) <= TotalLength(bs)
<1>1. bs \in Seq(Blocks)
  BY DEF Consistent
<1>2. PICK G : G = GoneIn(ix, bs)
  OBVIOUS
<1>3. PICK U : U = Uncleared(bs)
  OBVIOUS
<1>4. TotalLength(KeptOf(bs)) = Weight(bs, U)
  BY <1>1, <1>3, OnlyWeighs DEF KeptOf
<1>5. G \cap U = {}
  BY <1>2, <1>3 DEF GoneIn, Uncleared
<1>6. Weight(bs, G) + Weight(bs, U) = Weight(bs, G \cup U)
  BY <1>1, <1>5, Additive
<1>7. Weight(bs, G) \in Nat /\ Weight(bs, U) \in Nat /\ Weight(bs, G \cup U) <= TotalLength(bs)
  BY <1>1, WeightIs
<1> QED BY <1>2, <1>4, <1>6, <1>7

\* When all is gone there are no bindings, and the hole is gone too.
LEMMA ZipAllKeeps ==
  ASSUME NEW ix, NEW bs, Consistent(ix, bs), NEW n \in Nat \ {0},
         TotalLength(bs) <= Weight(bs, GoneIn(ix, bs))
  PROVE  LET cs == <<Hole(n)>>
         IN  /\ Consistent(ix, cs)
             /\ BindingsOf(ix, bs) = <<>> /\ BindingsOf(ix, cs) = <<>>
             /\ TotalLength(cs) = n
             /\ Weight(cs, GoneIn(ix, cs)) = n
<1>1. /\ ix \in Seq(Entries) /\ bs \in Seq(Blocks)
      /\ Cleared(bs) /\ Indexed(ix, bs) /\ Ordered(ix) /\ Covered(ix, bs)
  BY DEF Consistent
<1>2. LiveIn(ix) = {}
  <2>1. SUFFICES ASSUME NEW a \in LiveIn(ix) PROVE FALSE
    OBVIOUS
  <2>2. PICK i \in DOMAIN bs : StandsFor(ix, bs, a, i)
    BY <1>1 DEF Indexed
  <2>3. i \notin GoneIn(ix, bs)
    BY <2>2 DEF GoneIn
  <2>4. PICK G : G = GoneIn(ix, bs)
    OBVIOUS
  <2>5. Weight(bs, G) + bs[i].length <= TotalLength(bs)
    BY <1>1, <2>3, <2>4, WeightIs
  <2>6. Weight(bs, G) \in Nat /\ TotalLength(bs) \in Nat /\ bs[i].length \in Nat /\ bs[i].length > 0
    BY <1>1, WeightIs, LengthOf
  <2> QED BY <2>4, <2>5, <2>6
<1>3. PICK b \in Blocks : b = Hole(n) /\ b.length = n /\ b.key = NoKey /\ b.cleared
  BY HoleIs
<1>4. PICK e \in Seq(Blocks) : e = <<>> /\ Len(e) = 0
  <2>1. <<>> \in Seq(Blocks) /\ Len(<<>>) = 0
    OBVIOUS
  <2> QED BY <2>1
<1>5. PICK cs : cs = Append(e, b)
  OBVIOUS
<1>6. cs = <<Hole(n)>>
  BY <1>3, <1>4, <1>5
<1>7. cs \in Seq(Blocks) /\ Len(cs) = 1 /\ cs[1] = b /\ DOMAIN cs = {1}
  <2>1. cs \in Seq(Blocks) /\ Len(cs) = 0 + 1 /\ cs[0 + 1] = b
    BY <1>4, <1>5, AppendedOffsets
  <2>2. DOMAIN cs = 1 .. 1
    BY <2>1
  <2> QED BY <2>1, <2>2
<1>8. TotalLength(cs) = n
  <2>1. TotalLength(e) = 0
    BY <1>4, EndsAre DEF TotalLength
  <2>2. TotalLength(cs) = TotalLength(e) + b.length
    BY <1>5, AppendedOffsets
  <2> QED BY <1>3, <2>1, <2>2
<1>9. Consistent(ix, cs)
  <2>1. Cleared(cs) /\ Covered(ix, cs)
    BY <1>3, <1>7 DEF Cleared, Covered
  <2>2. Indexed(ix, cs)
    BY <1>2 DEF Indexed
  <2> QED BY <1>1, <1>7, <2>1, <2>2 DEF Consistent
<1>10. GoneIn(ix, cs) = {1}
  BY <1>2, <1>3, <1>7 DEF GoneIn
<1>11. Weight(cs, GoneIn(ix, cs)) = n
  <2>1. Weight(cs, {1}) = cs[1].length
    BY <1>7, Singleton, SMTT(30)
  <2> QED BY <1>3, <1>7, <1>10, <2>1
<1>12. PICK t \in Seq(Bindings) : t = <<>> /\ Len(t) = 0
  <2>1. <<>> \in Seq(Bindings) /\ Len(<<>>) = 0
    OBVIOUS
  <2> QED BY <2>1
<1>13. PICK r : r = [j \in 1 .. 0 |-> j]
  OBVIOUS
<1>14. Lists(r, t, ix, bs) /\ Lists(r, t, ix, cs)
  BY <1>2, <1>12, <1>13 DEF Lists
<1>15. BindingsOf(ix, bs) = t /\ BindingsOf(ix, cs) = t
  BY <1>1, <1>12, <1>14, Listing
<1> QED BY <1>6, <1>8, <1>9, <1>11, <1>12, <1>15

-----------------------------------------------------------------------------
(* Find *)

LEMMA MinIs ==
  ASSUME NEW n \in Nat, NEW S \in SUBSET (1 .. n), S # {}
  PROVE  Min(S) \in S /\ \A k \in S : Min(S) <= k
<1>1. S \in SUBSET (0 .. n)
  OBVIOUS
<1>2. \E m \in S : \A k \in S : m <= k
  BY <1>1, Least
<1> QED BY <1>2 DEF Min

\* The positions in a list of bindings that Find may stop at for a key.
Of(t, k) == {j \in DOMAIN t : t[j].key = k /\ t[j].hashcode = Hash[k]}

\* Find stops at the entries of the bindings of a key, and the first of the entries is
\* that of the first of the bindings.
LEMMA FindIs ==
  ASSUME ConsistentInv, CountedInv, used \in Nat, NEW t \in Seq(Bindings), t = IndexedBindings,
         NEW r, Lists(r, t, index, blocks), NEW k \in Keys
  PROVE  /\ Matches(k) = {} <=> Of(t, k) = {}
         /\ Of(t, k) # {} =>
              /\ Min(Of(t, k)) \in 1 .. Len(t)
              /\ Min(Matches(k)) = r[Min(Of(t, k))]
              /\ Min(Matches(k)) \in Matches(k) /\ Min(Matches(k)) \in LiveIn(index)
              /\ t[Min(Of(t, k))] = BindingIn(BlockAt(index[Min(Matches(k))].offset))
<1>1. PICK m \in Nat : m = Len(t) /\ DOMAIN t = 1 .. m
  OBVIOUS
<1>2. index \in Seq(Entries)
  BY DEF ConsistentInv, Consistent
<1>3. PICK l \in Nat : l = Len(index) /\ DOMAIN index = 1 .. l
  BY <1>2
<1>4. PICK M : M = Matches(k)
  OBVIOUS
<1>5. PICK N : N = Of(t, k)
  OBVIOUS
<1>6. \A j \in 1 .. m : j \in N <=> t[j].key = k /\ t[j].hashcode = Hash[k]
  BY <1>1, <1>5 DEF Of
<1>7. /\ \A j \in 1 .. m : r[j] \in LiveIn(index) /\ t[j] = BindingOf(index, blocks, r[j])
      /\ \A j, h \in 1 .. m : j < h => r[j] < r[h]
      /\ \A a \in LiveIn(index) : \E j \in 1 .. m : r[j] = a
      /\ \A j \in 1 .. m : r[j] \in 1 .. l
  BY <1>1, <1>3 DEF Lists
<1>8. m > 0 => used > 0
  BY <1>1 DEF CountedInv
<1>9. \A a \in LiveIn(index) :
        /\ BindingOf(index, blocks, a) = BindingIn(BlockAt(index[a].offset))
        /\ BindingOf(index, blocks, a).key = BlockAt(index[a].offset).key
        /\ BindingOf(index, blocks, a).hashcode = index[a].hashcode
  <2>1. TAKE a \in LiveIn(index)
  <2>2. PICK i \in DOMAIN blocks :
          /\ index[a].hashcode = blocks[i].hashcode
          /\ BlockIn(blocks, index[a].offset) = blocks[i]
          /\ BindingOf(index, blocks, a) = BindingIn(blocks[i])
    BY EntryIs DEF ConsistentInv
  <2>3. BlockAt(index[a].offset) = blocks[i]
    BY <2>2 DEF BlockAt, BlockIn
  <2>4. /\ BindingIn(blocks[i]).key = blocks[i].key
        /\ BindingIn(blocks[i]).hashcode = blocks[i].hashcode
    BY DEF BindingIn
  <2> QED BY <2>2, <2>3, <2>4
<1>10. ASSUME NEW a \in M
       PROVE  /\ a \in LiveIn(index)
              /\ BindingOf(index, blocks, a).key = k
              /\ BindingOf(index, blocks, a).hashcode = Hash[k]
  <2>1. /\ a \in DOMAIN index /\ index[a].hashcode # 0 /\ index[a].hashcode = Hash[k]
        /\ BlockAt(index[a].offset).key = k
    BY <1>4, <1>10 DEF Matches
  <2>2. a \in LiveIn(index)
    BY <2>1 DEF LiveIn
  <2> QED BY <1>9, <2>1, <2>2
<1>11. ASSUME NEW a \in LiveIn(index), m > 0,
              BindingOf(index, blocks, a).key = k, BindingOf(index, blocks, a).hashcode = Hash[k]
       PROVE  a \in M
  <2>1. a \in DOMAIN index /\ index[a].hashcode # 0
    BY DEF LiveIn
  <2>2. BlockAt(index[a].offset).key = k /\ index[a].hashcode = Hash[k]
    BY <1>9, <1>11
  <2> QED BY <1>4, <1>8, <1>11, <2>1, <2>2 DEF Matches
<1>12. \A j \in 1 .. m : j \in N => r[j] \in M
  <2>1. TAKE j \in 1 .. m
  <2>2. HAVE j \in N
  <2>3. m > 0
    OBVIOUS
  <2> QED BY <1>6, <1>7, <1>11, <2>2, <2>3
<1>13. \A a \in M : \E j \in 1 .. m : j \in N /\ r[j] = a
  <2>1. TAKE a \in M
  <2>2. /\ a \in LiveIn(index)
        /\ BindingOf(index, blocks, a).key = k /\ BindingOf(index, blocks, a).hashcode = Hash[k]
    BY <1>10
  <2>3. PICK j \in 1 .. m : r[j] = a
    BY <1>7, <2>2
  <2> QED BY <1>6, <1>7, <2>2, <2>3
<1>14. N \in SUBSET (1 .. m)
  BY <1>1, <1>5 DEF Of
<1>15. M \in SUBSET (1 .. l)
  BY <1>3, <1>4 DEF Matches
<1>16. M = {} <=> N = {}
  BY <1>12, <1>13, <1>14
<1>17. ASSUME N # {}
       PROVE  /\ Min(N) \in 1 .. m /\ Min(M) = r[Min(N)]
              /\ Min(M) \in M /\ Min(M) \in LiveIn(index)
              /\ t[Min(N)] = BindingIn(BlockAt(index[Min(M)].offset))
  <2>1. PICK q \in N : q = Min(N) /\ \A j \in N : q <= j
    BY <1>14, <1>17, MinIs
  <2>2. PICK a \in M : a = Min(M) /\ \A c \in M : a <= c
    BY <1>15, <1>16, <1>17, MinIs
  <2>3. q \in 1 .. m /\ r[q] \in M /\ r[q] \in Nat /\ a \in Nat
    <3>1. q \in 1 .. m
      BY <1>14
    <3>2. r[q] \in M
      BY <1>12, <3>1
    <3>3. \A c \in M : c \in Nat
      BY <1>15
    <3> QED BY <3>1, <3>2, <3>3
  <2>4. PICK j \in 1 .. m : j \in N /\ r[j] = a
    BY <1>13, <2>2
  <2>5. a <= r[q] /\ q <= j
    BY <2>1, <2>2, <2>3, <2>4
  <2>6. q = j
    <3>1. q < j => r[q] < r[j]
      BY <1>7, <2>3, <2>4
    <3> QED BY <2>3, <2>4, <2>5, <3>1
  <2>7. a \in LiveIn(index)
    BY <1>10
  <2>8. t[q] = BindingIn(BlockAt(index[a].offset))
    BY <1>7, <1>9, <2>3, <2>4, <2>6, <2>7
  <2> QED BY <2>1, <2>2, <2>3, <2>4, <2>6, <2>7, <2>8
<1> QED BY <1>1, <1>4, <1>5, <1>16, <1>17

-----------------------------------------------------------------------------
(* The steps *)

\* What the invariant says of the values the variables have.
LEMMA Known ==
  ASSUME MapInv
  PROVE  /\ index \in Seq(Entries) /\ blocks \in Seq(Blocks)
         /\ IndexedBindings = BindingsOf(index, blocks)
         /\ IndexedBindings \in Seq(Bindings) /\ Len(IndexedBindings) \in Nat
         /\ \E r : Lists(r, IndexedBindings, index, blocks)
         /\ TotalLength(blocks) \in Nat
         /\ Weight(blocks, GoneIn(index, blocks)) \in Nat
         /\ Weight(blocks, GoneIn(index, blocks)) <= TotalLength(blocks)
<1>1. Consistent(index, blocks)
  BY DEF MapInv, ConsistentInv
<1>2. index \in Seq(Entries) /\ blocks \in Seq(Blocks)
  BY <1>1 DEF Consistent
<1>3. IndexedBindings = BindingsOf(index, blocks)
  BY IndexedBindingsAre
<1>4. BindingsOf(index, blocks) \in Seq(Bindings)
      /\ \E r : Lists(r, BindingsOf(index, blocks), index, blocks)
  BY <1>1, BindingsAre
<1>5. PICK G : G = GoneIn(index, blocks)
  OBVIOUS
<1>6. /\ TotalLength(blocks) \in Nat
      /\ Weight(blocks, G) \in Nat /\ Weight(blocks, G) <= TotalLength(blocks)
  BY <1>2, WeightIs
<1> QED BY <1>2, <1>3, <1>4, <1>5, <1>6

LEMMA Start == Init => MapInv /\ Abstract!Init
<1> SUFFICES ASSUME Init PROVE MapInv /\ Abstract!Init
  OBVIOUS
<1>1. blocks = <<>> /\ index = <<>> /\ fate = "ok" /\ found = Missing /\ ~holed
      /\ indexSize = 0 /\ size = 0 /\ waitFreed = 0 /\ used = 0 /\ sets = 0
  BY DEF Init
<1>2. index \in Seq(Entries) /\ Len(index) = 0 /\ blocks \in Seq(Blocks) /\ Len(blocks) = 0
  BY <1>1
<1>3. LiveIn(index) = {} /\ DOMAIN blocks = {}
  BY <1>1 DEF LiveIn
<1>4. Consistent(index, blocks)
  BY <1>2, <1>3 DEF Consistent, Cleared, Indexed, Ordered, Covered
<1>5. PICK t \in Seq(Bindings) : t = <<>> /\ Len(t) = 0
  <2>1. <<>> \in Seq(Bindings) /\ Len(<<>>) = 0
    OBVIOUS
  <2> QED BY <2>1
<1>6. IndexedBindings = t
  <2>1. PICK r : r = [j \in 1 .. 0 |-> j]
    OBVIOUS
  <2>2. Lists(r, t, index, blocks)
    BY <1>3, <1>5, <2>1 DEF Lists
  <2>3. BindingsOf(index, blocks) = t
    BY <1>2, <2>2, Listing
  <2> QED BY <2>3, IndexedBindingsAre
<1>7. TotalLength(blocks) = 0
  BY <1>2, EndsAre DEF TotalLength
<1>8. Weight(blocks, GoneIn(index, blocks)) \in Nat
  <2>1. PICK G : G = GoneIn(index, blocks)
    OBVIOUS
  <2> QED BY <1>2, <2>1, WeightIs
<1>9. TypeInv
  <2>1. {indexSize, size, waitFreed, used, sets} \subseteq Nat /\ fate \in {"ok", "corrupt"}
    BY <1>1
  <2>2. holed \in BOOLEAN
    BY DEF Init
  <2> QED BY <2>1, <2>2 DEF TypeInv
<1>10. ConsistentInv
  BY <1>4 DEF ConsistentInv
<1>11. MeasuredInv
  BY <1>1, <1>7, <1>8 DEF MeasuredInv
<1>12. CountedInv
  BY <1>1, <1>5, <1>6 DEF CountedInv
<1>13. RoomInv
  BY <1>1, <1>2, IndexAssumption DEF RoomInv
<1>14. WholeInv
  BY <1>3 DEF WholeInv
<1>15. SoundUntilHoled
  BY <1>1 DEF SoundUntilHoled
<1>16. Abstract!Init
  BY <1>1, <1>5, <1>6 DEF Abstract!Init
<1> QED BY <1>9, <1>10, <1>11, <1>12, <1>13, <1>14, <1>15, <1>16 DEF MapInv

\* AddIndex asks for no more entries than max_size_, and for more than there are
\* unless that many are in the index.
LEMMA IndexSizeIs ==
  ASSUME TypeInv, RoomInv, Len(index) \in Nat
  PROVE  /\ IndexSize \in Nat /\ IndexSize <= MaxIndex
         /\ Len(index) >= IndexSize => Len(index) >= MaxIndex
<1>1. /\ indexSize \in Nat /\ MaxIndex \in Nat /\ IndexStep \in Nat /\ IndexStep > 0
      /\ Len(index) <= indexSize /\ indexSize <= MaxIndex
  BY IndexAssumption DEF TypeInv, RoomInv
<1>2. PICK l \in Nat : l = Len(index)
  OBVIOUS
<1>3. CASE l + 1 < indexSize
  <2>1. IndexSize = indexSize
    BY <1>2, <1>3 DEF IndexSize
  <2> QED BY <1>1, <1>2, <1>3, <2>1
<1>4. CASE ~(l + 1 < indexSize) /\ indexSize + IndexStep >= MaxIndex
  <2>1. IndexSize = MaxIndex
    BY <1>2, <1>4 DEF IndexSize
  <2> QED BY <1>1, <1>2, <2>1
<1>5. CASE ~(l + 1 < indexSize) /\ ~(indexSize + IndexStep >= MaxIndex)
  <2>1. IndexSize = indexSize + IndexStep
    BY <1>2, <1>5 DEF IndexSize
  <2> QED BY <1>1, <1>2, <1>5, <2>1
<1> QED BY <1>3, <1>4, <1>5

LEMMA SetStep ==
  ASSUME MapInv, NEW k \in Keys, NEW v \in Values, NEW h \in SetHashes[k], Set(k, v, h)
  PROVE  MapInv' /\ Abstract!Set(k, v, h)
<1>0. h \in Nat
  BY HashAssumption
<1>1. /\ fate = "ok" /\ fate' = "ok" /\ sets' = sets + 1
      /\ Len(index) < IndexSize /\ indexSize' = IndexSize
      /\ index' = Append(index, [hashcode |-> h, offset |-> size])
      /\ blocks' = Append(blocks, Block(k, v, h))
      /\ size' = size + RequiredLength(k, v)
      /\ used' = used + 1
      /\ waitFreed' = waitFreed /\ found' = found /\ holed' = holed
  BY DEF Set
<1>2. /\ TypeInv /\ Consistent(index, blocks) /\ RoomInv
      /\ size = TotalLength(blocks) /\ waitFreed <= Weight(blocks, GoneIn(index, blocks))
      /\ Len(IndexedBindings) <= used
      /\ ~holed => \A i \in DOMAIN blocks : blocks[i].key # NoKey
  BY DEF MapInv, ConsistentInv, MeasuredInv, CountedInv, WholeInv
<1>3. PICK jx : jx = index'
  OBVIOUS
<1>4. PICK cs : cs = blocks'
  OBVIOUS
<1>5. PICK t : t = IndexedBindings /\ t = BindingsOf(index, blocks) /\ t \in Seq(Bindings)
  BY Known
<1>6. /\ Consistent(jx, cs)
      /\ BindingsOf(jx, cs) = IF h = 0 THEN t
                              ELSE Append(t, [key |-> k, value |-> v, hashcode |-> h])
      /\ TotalLength(cs) = TotalLength(blocks) + RequiredLength(k, v)
      /\ Weight(blocks, GoneIn(index, blocks)) <= Weight(cs, GoneIn(jx, cs))
  BY <1>0, <1>1, <1>2, <1>3, <1>4, <1>5, SetKeeps
<1>7. IndexedBindings' = BindingsOf(jx, cs)
  BY <1>3, <1>4, IndexedBindingsAre
<1>8. Consistent(index', blocks')
  BY <1>3, <1>4, <1>6
<1>9. {indexSize, size, waitFreed, used, sets} \subseteq Nat
  BY <1>2 DEF TypeInv
<1>10. PICK l \in Nat : l = Len(index)
  BY Known
<1>11. TypeInv'
  <2>1. IndexSize \in Nat
    BY <1>2, <1>10, IndexSizeIs
  <2>2. RequiredLength(k, v) \in Nat
    BY <1>0, BlockIs
  <2> QED BY <1>1, <1>2, <1>9, <2>1, <2>2, SMTT(30) DEF TypeInv
<1>12. ConsistentInv'
  BY <1>8 DEF ConsistentInv
<1>13. MeasuredInv'
  <2>1. size' = TotalLength(cs)
    BY <1>1, <1>2, <1>6
  <2>2. waitFreed <= Weight(cs, GoneIn(jx, cs))
    <3>1. PICK G : G = GoneIn(jx, cs)
      OBVIOUS
    <3>2. cs \in Seq(Blocks)
      BY <1>6 DEF Consistent
    <3>3. Weight(cs, G) \in Nat
      BY <3>2, WeightIs
    <3> QED BY <1>2, <1>6, <1>9, <3>1, <3>3, Known
  <2> QED BY <1>1, <1>3, <1>4, <2>1, <2>2 DEF MeasuredInv
<1>14. CountedInv'
  <2>1. [key |-> k, value |-> v, hashcode |-> h] \in Bindings
    BY <1>0 DEF Bindings
  <2>2. Len(Append(t, [key |-> k, value |-> v, hashcode |-> h])) = Len(t) + 1
    BY <1>5, <2>1
  <2>3. Len(t) \in Nat /\ Len(t) <= used /\ used \in Nat
    BY <1>2, <1>5, <1>9
  <2>4. Len(BindingsOf(jx, cs)) <= used + 1
    BY <1>6, <2>2, <2>3
  <2> QED BY <1>1, <1>7, <2>4 DEF CountedInv
<1>15. RoomInv'
  <2>1. IndexSize \in Nat /\ IndexSize <= MaxIndex
    BY <1>2, <1>10, IndexSizeIs
  <2>2. Len(index') = l + 1
    BY <1>1, <1>10, Known
  <2>3. l = sets
    BY <1>1, <1>2, <1>10 DEF RoomInv
  <2> QED BY <1>1, <1>10, <2>1, <2>2, <2>3 DEF RoomInv
<1>16. WholeInv'
  <2>1. SUFFICES ASSUME ~holed, NEW i \in DOMAIN cs PROVE cs[i].key # NoKey
    BY <1>1, <1>4 DEF WholeInv
  <2>2. PICK n \in Nat : n = Len(blocks) /\ DOMAIN blocks = 1 .. n
    BY Known
  <2>3. PICK b \in Blocks : b = Block(k, v, h)
    BY <1>0, BlockIs
  <2>4. b.key = k /\ k # NoKey
    BY <1>0, <2>3, BlockIs DEF Block
  <2>5. cs = Append(blocks, b)
    BY <1>1, <1>4, <2>3
  <2>6. blocks \in Seq(Blocks)
    BY Known
  <2>7. DOMAIN cs = 1 .. n + 1 /\ cs[n + 1] = b /\ \A j \in 1 .. n : cs[j] = blocks[j]
    BY <2>2, <2>5, <2>6
  <2>8. CASE i = n + 1
    BY <2>4, <2>7, <2>8
  <2>9. CASE i \in 1 .. n
    BY <1>2, <2>1, <2>2, <2>7, <2>9
  <2>10. i = n + 1 \/ i \in 1 .. n
    BY <2>7
  <2> QED BY <2>8, <2>9, <2>10
<1>17. SoundUntilHoled'
  BY <1>1 DEF SoundUntilHoled
<1>18. Abstract!Set(k, v, h)
  BY <1>1, <1>5, <1>6, <1>7 DEF Abstract!Set
<1> QED BY <1>11, <1>12, <1>13, <1>14, <1>15, <1>16, <1>17, <1>18 DEF MapInv

LEMMA SetOverflowsStep ==
  ASSUME MapInv, SetOverflows
  PROVE  MapInv' /\ UNCHANGED <<IndexedBindings, found>>
<1>1. /\ fate = "ok" /\ fate' = "corrupt" /\ sets' = sets + 1 /\ Len(index) >= IndexSize
      /\ index' = index /\ blocks' = blocks /\ indexSize' = indexSize /\ size' = size
      /\ waitFreed' = waitFreed /\ used' = used /\ found' = found /\ holed' = holed
  BY DEF SetOverflows
<1>2. IndexedBindings' = IndexedBindings
  BY <1>1, IndexedBindingsAre
<1>3. TypeInv'
  BY <1>1 DEF MapInv, TypeInv
<1>4. ConsistentInv' /\ MeasuredInv' /\ CountedInv' /\ WholeInv'
  BY <1>1, <1>2 DEF MapInv, ConsistentInv, MeasuredInv, CountedInv, WholeInv
<1>5. RoomInv'
  BY <1>1 DEF MapInv, RoomInv
<1>6. SoundUntilHoled'
  <2>1. Len(index) \in Nat
    BY Known
  <2>2. Len(index) >= MaxIndex
    BY <1>1, <2>1, IndexSizeIs DEF MapInv
  <2>3. Len(index) = sets
    BY <1>1 DEF MapInv, RoomInv
  <2>4. sets + 1 > MaxIndex
    BY <2>1, <2>2, <2>3, IndexAssumption
  <2> QED BY <1>1, <2>4 DEF SoundUntilHoled
<1> QED BY <1>1, <1>2, <1>3, <1>4, <1>5, <1>6 DEF MapInv

LEMMA GetStep ==
  ASSUME MapInv, NEW k \in Keys, Get(k)
  PROVE  MapInv' /\ Abstract!Get(k)
<1>1. /\ fate' = fate /\ sets' = sets /\ index' = index /\ blocks' = blocks
      /\ indexSize' = indexSize /\ size' = size /\ waitFreed' = waitFreed /\ used' = used
      /\ holed' = holed
      /\ found' = IF Matches(k) = {} THEN Missing
                  ELSE BlockAt(index[Min(Matches(k))].offset).value
  BY DEF Get
<1>2. IndexedBindings' = IndexedBindings
  BY <1>1, IndexedBindingsAre
<1>3. TypeInv' /\ ConsistentInv' /\ MeasuredInv' /\ CountedInv' /\ RoomInv' /\ WholeInv'
      /\ SoundUntilHoled'
  BY <1>1, <1>2 DEF MapInv, TypeInv, ConsistentInv, MeasuredInv, CountedInv, RoomInv, WholeInv,
     SoundUntilHoled
<1>4. PICK t \in Seq(Bindings) : t = IndexedBindings
  BY Known
<1>5. PICK r : Lists(r, t, index, blocks)
  BY <1>4, Known
<1>6. ConsistentInv /\ CountedInv /\ used \in Nat
  BY DEF MapInv, TypeInv
<1>7. /\ Matches(k) = {} <=> Of(t, k) = {}
      /\ Of(t, k) # {} => t[Min(Of(t, k))] = BindingIn(BlockAt(index[Min(Matches(k))].offset))
  BY <1>4, <1>5, <1>6, FindIs
<1>8. Abstract!Of(k) = Of(t, k)
  BY <1>4 DEF Abstract!Of, Of
<1>9. Abstract!Min(Of(t, k)) = Min(Of(t, k))
  BY DEF Abstract!Min, Min
<1>10. found' = IF Of(t, k) = {} THEN Missing ELSE t[Min(Of(t, k))].value
  <2>1. CASE Of(t, k) = {}
    BY <1>1, <1>7, <2>1
  <2>2. CASE Of(t, k) # {}
    <3>1. PICK b : b = BlockAt(index[Min(Matches(k))].offset)
      OBVIOUS
    <3>2. t[Min(Of(t, k))] = BindingIn(b)
      BY <1>7, <2>2, <3>1
    <3>3. BindingIn(b).value = b.value
      BY DEF BindingIn
    <3>4. found' = b.value
      BY <1>1, <1>7, <2>2, <3>1
    <3> QED BY <2>2, <3>2, <3>3, <3>4
  <2> QED BY <2>1, <2>2
<1>11. Abstract!Get(k)
  BY <1>2, <1>4, <1>8, <1>9, <1>10 DEF Abstract!Get
<1> QED BY <1>3, <1>11 DEF MapInv

\* DelIndex clears the entry Find has stopped at.
LEMMA DelIndexIs ==
  ASSUME ConsistentInv, NEW k \in Keys, NEW a \in LiveIn(index), index[a].hashcode = Hash[k],
         DelIndex(k, index[a].offset)
  PROVE  index' = WithoutEntry(index, a)
<1>1. index \in Seq(Entries) /\ Ordered(index)
  BY DEF ConsistentInv, Consistent
<1>2. PICK S : S = {j \in DOMAIN index :
                      index[j].hashcode = Hash[k] /\ index[j].offset = index[a].offset}
  OBVIOUS
<1>3. a \in DOMAIN index /\ index[a].hashcode # 0
  BY DEF LiveIn
<1>4. \A j \in S : j \in LiveIn(index) /\ index[j].offset = index[a].offset
  BY <1>2, <1>3 DEF LiveIn
<1>5. \A j \in DOMAIN index : j \in Nat /\ index[j].offset \in Nat
  <2>1. \A j \in DOMAIN index : j \in Nat /\ index[j] \in Entries
    BY <1>1
  <2> QED BY <2>1 DEF Entries
<1>6. \A j \in S : j = a
  <2>1. TAKE j \in S
  <2>2. j \in LiveIn(index) /\ j \in DOMAIN index /\ index[j].offset = index[a].offset
    BY <1>4 DEF LiveIn
  <2>3. ~(j < a) /\ ~(a < j)
    BY <1>1, <1>3, <1>5, <2>2 DEF Ordered
  <2> QED BY <1>3, <1>5, <2>2, <2>3
<1>7. S = {a}
  BY <1>2, <1>3, <1>6
<1>8. Min(S) = a
  <2>1. a <= a
    BY <1>3, <1>5
  <2> QED BY <1>7, <2>1 DEF Min
<1> QED BY <1>2, <1>8 DEF DelIndex, WithoutEntry

LEMMA DeleteStep ==
  ASSUME MapInv, NEW k \in Keys, Delete(k)
  PROVE  MapInv' /\ Abstract!Delete(k)
<1>1. PICK a : a = Min(Matches(k))
  OBVIOUS
<1>2. /\ fate = "ok" /\ fate' = "ok" /\ sets' = sets /\ indexSize' = indexSize /\ size' = size
      /\ used' = used - 1 /\ found' = found /\ holed' = holed
      /\ Matches(k) # {}
      /\ blocks' = WithoutBlock(blocks, index[a].offset)
      /\ waitFreed' = waitFreed + BlockAt(index[a].offset).length
      /\ DelIndex(k, index[a].offset)
  BY <1>1 DEF Delete, WithoutBlock
<1>3. /\ TypeInv /\ Consistent(index, blocks) /\ ConsistentInv /\ CountedInv /\ RoomInv
      /\ size = TotalLength(blocks) /\ waitFreed <= Weight(blocks, GoneIn(index, blocks))
      /\ Len(IndexedBindings) <= used
      /\ ~holed => \A i \in DOMAIN blocks : blocks[i].key # NoKey
  BY DEF MapInv, ConsistentInv, MeasuredInv, CountedInv, WholeInv
<1>4. PICK t \in Seq(Bindings) : t = IndexedBindings
  BY Known
<1>5. PICK r : Lists(r, t, index, blocks)
  BY <1>4, Known
<1>6. {indexSize, size, waitFreed, used, sets} \subseteq Nat
  BY <1>3 DEF TypeInv
<1>7. PICK q \in 1 .. Len(t) : q = Min(Of(t, k)) /\ r[q] = a /\ a \in Matches(k) /\ a \in LiveIn(index)
  BY <1>1, <1>2, <1>3, <1>4, <1>5, <1>6, FindIs
<1>8. index[a].hashcode = Hash[k]
  BY <1>7 DEF Matches
<1>9. PICK jx : jx = index' /\ jx = WithoutEntry(index, a)
  BY <1>2, <1>3, <1>7, <1>8, DelIndexIs
<1>10. PICK cs : cs = blocks' /\ cs = WithoutBlock(blocks, index[a].offset)
  BY <1>2
<1>11. PICK b : b = BlockAt(index[a].offset) /\ b = BlockIn(blocks, index[a].offset)
  BY DEF BlockAt, BlockIn
<1>12. /\ Consistent(jx, cs)
       /\ BindingsOf(jx, cs) = RemoveAt(t, q)
       /\ Len(jx) = Len(index)
       /\ TotalLength(cs) = TotalLength(blocks)
       /\ Weight(blocks, GoneIn(index, blocks)) + b.length <= Weight(cs, GoneIn(jx, cs))
       /\ DOMAIN cs = DOMAIN blocks /\ \A i \in DOMAIN blocks : cs[i].key = blocks[i].key
  BY <1>3, <1>5, <1>7, <1>9, <1>10, <1>11, DeleteKeeps
<1>13. IndexedBindings' = BindingsOf(jx, cs)
  BY <1>9, <1>10, IndexedBindingsAre
<1>14. b.length \in Nat
  <2>1. PICK i \in DOMAIN blocks : BlockIn(blocks, index[a].offset) = blocks[i]
    BY <1>3, <1>7, EntryIs
  <2> QED BY <1>11, <2>1, Known, LengthOf
<1>15. PICK w \in Nat : w = Len(t) /\ q \in 1 .. w
  OBVIOUS
<1>16. used - 1 \in Nat
  BY <1>3, <1>4, <1>6, <1>15
<1>17. TypeInv'
  BY <1>2, <1>3, <1>6, <1>11, <1>14, <1>16 DEF TypeInv
<1>18. ConsistentInv'
  BY <1>9, <1>10, <1>12 DEF ConsistentInv
<1>19. MeasuredInv'
  <2>1. PICK G : G = GoneIn(jx, cs)
    OBVIOUS
  <2>2. Weight(cs, G) \in Nat
    <3>1. cs \in Seq(Blocks)
      BY <1>12 DEF Consistent
    <3> QED BY <3>1, WeightIs
  <2>3. waitFreed + b.length <= Weight(cs, G)
    BY <1>3, <1>6, <1>12, <1>14, <2>1, <2>2, Known, SMTT(30)
  <2> QED BY <1>2, <1>3, <1>9, <1>10, <1>11, <1>12, <2>1, <2>3 DEF MeasuredInv
<1>20. CountedInv'
  <2>1. Len(RemoveAt(t, q)) = Len(t) - 1
    BY RemoveAtIs
  <2>2. Len(BindingsOf(jx, cs)) = w - 1
    BY <1>12, <1>15, <2>1
  <2>3. w <= used
    BY <1>3, <1>4, <1>15
  <2> QED BY <1>2, <1>6, <1>13, <2>2, <2>3 DEF CountedInv
<1>21. RoomInv'
  BY <1>2, <1>3, <1>9, <1>12 DEF RoomInv
<1>22. WholeInv'
  BY <1>2, <1>3, <1>10, <1>12 DEF WholeInv
<1>23. SoundUntilHoled'
  BY <1>2 DEF SoundUntilHoled
<1>24. Abstract!Delete(k)
  <2>1. Abstract!Of(k) = Of(t, k)
    BY <1>4 DEF Abstract!Of, Of
  <2>2. Abstract!Min(Of(t, k)) = q
    BY <1>7 DEF Abstract!Min, Min
  <2>3. Of(t, k) # {}
    BY <1>2, <1>3, <1>4, <1>5, <1>6, FindIs
  <2>4. Abstract!RemoveAt(t, q) = RemoveAt(t, q)
    BY DEF Abstract!RemoveAt, RemoveAt
  <2> QED BY <1>2, <1>4, <1>12, <1>13, <2>1, <2>2, <2>3, <2>4 DEF Abstract!Delete
<1> QED BY <1>17, <1>18, <1>19, <1>20, <1>21, <1>22, <1>23, <1>24 DEF MapInv

LEMMA ZipAllStep ==
  ASSUME MapInv, ZipAll
  PROVE  MapInv' /\ UNCHANGED <<IndexedBindings, found>>
<1>1. /\ fate = "ok" /\ size # 0 /\ size - waitFreed <= 0
      /\ fate' = fate /\ sets' = sets /\ index' = index /\ indexSize' = indexSize
      /\ size' = size /\ waitFreed' = waitFreed /\ used' = used /\ found' = found
      /\ holed' = TRUE /\ blocks' = <<Hole(size)>>
  BY DEF ZipAll, ZipsSomething
<1>2. /\ TypeInv /\ Consistent(index, blocks) /\ RoomInv
      /\ size = TotalLength(blocks) /\ waitFreed <= Weight(blocks, GoneIn(index, blocks))
      /\ Len(IndexedBindings) <= used
  BY DEF MapInv, ConsistentInv, MeasuredInv, CountedInv
<1>3. {indexSize, size, waitFreed, used, sets} \subseteq Nat
  BY <1>2 DEF TypeInv
<1>4. PICK G : G = GoneIn(index, blocks)
  OBVIOUS
<1>5. Weight(blocks, G) \in Nat /\ Weight(blocks, G) <= size /\ waitFreed <= Weight(blocks, G)
  BY <1>2, <1>4, Known
<1>6. TotalLength(blocks) <= Weight(blocks, GoneIn(index, blocks))
  BY <1>1, <1>2, <1>3, <1>4, <1>5
<1>7. PICK cs : cs = blocks' /\ cs = <<Hole(size)>>
  BY <1>1
<1>8. /\ Consistent(index, cs)
      /\ BindingsOf(index, blocks) = <<>> /\ BindingsOf(index, cs) = <<>>
      /\ TotalLength(cs) = size
      /\ Weight(cs, GoneIn(index, cs)) = size
  <2>1. size \in Nat \ {0}
    BY <1>1, <1>3
  <2> QED BY <1>2, <1>6, <1>7, <2>1, ZipAllKeeps
<1>9. IndexedBindings' = IndexedBindings
  BY <1>1, <1>7, <1>8, IndexedBindingsAre
<1>10. TypeInv'
  <2>1. holed' \in BOOLEAN
    BY <1>1
  <2> QED BY <1>1, <1>2, <2>1 DEF TypeInv
<1>11. ConsistentInv'
  BY <1>1, <1>7, <1>8 DEF ConsistentInv
<1>12. MeasuredInv'
  <2>1. waitFreed <= size
    BY <1>3, <1>5
  <2> QED BY <1>1, <1>7, <1>8, <2>1 DEF MeasuredInv
<1>13. CountedInv'
  BY <1>1, <1>2, <1>9 DEF CountedInv
<1>14. RoomInv'
  BY <1>1, <1>2 DEF RoomInv
<1>15. WholeInv' /\ SoundUntilHoled'
  BY <1>1 DEF WholeInv, SoundUntilHoled
<1> QED BY <1>1, <1>9, <1>10, <1>11, <1>12, <1>13, <1>14, <1>15 DEF MapInv

LEMMA ZipRestStep ==
  ASSUME MapInv, ZipRest
  PROVE  MapInv' /\ Abstract!Compress
<1>1. PICK kept : kept = Kept /\ kept = KeptOf(blocks)
  BY DEF Kept, KeptOf, Uncleared
<1>2. PICK rest : rest = size - waitFreed - TotalLength(kept)
  OBVIOUS
<1>3. PICK cs : cs = IF rest > 0 THEN Append(kept, Hole(rest)) ELSE kept
  OBVIOUS
<1>4. PICK jx : jx = IndexOf(index, kept)
  OBVIOUS
<1>5. /\ fate = "ok" /\ size - waitFreed > 0
      /\ fate' = fate /\ sets' = sets /\ indexSize' = indexSize /\ used' = used /\ found' = found
      /\ size' = size - waitFreed /\ waitFreed' = 0 /\ (holed' = (rest > 0))
      /\ blocks' = cs /\ index' = jx
  BY <1>1, <1>2, <1>3, <1>4 DEF ZipRest, ZipsSomething, WaitFreedAfterZip, IndexOf
<1>6. /\ TypeInv /\ Consistent(index, blocks) /\ RoomInv
      /\ size = TotalLength(blocks) /\ waitFreed <= Weight(blocks, GoneIn(index, blocks))
      /\ Len(IndexedBindings) <= used
  BY DEF MapInv, ConsistentInv, MeasuredInv, CountedInv
<1>7. {indexSize, size, waitFreed, used, sets} \subseteq Nat
  BY <1>6 DEF TypeInv
<1>8. rest \in Nat /\ TotalLength(kept) \in Nat
  <2>1. PICK w \in Nat : w = Weight(blocks, GoneIn(index, blocks))
    BY <1>6, Fits
  <2>2. PICK n \in Nat : n = TotalLength(kept)
    BY <1>1, <1>6, Fits
  <2>3. w + n <= size /\ waitFreed <= w
    BY <1>1, <1>6, <2>1, <2>2, Fits
  <2> QED BY <1>2, <1>7, <2>2, <2>3
<1>9. PICK t \in Seq(Bindings) : t = IndexedBindings /\ t = BindingsOf(index, blocks)
  BY Known
<1>10. /\ Consistent(jx, cs)
       /\ BindingsOf(jx, cs) = Only(t, {j \in DOMAIN t : t[j].hashcode \notin Fragile})
       /\ Len(BindingsOf(jx, cs)) <= Len(t)
       /\ Len(jx) = Len(index)
       /\ TotalLength(cs) = TotalLength(kept) + rest
       /\ rest = 0 => \A i \in DOMAIN cs : cs[i].key # NoKey
  BY <1>1, <1>3, <1>4, <1>6, <1>8, <1>9, ZipKeeps
<1>11. IndexedBindings' = BindingsOf(jx, cs)
  BY <1>5, IndexedBindingsAre
<1>12. TypeInv'
  <2>1. size - waitFreed \in Nat
    BY <1>5, <1>7
  <2>2. {indexSize', size', waitFreed', used', sets'} \subseteq Nat
    BY <1>5, <1>7, <2>1
  <2>3. holed' \in BOOLEAN
    BY <1>5
  <2> QED BY <1>5, <1>6, <2>2, <2>3 DEF TypeInv
<1>13. ConsistentInv'
  BY <1>5, <1>10 DEF ConsistentInv
<1>14. MeasuredInv'
  <2>1. size' = TotalLength(cs)
    BY <1>2, <1>5, <1>7, <1>8, <1>10
  <2>2. PICK G : G = GoneIn(jx, cs)
    OBVIOUS
  <2>3. Weight(cs, G) \in Nat
    <3>1. cs \in Seq(Blocks)
      BY <1>10 DEF Consistent
    <3> QED BY <3>1, WeightIs
  <2> QED BY <1>5, <2>1, <2>2, <2>3 DEF MeasuredInv
<1>15. CountedInv'
  <2>1. PICK w \in Nat : w = Len(t) /\ w <= used
    BY <1>6, <1>9
  <2>2. PICK x \in Nat : x = Len(BindingsOf(jx, cs))
    <3>1. BindingsOf(jx, cs) \in Seq(Bindings)
      BY <1>10, BindingsAre
    <3> QED BY <3>1
  <2>3. x <= w
    BY <1>10, <2>1, <2>2
  <2> QED BY <1>5, <1>7, <1>11, <2>1, <2>2, <2>3 DEF CountedInv
<1>16. RoomInv'
  BY <1>5, <1>6, <1>10 DEF RoomInv
<1>17. WholeInv'
  <2>1. ~holed' => ~(rest > 0)
    BY <1>5, Zenon
  <2>2. ~(rest > 0) => rest = 0
    BY <1>8
  <2> QED BY <1>5, <1>10, <2>1, <2>2 DEF WholeInv
<1>18. SoundUntilHoled'
  BY <1>5 DEF SoundUntilHoled
<1>19. Abstract!Compress
  <2>1. PICK P : P = {j \in DOMAIN t : t[j].hashcode \notin Fragile}
    OBVIOUS
  <2>2. Abstract!Only(t, P) = Only(t, P)
    BY DEF Abstract!Only, Only
  <2> QED BY <1>5, <1>9, <1>10, <1>11, <2>1, <2>2 DEF Abstract!Compress
<1> QED BY <1>12, <1>13, <1>14, <1>15, <1>16, <1>17, <1>18, <1>19 DEF MapInv

LEMMA ZipMisreadsStep ==
  ASSUME MapInv, ZipMisreads
  PROVE  MapInv' /\ UNCHANGED <<IndexedBindings, found>>
<1>1. /\ fate' = "corrupt" /\ sets' = sets /\ index' = index /\ blocks' = blocks
      /\ indexSize' = indexSize /\ size' = size /\ waitFreed' = waitFreed /\ used' = used
      /\ found' = found /\ holed' = holed
      /\ ~Aligned /\ fate = "ok"
  BY DEF ZipMisreads, ZipsSomething
<1>2. IndexedBindings' = IndexedBindings
  BY <1>1, IndexedBindingsAre
<1>3. TypeInv' /\ ConsistentInv' /\ MeasuredInv' /\ CountedInv' /\ RoomInv' /\ WholeInv'
  BY <1>1, <1>2 DEF MapInv, TypeInv, ConsistentInv, MeasuredInv, CountedInv, RoomInv, WholeInv
<1>4. holed
  <2>1. PICK i \in DOMAIN blocks : blocks[i].key = NoKey
    BY <1>1 DEF Aligned
  <2> QED BY <2>1 DEF MapInv, WholeInv
<1>5. SoundUntilHoled'
  BY <1>1, <1>4 DEF SoundUntilHoled
<1> QED BY <1>1, <1>2, <1>3, <1>5 DEF MapInv

LEMMA Step == MapInv /\ [Next]_vars => MapInv' /\ [Abstract!Next]_<<IndexedBindings, found>>
<1> SUFFICES ASSUME MapInv, [Next]_vars
             PROVE  MapInv' /\ [Abstract!Next]_<<IndexedBindings, found>>
  OBVIOUS
<1>1. CASE \E k \in Keys, v \in Values : \E h \in SetHashes[k] : Set(k, v, h)
  <2>1. PICK k \in Keys, v \in Values : \E h \in SetHashes[k] : Set(k, v, h)
    BY <1>1
  <2>2. PICK h \in SetHashes[k] : Set(k, v, h)
    BY <2>1
  <2>3. MapInv' /\ Abstract!Set(k, v, h)
    BY <2>2, SetStep
  <2> QED BY <2>3 DEF Abstract!Next
<1>2. CASE SetOverflows
  BY <1>2, SetOverflowsStep
<1>3. CASE \E k \in Keys : Get(k)
  <2>1. PICK k \in Keys : Get(k)
    BY <1>3
  <2>2. MapInv' /\ Abstract!Get(k)
    BY <2>1, GetStep
  <2> QED BY <2>2 DEF Abstract!Next
<1>4. CASE \E k \in Keys : Delete(k)
  <2>1. PICK k \in Keys : Delete(k)
    BY <1>4
  <2>2. MapInv' /\ Abstract!Delete(k)
    BY <2>1, DeleteStep
  <2> QED BY <2>2 DEF Abstract!Next
<1>5. CASE ZipAll
  BY <1>5, ZipAllStep
<1>6. CASE ZipRest
  BY <1>6, ZipRestStep DEF Abstract!Next
<1>7. CASE ZipMisreads
  BY <1>7, ZipMisreadsStep
<1>8. CASE UNCHANGED vars
  <2>1. /\ fate' = fate /\ sets' = sets /\ index' = index /\ blocks' = blocks
        /\ indexSize' = indexSize /\ size' = size /\ waitFreed' = waitFreed /\ used' = used
        /\ found' = found /\ holed' = holed
    BY <1>8 DEF vars
  <2>2. IndexedBindings' = IndexedBindings
    BY <2>1, IndexedBindingsAre
  <2> QED BY <2>1, <2>2 DEF MapInv, TypeInv, ConsistentInv, MeasuredInv, CountedInv, RoomInv,
        WholeInv, SoundUntilHoled
<1> QED BY <1>1, <1>2, <1>3, <1>4, <1>5, <1>6, <1>7, <1>8 DEF Next

LEMMA Always == Spec => []MapInv
<1>1. Init => MapInv
  BY Start
<1>2. MapInv /\ [Next]_vars => MapInv'
  BY Step
<1> QED BY <1>1, <1>2, PTL DEF Spec

-----------------------------------------------------------------------------
\* What Zip copies fits the buffer it has allocated (lines 130-162): the sizes of the
\* header add up over any sequence of Set, Delete and Zip.
THEOREM ZipFitsCorrect == Spec => []ZipFits
<1>1. ASSUME MapInv PROVE ZipFits
  <2>1. /\ Consistent(index, blocks) /\ size = TotalLength(blocks)
        /\ waitFreed <= Weight(blocks, GoneIn(index, blocks)) /\ waitFreed \in Nat
    BY <1>1 DEF MapInv, ConsistentInv, MeasuredInv, TypeInv
  <2>2. PICK w \in Nat : w = Weight(blocks, GoneIn(index, blocks))
    BY <2>1, Fits
  <2>3. PICK n \in Nat : n = TotalLength(Kept)
    BY <2>1, Fits DEF Kept, KeptOf, Uncleared
  <2>4. PICK l \in Nat : l = TotalLength(blocks)
    BY <1>1, Known
  <2>5. w + n <= l
    BY <2>1, <2>2, <2>3, <2>4, Fits DEF Kept, KeptOf, Uncleared
  <2>6. waitFreed + n <= l
    BY <2>1, <2>2, <2>5
  <2> QED BY <2>1, <2>3, <2>4, <2>6 DEF ZipFits
<1> QED BY <1>1, Always, PTL

\* Memory is corrupted only by more than max_size_ calls of Set in the life of a map,
\* or behind a Zip that has kept nothing or lost something (lines 130-162, 317-334).
THEOREM SoundUntilHoledCorrect == Spec => []SoundUntilHoled
<1>1. MapInv => SoundUntilHoled
  BY DEF MapInv
<1> QED BY <1>1, Always, PTL

\* A map is a list of bindings (lines 60-215): whatever codes Set files them under,
\* whichever collide and whatever is deleted or compressed, Find stops at the oldest
\* binding of a key that is filed under the hash code of the key.
THEOREM ImplementsBindingsCorrect == Spec => ImplementsBindings
<1>1. Init => Abstract!Init
  BY Start
<1>2. MapInv /\ [Next]_vars => [Abstract!Next]_<<IndexedBindings, found>>
  BY Step
<1> QED BY <1>1, <1>2, Always, PTL DEF Spec, ImplementsBindings, Abstract!Spec

=============================================================================
