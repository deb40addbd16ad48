---------------------- MODULE SimpleDynamicStringProofs ----------------------
(***************************************************************************)
(* Proofs about SimpleDynamicString, for any strings, bytes and inputs:    *)
(*   - a buffer always holds a terminator behind its text;                 *)
(*   - only copies promise room that they have not;                        *)
(*   - cutting cuts what it should, and undefined behaviour is met in the  *)
(*     listed ways only;                                                   *)
(*   - until then each call makes of the text what it makes of a sequence. *)
(* Every call but Move replaces one string.  A lemma for each says what it *)
(* makes of a sound string: a sound one, its text, and whether it promises *)
(* what it has.                                                            *)
(***************************************************************************)
EXTENDS SimpleDynamicString, SequenceTheorems, FiniteSetTheorems, WellFoundedInduction, TLAPS

Cells == Bytes \cup {Nul}

Records == [length : Nat, free : Nat, buffer : Seq(Cells)]

\* What the calls keep of a string.  The buffer is at most as long as length_ and
\* free_ say, and shorter in copies; it is longer than the text, and ends it.
Sound(x) ==
  /\ x \in Records
  /\ x.length <= MaxLength
  /\ x.length + x.free <= 4 * MaxLength
  /\ Len(x.buffer) <= x.length + x.free + 1
  /\ \/ x = Null
     \/ /\ x.length < Len(x.buffer)
        /\ \E i \in 1 .. x.length + 1 : x.buffer[i] = Nul

-----------------------------------------------------------------------------
(* Numbers *)

\* size_t, for what the calls add and subtract.
LEMMA Modulo ==
  ASSUME NEW n \in Int
  PROVE  /\ 0 <= n /\ n < Word => n % Word = n
         /\ n < 0 /\ -Word <= n => n % Word = n + Word
         /\ Word <= n /\ n < 2 * Word => n % Word = n - Word
<1>1. Word \in Nat /\ Word > 0
  BY WordAssumption
<1>2. \A k \in Int : 0 <= k /\ k < Word => k % Word = k
  BY <1>1
<1>3. n < 0 /\ -Word <= n => n % Word = n + Word
  BY <1>1
<1>4. Word <= n /\ n < 2 * Word => n % Word = n - Word
  BY <1>1
<1> QED BY <1>1, <1>2, <1>3, <1>4

\* Some numbers up to n have a least and a greatest one.
LEMMA LeastAndGreatest ==
  ASSUME NEW n \in Nat, NEW S \in SUBSET (1 .. n), S # {}
  PROVE  /\ Min(S) \in S /\ \A k \in S : Min(S) <= k
         /\ Max(S) \in S /\ \A k \in S : k <= Max(S)
<1> DEFINE R == StrictSubsetOrdering(S)
<1>1. IsFiniteSet(S)
  <2>1. IsFiniteSet(1 .. n)
    BY FS_Interval
  <2> QED BY <2>1, FS_Subset
<1>2. IsWellFoundedOn(R, FiniteSubsetsOf(S))
  BY <1>1, FS_StrictSubsetOrderingWellFounded
<1>3. ASSUME NEW f \in [S -> SUBSET S]
      PROVE  \E m \in S : \A k \in S : ~(f[k] \subseteq f[m] /\ f[k] # f[m])
  <2> DEFINE T == {f[k] : k \in S}
  <2>1. T \subseteq SUBSET S /\ T # {}
    BY <1>3
  <2>2. T \subseteq FiniteSubsetsOf(S)
    BY <1>1, <2>1, FS_Subset DEF FiniteSubsetsOf
  <2>3. PICK t \in T : \A u \in T : ~(<<u, t>> \in R)
    <3> HIDE DEF R, T
    <3> QED BY <1>2, <2>1, <2>2, WFMin
  <2>4. \A u \in T : ~(u \subseteq t /\ u # t)
    BY <2>2, <2>3 DEF StrictSubsetOrdering, FiniteSubsetsOf
  <2>5. PICK m \in S : t = f[m]
    OBVIOUS
  <2>6. \A k \in S : f[k] \in T
    OBVIOUS
  <2> HIDE DEF T
  <2> QED BY <2>4, <2>5, <2>6
<1>4. \E m \in S : \A k \in S : m <= k
  <2>1. PICK f \in [S -> SUBSET S] : \A k \in S : f[k] = {j \in S : j < k}
    <3>1. [k \in S |-> {j \in S : j < k}] \in [S -> SUBSET S]
      OBVIOUS
    <3> QED BY <3>1
  <2>2. PICK m \in S : \A k \in S : ~(f[k] \subseteq f[m] /\ f[k] # f[m])
    BY <1>3
  <2>3. ASSUME NEW k \in S, k < m PROVE FALSE
    <3>1. f[k] \subseteq f[m] /\ k \in f[m] /\ k \notin f[k]
      <4>1. f[k] = {j \in S : j < k} /\ f[m] = {j \in S : j < m}
        BY <2>1
      <4>2. (\A j \in S : j < k => j < m) /\ k < m /\ ~(k < k)
        BY <2>3
      <4> QED BY <4>1, <4>2
    <3> QED BY <2>2, <3>1
  <2> QED BY <2>2, <2>3
<1>5. \E m \in S : \A k \in S : k <= m
  <2>1. PICK f \in [S -> SUBSET S] : \A k \in S : f[k] = {j \in S : k < j}
    <3>1. [k \in S |-> {j \in S : k < j}] \in [S -> SUBSET S]
      OBVIOUS
    <3> QED BY <3>1
  <2>2. PICK m \in S : \A k \in S : ~(f[k] \subseteq f[m] /\ f[k] # f[m])
    BY <1>3
  <2>3. ASSUME NEW k \in S, m < k PROVE FALSE
    <3>1. f[k] \subseteq f[m] /\ k \in f[m] /\ k \notin f[k]
      <4>1. f[k] = {j \in S : k < j} /\ f[m] = {j \in S : m < j}
        BY <2>1
      <4>2. (\A j \in S : k < j => m < j) /\ m < k /\ ~(k < k)
        BY <2>3
      <4> QED BY <4>1, <4>2
    <3> QED BY <2>2, <3>1
  <2> QED BY <2>2, <2>3
<1>6. Min(S) \in S /\ \A k \in S : Min(S) <= k
  BY <1>4 DEF Min
<1>7. Max(S) \in S /\ \A k \in S : k <= Max(S)
  <2>1. \E m \in S : \A k \in S : m >= k
    BY <1>5
  <2>2. Max(S) \in S /\ \A k \in S : Max(S) >= k
    BY <2>1 DEF Max
  <2> QED BY <2>2
<1> QED BY <1>6, <1>7

-----------------------------------------------------------------------------
(* Strings *)

LEMMA Fields ==
  ASSUME NEW x, Sound(x)
  PROVE  /\ x.length \in 0 .. MaxLength /\ x.free \in Nat /\ x.buffer \in Seq(Cells)
         /\ Len(x.buffer) \in Nat /\ DOMAIN x.buffer = 1 .. Len(x.buffer)
         /\ x = [length |-> x.length, free |-> x.free, buffer |-> x.buffer]
         /\ \A i \in 1 .. Len(x.buffer) : x.buffer[i] \in Cells
         /\ x.length <= Len(x.buffer)
         /\ MaxLength \in Nat /\ Word \in Nat /\ Word > 6 * MaxLength + 4
<1>1. x.length \in Nat /\ x.free \in Nat /\ x.buffer \in Seq(Cells)
  BY DEF Sound, Records
<1>2. x = [length |-> x.length, free |-> x.free, buffer |-> x.buffer]
  BY DEF Sound, Records
<1>3. Len(x.buffer) \in Nat /\ DOMAIN x.buffer = 1 .. Len(x.buffer)
  BY <1>1
<1>4. x.length <= Len(x.buffer)
  BY <1>1, <1>3 DEF Sound, Null
<1> QED BY <1>1, <1>2, <1>3, <1>4, WordAssumption DEF Sound

LEMMA NullIsSound == Sound(Null) /\ Content(Null) = <<>> /\ Null.length = 0 /\ Null.free = 0
<1>1. Null.length = 0 /\ Null.free = 0 /\ Null.buffer = <<>>
  BY DEF Null
<1>2. Content(Null) = <<>>
  BY <1>1, SubSeqEmpty DEF Content
<1>3. <<>> \in Seq(Cells) /\ Len(<<>>) = 0
  OBVIOUS
<1>4. Null \in Records
  BY <1>3 DEF Null, Records
<1> QED BY <1>1, <1>2, <1>3, <1>4, WordAssumption DEF Sound

\* The text of a string, byte by byte.
LEMMA ContentIs ==
  ASSUME NEW x, x.buffer \in Seq(Cells), x.length \in Nat, x.length <= Len(x.buffer)
  PROVE  /\ Content(x) \in Seq(Cells)
         /\ Len(Content(x)) = x.length
         /\ DOMAIN Content(x) = 1 .. x.length
         /\ \A i \in 1 .. x.length : Content(x)[i] = x.buffer[i]
<1> DEFINE b == x.buffer  n == x.length
<1>1. \A i \in 1 .. n : b[i] \in Cells
  OBVIOUS
<1>2. n \in Nat
  OBVIOUS
<1> HIDE DEF b, n
<1>3. /\ SubSeq(b, 1, n) \in Seq(Cells)
      /\ Len(SubSeq(b, 1, n)) = IF 1 <= n THEN n - 1 + 1 ELSE 0
      /\ \A i \in 1 .. n - 1 + 1 : SubSeq(b, 1, n)[i] = b[1 + i - 1]
  BY <1>1, <1>2, SubSeqProperties, 1 \in Int
<1>4. Len(SubSeq(b, 1, n)) = n /\ n - 1 + 1 = n /\ \A i \in 1 .. n : 1 + i - 1 = i
  BY <1>2, <1>3
<1>5. \A i \in 1 .. n : SubSeq(b, 1, n)[i] = b[i]
  BY <1>3, <1>4
<1> DEFINE c == SubSeq(b, 1, n)
<1>6. Content(x) = c
  BY DEF Content, b, n
<1>7. c \in Seq(Cells) /\ Len(c) = n /\ \A i \in 1 .. n : c[i] = b[i]
  BY <1>3, <1>4, <1>5
<1> HIDE DEF c
<1>8. DOMAIN c = 1 .. n
  BY <1>7, LenProperties
<1> QED BY <1>6, <1>7, <1>8 DEF b, n

\* A string whose first bytes are those of t, and no more, has t as its text.
LEMMA ContentEquals ==
  ASSUME NEW x, x.buffer \in Seq(Cells), x.length \in Nat, x.length <= Len(x.buffer),
         NEW t \in Seq(Cells), Len(t) = x.length,
         \A i \in 1 .. x.length : x.buffer[i] = t[i]
  PROVE  Content(x) = t
<1> DEFINE c == Content(x)
<1>1. c \in Seq(Cells) /\ Len(c) = x.length /\ \A i \in 1 .. x.length : c[i] = x.buffer[i]
  BY ContentIs
<1> HIDE DEF c
<1>2. c = t
  BY <1>1, SeqEqual
<1> QED BY <1>2 DEF c

\* Sequences that agree between two positions have the same bytes there.
LEMMA SameSlices ==
  ASSUME NEW t, NEW v, NEW low \in Int, NEW high \in Int,
         \A i \in low .. high : t[i] = v[i] /\ t[i] \in Cells
  PROVE  /\ SubSeq(t, low, high) = SubSeq(v, low, high)
         /\ Len(SubSeq(t, low, high)) = IF low <= high THEN high - low + 1 ELSE 0
<1> DEFINE p == SubSeq(t, low, high)  q == SubSeq(v, low, high)  n == high - low + 1
<1>1. /\ p \in Seq(Cells) /\ Len(p) = IF low <= high THEN n ELSE 0
      /\ \A i \in 1 .. n : p[i] = t[low + i - 1]
  BY SubSeqProperties
<1>2. \A i \in low .. high : v[i] \in Cells
  OBVIOUS
<1>3. /\ q \in Seq(Cells) /\ Len(q) = IF low <= high THEN n ELSE 0
      /\ \A i \in 1 .. n : q[i] = v[low + i - 1]
  BY <1>2, SubSeqProperties
<1> HIDE DEF p, q
<1>4. \A i \in 1 .. n : p[i] = q[i]
  BY <1>1, <1>3
<1>5. \A i \in 1 .. Len(p) : p[i] = q[i]
  BY <1>1, <1>4
<1>6. p = q
  BY <1>1, <1>3, <1>5, SeqEqual
<1> QED BY <1>1, <1>6 DEF p, q

\* Freshly allocated, value-initialized bytes.
LEMMA ZerosAre ==
  ASSUME NEW n \in Nat
  PROVE  Zeros(n) \in Seq(Cells) /\ Len(Zeros(n)) = n /\ \A i \in 1 .. n : Zeros(n)[i] = Nul
BY DEF Zeros, Cells

-----------------------------------------------------------------------------
(* What each call makes of a string *)

LEMMA CreatedIs ==
  ASSUME NEW t \in Seq(Bytes), Len(t) <= MaxLength
  PROVE  Sound(Created(t)) /\ Readable(Created(t)) /\ Promised(Created(t)) /\ Content(Created(t)) = t
<1> DEFINE n == Len(t)  b == Append(t, Nul)
<1>1. n \in Nat /\ t \in Seq(Cells) /\ Nul \in Cells
  BY DEF Cells
<1>2. b \in Seq(Cells) /\ Len(b) = n + 1 /\ b[n + 1] = Nul /\ \A i \in 1 .. n : b[i] = t[i]
  BY <1>1
<1>3. Created(t) = [length |-> n, free |-> 0, buffer |-> b]
  BY DEF Created
<1> HIDE DEF n, b
<1>4. PICK x : x = [length |-> n, free |-> 0, buffer |-> b]
  OBVIOUS
<1>5. x.length = n /\ x.free = 0 /\ x.buffer = b
  BY <1>4
<1>6. x \in Records
  BY <1>1, <1>2, <1>4 DEF Records
<1>7. Content(x) = t
  BY <1>1, <1>2, <1>5, ContentEquals DEF n
<1>8. n <= MaxLength /\ MaxLength \in Nat
  BY WordAssumption DEF n
<1>9. Sound(x) /\ Readable(x) /\ Promised(x)
  BY <1>1, <1>2, <1>5, <1>6, <1>8 DEF Sound, Readable, Promised
<1> QED BY <1>3, <1>4, <1>7, <1>9

\* MakeRoomFor leaves the text alone, and leaves the room that was asked for: it is
\* there if it was there where free_ said so.
LEMMA RoomyIs ==
  ASSUME NEW x, Sound(x), NEW n \in 0 .. MaxLength
  PROVE  LET y == Roomy(x, n) IN
         /\ Sound(y) /\ Readable(y)
         /\ y.length = x.length /\ n <= y.free /\ Content(y) = Content(x)
         /\ y = x \/ (y # Null /\ Promised(y))
<1>1. CASE x.free >= n
  <2>1. Roomy(x, n) = x
    BY <1>1 DEF Roomy
  <2>2. Readable(x)
    BY DEF Sound, Readable
  <2> QED BY <1>1, <2>1, <2>2
<1>2. CASE ~(x.free >= n)
  <2> DEFINE l == x.length  c == Content(x)  k == Capacity(x, n) + 1 - l  z == Zeros(k)
             f == Capacity(x, n) - l
  <2>1. /\ l \in 0 .. MaxLength /\ MaxLength \in Nat
        /\ c \in Seq(Cells) /\ Len(c) = l /\ \A i \in 1 .. l : c[i] = x.buffer[i]
    BY Fields, ContentIs
  <2>2. k = l + 2 * n + 1 /\ f = l + 2 * n
    BY <2>1 DEF Capacity
  <2>3. z \in Seq(Cells) /\ Len(z) = k /\ \A i \in 1 .. k : z[i] = Nul
    <3>1. k \in Nat
      BY <2>1, <2>2
    <3> HIDE DEF k
    <3> QED BY <3>1, ZerosAre
  <2>4. Roomy(x, n) = [length |-> l, free |-> f, buffer |-> c \o z]
    BY <1>2 DEF Roomy
  <2> HIDE DEF l, c, k, z, f
  <2>5. PICK b : b = c \o z
    OBVIOUS
  <2>6. /\ b \in Seq(Cells) /\ Len(b) = l + k
        /\ \A i \in 1 .. l + k : b[i] = IF i <= l THEN c[i] ELSE z[i - l]
    <3> HIDE DEF Zeros, Content
    <3>1. /\ c \o z \in Seq(Cells) /\ Len(c \o z) = Len(c) + Len(z)
          /\ \A i \in 1 .. Len(c) + Len(z) : (c \o z)[i] = IF i <= Len(c) THEN c[i] ELSE z[i - Len(c)]
      BY <2>1, <2>3, ConcatProperties
    <3>2. Len(c) = l /\ Len(z) = k
      BY <2>1, <2>3
    <3> QED BY <2>5, <3>1, <3>2
  <2>7. PICK y : y = [length |-> l, free |-> f, buffer |-> b]
    OBVIOUS
  <2>8. y.length = l /\ y.free = f /\ y.buffer = b
    BY <2>7
  <2>9. b[l + 1] = Nul
    <3>1. l + 1 \in 1 .. l + k /\ ~(l + 1 <= l) /\ l + 1 - l = 1 /\ 1 \in 1 .. k
      BY <2>1, <2>2
    <3>2. b[l + 1] = z[l + 1 - l]
      BY <2>1, <2>2, <2>6, <3>1
    <3> QED BY <2>3, <3>1, <3>2
  <2>10. y \in Records
    BY <2>1, <2>2, <2>6, <2>7 DEF Records
  <2>11. l < Len(b) /\ Len(b) = l + f + 1 /\ l + f <= 4 * MaxLength /\ n <= f
    BY <2>1, <2>2, <2>6
  <2>12. Content(y) = c
    <3>1. \A i \in 1 .. l : b[i] = c[i]
      BY <2>1, <2>2, <2>6
    <3>2. l <= Len(b) /\ l \in Nat
      BY <2>1, <2>11
    <3> QED BY <2>1, <2>6, <2>8, <3>1, <3>2, ContentEquals
  <2>13. Sound(y) /\ Readable(y)
    BY <2>1, <2>8, <2>9, <2>10, <2>11 DEF Sound, Readable
  <2>14. y # Null /\ Promised(y)
    <3>1. f \in Nat /\ Len(b) \in Nat /\ Len(b) # 0
      BY <2>1, <2>2, <2>11
    <3>2. b # <<>>
      BY <2>6, <3>1
    <3> QED BY <2>1, <2>8, <2>11, <3>1, <3>2 DEF Promised, Null
  <2>15. y = Roomy(x, n)
    BY <2>4, <2>5, <2>7
  <2> QED BY <2>8, <2>11, <2>12, <2>13, <2>14, <2>15 DEF l, c
<1> QED BY <1>1, <1>2

\* Bytes for which there is room are appended to the text.
LEMMA AppendedIs ==
  ASSUME NEW x, Sound(x), NEW t \in Seq(Cells), Len(t) <= x.free, HasRoom(x, Len(t)),
         x.length + Len(t) <= MaxLength
  PROVE  LET y == Appended(x, t) IN
         /\ Sound(y) /\ Readable(y)
         /\ Content(y) = Content(x) \o t
         /\ Promised(x) => Promised(y)
<1> DEFINE l == x.length  c == Content(x)  m == Len(t)  b == x.buffer
           r == SubSeq(b, l + m + 2, Len(b))
<1>1. /\ l \in 0 .. MaxLength /\ MaxLength \in Nat /\ x.free \in Nat /\ Len(b) \in Nat
      /\ c \in Seq(Cells) /\ Len(c) = l
      /\ \A i \in 1 .. Len(b) : b[i] \in Cells
  BY Fields, ContentIs
<1>2. m \in Nat /\ m <= x.free /\ l + m < Len(b) /\ Len(b) <= l + x.free + 1 /\ l + m <= MaxLength
      /\ l + x.free <= 4 * MaxLength
  BY DEF HasRoom, Sound
<1>3. Appended(x, t) = [length |-> l + m, free |-> x.free - m, buffer |-> c \o t \o <<Nul>> \o r]
  BY DEF Appended
<1>4. r \in Seq(Cells) /\ Len(r) = Len(b) - (l + m + 1)
  <2> HIDE DEF l, m, b
  <2>1. l + m + 2 \in Int /\ Len(b) \in Int /\ \A i \in l + m + 2 .. Len(b) : b[i] \in Cells
    BY <1>1, <1>2
  <2>2. /\ r \in Seq(Cells)
        /\ Len(r) = IF l + m + 2 <= Len(b) THEN Len(b) - (l + m + 2) + 1 ELSE 0
    BY <2>1, SubSeqProperties
  <2> HIDE DEF r
  <2> QED BY <1>1, <1>2, <2>2
<1>5. <<Nul>> \in Seq(Cells) /\ Len(<<Nul>>) = 1 /\ <<Nul>>[1] = Nul
  BY DEF Cells
<1>6. Len(t) = m
  OBVIOUS
<1> HIDE DEF l, c, m, b, r
<1>7. PICK d : d = c \o t
  OBVIOUS
<1>8. /\ d \in Seq(Cells) /\ Len(d) = l + m
  BY <1>1, <1>6, <1>7, ConcatProperties
<1>9. PICK e : e = d \o <<Nul>>
  OBVIOUS
<1>10. /\ e \in Seq(Cells) /\ Len(e) = l + m + 1
       /\ \A i \in 1 .. l + m + 1 : e[i] = IF i <= l + m THEN d[i] ELSE <<Nul>>[i - (l + m)]
  BY <1>5, <1>8, ConcatProperties, <1>9
<1>11. PICK g : g = e \o r
  OBVIOUS
<1>12. /\ g \in Seq(Cells) /\ Len(g) = Len(e) + Len(r)
       /\ \A i \in 1 .. Len(e) + Len(r) : g[i] = IF i <= Len(e) THEN e[i] ELSE r[i - Len(e)]
  BY <1>4, <1>10, <1>11, ConcatProperties
<1>13. Len(g) = Len(b)
  BY <1>1, <1>2, <1>4, <1>10, <1>12
<1>14. (\A i \in 1 .. l + m : g[i] = d[i]) /\ g[l + m + 1] = Nul
  <2>1. PICK q \in Nat : q = l + m
    BY <1>1, <1>2
  <2>2. \A i \in 1 .. q + 1 : g[i] = e[i]
    <3>1. Len(e) = q + 1 /\ Len(r) \in Nat
      BY <1>4, <1>10, <2>1
    <3>2. \A i \in 1 .. q + 1 : i \in 1 .. Len(e) + Len(r) /\ i <= Len(e)
      BY <3>1
    <3> QED BY <1>12, <3>1, <3>2
  <2>3. \A i \in 1 .. q : i \in 1 .. q + 1 /\ i <= q
    OBVIOUS
  <2>4. q + 1 \in 1 .. q + 1 /\ ~(q + 1 <= q) /\ q + 1 - q = 1
    OBVIOUS
  <2>5. \A i \in 1 .. q + 1 : e[i] = IF i <= q THEN d[i] ELSE <<Nul>>[i - q]
    BY <1>10, <2>1
  <2>6. \A i \in 1 .. q : g[i] = d[i]
    BY <2>2, <2>3, <2>5
  <2>7. e[q + 1] = <<Nul>>[q + 1 - q]
    BY <2>4, <2>5
  <2>8. g[q + 1] = Nul
    BY <1>5, <2>2, <2>4, <2>7
  <2> QED BY <2>1, <2>6, <2>8
<1>15. PICK y : y = [length |-> l + m, free |-> x.free - m, buffer |-> g]
  OBVIOUS
<1>16. y.length = l + m /\ y.free = x.free - m /\ y.buffer = g
  BY <1>15
<1>17. y \in Records
  <2>1. l + m \in Nat /\ x.free - m \in Nat
    BY <1>1, <1>2
  <2> QED BY <1>12, <1>15, <2>1 DEF Records
<1>18. Content(y) = d
  <2>1. l + m \in Nat /\ l + m <= Len(g)
    BY <1>1, <1>2, <1>13
  <2> QED BY <1>8, <1>12, <1>14, <1>16, <2>1, ContentEquals
<1>19. Sound(y) /\ Readable(y)
  BY <1>1, <1>2, <1>13, <1>14, <1>16, <1>17, SMTT(30) DEF Sound, Readable
<1>20. Promised(x) => Promised(y)
  <2>1. x # Null
    BY <1>1, <1>2 DEF Null, b
  <2>2. Promised(x) => l + x.free < Len(b)
    BY <2>1 DEF Promised, l, b
  <2> QED BY <1>1, <1>2, <1>13, <1>16, <2>2 DEF Promised
<1>21. y = Appended(x, t)
  BY <1>3, <1>7, <1>9, <1>11, <1>15
<1> QED BY <1>7, <1>18, <1>19, <1>20, <1>21 DEF c

\* Bytes replaced in place.
LEMMA Overwritten ==
  ASSUME NEW b \in Seq(Cells), NEW g, DOMAIN g = DOMAIN b, g = [i \in DOMAIN b |-> g[i]],
         \A i \in 1 .. Len(b) : g[i] \in Cells
  PROVE  g \in Seq(Cells) /\ Len(g) = Len(b)
<1>1. Len(b) \in Nat /\ DOMAIN b = 1 .. Len(b)
  OBVIOUS
<1>2. g \in [1 .. Len(b) -> Cells]
  BY <1>1
<1> QED BY <1>1, <1>2

\* Range keeps what is between start and end, wherever length_ and free_ come from,
\* and the buffer (lines 203-220).
LEMMA RangedIs ==
  ASSUME NEW x, Sound(x), x # Null, NEW start \in Nat, NEW end \in Nat,
         start <= end, end <= x.length
  PROVE  LET y == Ranged(x, start, end) IN
         /\ Sound(y) /\ Readable(y)
         /\ Content(y) = SubSeq(Content(x), start + 1, end)
         /\ Promised(x) => Promised(y)
<1> DEFINE l == x.length  f == x.free  b == x.buffer  c == Content(x)
           last == EndOfRange(start, end)  cut == CutOff(x, start, end)
           kept == IF start = 0 THEN <<>> ELSE SubSeq(b, start + 1, end)
           t == SubSeq(c, start + 1, end)
<1>1. /\ l \in 0 .. MaxLength /\ f \in Nat /\ b \in Seq(Cells) /\ Len(b) \in Nat
      /\ DOMAIN b = 1 .. Len(b) /\ \A i \in 1 .. Len(b) : b[i] \in Cells
      /\ MaxLength \in Nat /\ Word \in Nat /\ Word > 6 * MaxLength + 4
  BY Fields
<1>2. l + f <= 4 * MaxLength /\ Len(b) <= l + f + 1 /\ l < Len(b)
  BY DEF Sound
<1>3. c \in Seq(Cells) /\ Len(c) = l /\ \A i \in 1 .. l : c[i] = b[i]
  <2>1. x.buffer \in Seq(Cells) /\ x.length \in Nat /\ x.length <= Len(x.buffer)
    BY Fields
  <2> QED BY <2>1, ContentIs
<1>4. last = end - start
  BY DEF EndOfRange
<1>5. cut = l - end + start
  <2>1. 0 <= l - end + start /\ l - end + start < Word /\ l - end + start \in Int
    <3>1. l \in Int /\ end <= l /\ l <= MaxLength /\ MaxLength \in Nat /\ Word > 6 * MaxLength + 4
          /\ Word \in Int
      BY <1>1
    <3> HIDE DEF l
    <3> QED BY <3>1
  <2> QED BY <2>1, Modulo DEF CutOff
<1>6. (l - cut) % Word = end - start /\ (f + cut) % Word = f + l - end + start
  <2> HIDE DEF cut, l, f
  <2>1. l - cut = end - start /\ 0 <= end - start /\ end - start < Word
    BY <1>1, <1>5 DEF l
  <2>2. f + cut = f + l - end + start /\ 0 <= f + l - end + start /\ f + l - end + start < Word
    BY <1>1, <1>2, <1>5, SMTT(30) DEF l
  <2>3. (end - start) % Word = end - start
    BY <2>1, Modulo
  <2>4. (f + l - end + start) % Word = f + l - end + start
    BY <1>1, <2>2, Modulo
  <2> QED BY <2>1, <2>2, <2>3, <2>4
<1>7. /\ Len(kept) = IF start = 0 THEN 0 ELSE end - start
      /\ \A i \in 1 .. Len(kept) : kept[i] = b[start + i]
  <2>1. CASE start = 0
    BY <1>1, <2>1
  <2>2. CASE start # 0
    <3> HIDE DEF b
    <3> DEFINE k == SubSeq(b, start + 1, end)
    <3>1. \A i \in start + 1 .. end : b[i] \in Cells
      <4> HIDE DEF l, f, c, t, last, cut, kept, k
      <4>1. l \in Int /\ end <= l /\ l < Len(b) /\ Len(b) \in Int
        BY <1>1, <1>2 DEF l
      <4>2. \A i \in start + 1 .. end : i \in 1 .. Len(b)
        BY <4>1
      <4> QED BY <1>1, <4>2
    <3>2. /\ Len(k) = IF start + 1 <= end THEN end - (start + 1) + 1 ELSE 0
          /\ \A i \in 1 .. end - (start + 1) + 1 : k[i] = b[start + 1 + i - 1]
      BY <3>1, SubSeqProperties
    <3> HIDE DEF k
    <3>3. Len(k) = end - start /\ \A i \in 1 .. end - start : k[i] = b[start + i]
      BY <3>2
    <3> QED BY <2>2, <3>3 DEF k
  <2> QED BY <2>1, <2>2
<1>8. t \in Seq(Cells) /\ Len(t) = end - start /\ \A i \in 1 .. end - start : t[i] = b[start + i]
  <2> HIDE DEF c, b
  <2>1. \A i \in start + 1 .. end : c[i] \in Cells /\ c[i] = b[i]
    <3> HIDE DEF l, f, t, last, cut, kept
    <3>1. l \in Int /\ end <= l
      BY <1>1 DEF l
    <3>2. \A i \in start + 1 .. end : i \in 1 .. l
      BY <3>1
    <3>3. \A i \in 1 .. l : c[i] \in Cells
      BY <1>3
    <3> QED BY <1>3, <3>2, <3>3
  <2>2. /\ t \in Seq(Cells)
        /\ Len(t) = IF start + 1 <= end THEN end - (start + 1) + 1 ELSE 0
        /\ \A i \in 1 .. end - (start + 1) + 1 : t[i] = c[start + 1 + i - 1]
    BY <2>1, SubSeqProperties
  <2> HIDE DEF t
  <2>3. Len(t) = end - start
    BY <2>2
  <2>4. \A i \in 1 .. end - start : t[i] = c[start + i] /\ start + i \in start + 1 .. end
    BY <2>2
  <2> QED BY <2>1, <2>2, <2>3, <2>4
<1>9. PICK g : g = [i \in DOMAIN b |->
                     IF i = last + 1 THEN Nul ELSE IF i <= Len(kept) THEN kept[i] ELSE b[i]]
  OBVIOUS
<1>10. Ranged(x, start, end) = [length |-> end - start, free |-> f + l - end + start, buffer |-> g]
  BY <1>6, <1>9 DEF Ranged
<1> HIDE DEF l, f, b, c, last, cut, kept, t
<1>11. /\ g[end - start + 1] = Nul
       /\ \A i \in 1 .. end - start : g[i] = b[start + i]
       /\ \A i \in 1 .. Len(b) : g[i] \in Cells
  <2>1. \A i \in 1 .. Len(b) :
          g[i] = IF i = end - start + 1 THEN Nul ELSE IF i <= Len(kept) THEN kept[i] ELSE b[i]
    BY <1>1, <1>4, <1>9
  <2>2. end - start + 1 \in 1 .. Len(b) /\ \A i \in 1 .. end - start : i \in 1 .. Len(b)
    BY <1>1, <1>2 DEF l
  <2>3. \A i \in 1 .. end - start : start + i \in 1 .. Len(b)
    BY <1>1, <1>2 DEF l
  <2>4. \A i \in 1 .. end - start : g[i] = b[start + i]
    BY <1>7, <2>1, <2>2
  <2>5. \A i \in 1 .. Len(b) : i # end - start + 1 => g[i] = b[i] \/ i \in 1 .. end - start
    BY <1>7, <2>1
  <2>6. ASSUME NEW i \in 1 .. Len(b) PROVE g[i] \in Cells
    <3>1. CASE i = end - start + 1
      BY <2>1, <3>1 DEF Cells
    <3>2. CASE i \in 1 .. end - start
      BY <1>1, <2>3, <2>4, <3>2
    <3>3. CASE g[i] = b[i]
      BY <1>1, <3>3
    <3> QED BY <2>5, <3>1, <3>2, <3>3
  <2> QED BY <2>1, <2>2, <2>4, <2>6
<1>12. g \in Seq(Cells) /\ Len(g) = Len(b)
  <2>1. DOMAIN g = DOMAIN b /\ g = [i \in DOMAIN b |-> g[i]]
    BY <1>9
  <2> QED BY <1>1, <1>11, <2>1, Overwritten
<1>13. PICK y : y = [length |-> end - start, free |-> f + l - end + start, buffer |-> g]
  OBVIOUS
<1>14. y.length = end - start /\ y.free = f + l - end + start /\ y.buffer = g
  BY <1>13
<1>15. /\ end - start \in 0 .. MaxLength /\ f + l - end + start \in Nat
       /\ end - start + (f + l - end + start) = l + f /\ end - start < Len(g)
  <2>1. l \in Int /\ end <= l /\ l <= MaxLength /\ MaxLength \in Nat /\ f \in Nat
    BY <1>1 DEF l
  <2>2. l < Len(b) /\ Len(g) = Len(b) /\ Len(b) \in Int
    BY <1>1, <1>2, <1>12
  <2> QED BY <2>1, <2>2
<1>16. y \in Records
  BY <1>12, <1>13, <1>15 DEF Records
<1>17. \E i \in 1 .. y.length + 1 : y.buffer[i] = Nul
  BY <1>11, <1>14, <1>15
<1>18. y.length <= MaxLength /\ y.length + y.free = l + f /\ y.length < Len(y.buffer)
       /\ Len(y.buffer) = Len(b)
  BY <1>12, <1>14, <1>15
<1>19. Sound(y) /\ Readable(y)
  BY <1>2, <1>16, <1>17, <1>18 DEF Sound, Readable
<1>20. Content(y) = t
  <2>1. y.length \in Nat /\ y.length <= Len(y.buffer) /\ y.buffer \in Seq(Cells) /\ Len(t) = y.length
    BY <1>1, <1>8, <1>12, <1>14, <1>15
  <2>2. \A i \in 1 .. y.length : y.buffer[i] = t[i]
    BY <1>8, <1>11, <1>14
  <2> QED BY <1>8, <2>1, <2>2, ContentEquals
<1>21. Promised(x) => Promised(y)
  BY <1>18 DEF Promised, l, f, b
<1> QED BY <1>10, <1>13, <1>19, <1>20, <1>21 DEF t, c

\* What Range makes of the results of failed searches (lines 193-198): a string of
\* one terminator, where there is a byte for it.
LEMMA EmptiedIs ==
  ASSUME NEW x, Sound(x), x # Null
  PROVE  LET y == Ranged(x, Word - 1, 0) IN
         /\ ~Readable(y) => Len(x.buffer) = 1
         /\ Readable(y) => Sound(y) /\ Content(y) = <<Nul>> /\ (Promised(x) => Promised(y))
<1> DEFINE l == x.length  f == x.free  b == x.buffer  cut == CutOff(x, Word - 1, 0)
<1>1. /\ l \in 0 .. MaxLength /\ f \in Nat /\ b \in Seq(Cells) /\ Len(b) \in Nat
      /\ DOMAIN b = 1 .. Len(b) /\ \A i \in 1 .. Len(b) : b[i] \in Cells
      /\ MaxLength \in Nat /\ Word \in Nat /\ Word > 6 * MaxLength + 4
  BY Fields
<1>2. l + f <= 4 * MaxLength /\ Len(b) <= l + f + 1 /\ l < Len(b)
  BY DEF Sound
<1>3. EndOfRange(Word - 1, 0) = 0
  BY <1>1 DEF EndOfRange
<1>4. cut = (l + Word - 1) % Word
  <2>1. l - 0 + (Word - 1) = l + Word - 1
    BY <1>1
  <2> QED BY <2>1 DEF CutOff
<1>5. SubSeq(b, Word - 1 + 1, 0) = <<>>
  BY <1>1, SubSeqEmpty
<1>6. PICK g : g = [i \in DOMAIN b |-> IF i = 1 THEN Nul ELSE b[i]]
  OBVIOUS
<1>7. Ranged(x, Word - 1, 0) = [length |-> (l - cut) % Word, free |-> (f + cut) % Word, buffer |-> g]
  <2>1. (Word - 1 = 0) = FALSE /\ 0 + 1 = 1
    BY <1>1
  <2>2. PICK kept : kept = <<>>
    OBVIOUS
  <2>3. \A i \in DOMAIN b : ~(i <= Len(kept))
    BY <1>1, <2>2
  <2>4. g = [i \in DOMAIN b |-> IF i = 0 + 1 THEN Nul ELSE IF i <= Len(kept) THEN kept[i] ELSE b[i]]
    BY <1>6, <2>1, <2>3
  <2>5. kept = IF Word - 1 = 0 THEN <<>> ELSE SubSeq(b, Word - 1 + 1, 0)
    BY <1>5, <2>1, <2>2
  <2> HIDE DEF l, f, b
  <2> QED BY <1>3, <2>4, <2>5 DEF Ranged, l, f, b
<1> HIDE DEF l, f, b, cut
<1>8. (l - cut) % Word = 1
  <2>1. CASE l = 0
    <3>1. cut = Word - 1
      BY <1>1, <1>4, <2>1, Modulo
    <3>2. l - cut = 1 - Word /\ 1 - Word < 0 /\ -Word <= 1 - Word /\ 1 - Word + Word = 1
      BY <1>1, <2>1, <3>1
    <3> QED BY <1>1, <3>2, Modulo
  <2>2. CASE l # 0
    <3>1. l + Word - 1 >= Word /\ l + Word - 1 < 2 * Word /\ l + Word - 1 - Word = l - 1
      BY <1>1, <2>2
    <3>2. cut = l - 1
      BY <1>1, <1>4, <3>1, Modulo
    <3>3. l - cut = 1
      BY <1>1, <3>2
    <3> QED BY <1>1, <3>3, Modulo
  <2> QED BY <2>1, <2>2
<1>9. l + f # 0 => (f + cut) % Word = f + l - 1
  <2>1. CASE l = 0
    <3>1. cut = Word - 1
      BY <1>1, <1>4, <2>1, Modulo
    <3>2. l + f # 0 => f + cut >= Word /\ f + cut < 2 * Word /\ f + cut - Word = f + l - 1
      BY <1>1, <1>2, <2>1, <3>1
    <3> QED BY <1>1, <3>1, <3>2, Modulo
  <2>2. CASE l # 0
    <3>1. l + Word - 1 >= Word /\ l + Word - 1 < 2 * Word /\ l + Word - 1 - Word = l - 1
      BY <1>1, <2>2
    <3>2. cut = l - 1
      BY <1>1, <1>4, <3>1, Modulo
    <3>3. f + cut = f + l - 1 /\ 0 <= f + l - 1 /\ f + l - 1 < Word
      BY <1>1, <1>2, <2>2, <3>2
    <3> QED BY <1>1, <3>2, <3>3, Modulo
  <2> QED BY <2>1, <2>2
<1>10. PICK y : y = [length |-> 1, free |-> (f + cut) % Word, buffer |-> g]
  OBVIOUS
<1>11. y.length = 1 /\ y.free = (f + cut) % Word /\ y.buffer = g
  BY <1>10
<1>12. /\ DOMAIN g = DOMAIN b /\ g = [i \in DOMAIN b |-> g[i]]
       /\ \A i \in 1 .. Len(b) : g[i] \in Cells
       /\ g[1] = Nul
  BY <1>1, <1>2, <1>6 DEF Cells
<1>13. g \in Seq(Cells) /\ Len(g) = Len(b)
  BY <1>1, <1>12, Overwritten
<1>14. y # Null
  BY <1>11 DEF Null
<1>15. Readable(y) <=> 1 < Len(b)
  BY <1>11, <1>13, <1>14 DEF Readable
<1>16. ASSUME 1 < Len(b)
       PROVE  Sound(y) /\ Content(y) = <<Nul>> /\ (Promised(x) => Promised(y))
  <2>1. l + f # 0 /\ 1 <= MaxLength
    BY <1>1, <1>2, <1>16
  <2>2. y.free = f + l - 1 /\ f + l - 1 \in Nat
    BY <1>1, <1>9, <1>11, <2>1
  <2>3. y \in Records
    BY <1>10, <1>11, <1>13, <2>2 DEF Records
  <2>4. y.length + y.free = l + f
    BY <1>1, <1>11, <2>2
  <2>5. \E i \in 1 .. y.length + 1 : y.buffer[i] = Nul
    BY <1>11, <1>12
  <2>6. Sound(y)
    BY <1>1, <1>2, <1>11, <1>13, <1>16, <2>1, <2>3, <2>4, <2>5 DEF Sound
  <2>7. PICK t : t = <<Nul>>
    OBVIOUS
  <2>8. t \in Seq(Cells) /\ Len(t) = 1 /\ t[1] = Nul
    BY <2>7 DEF Cells
  <2>9. Content(y) = t
    <3>1. y.length \in Nat /\ y.length <= Len(y.buffer) /\ y.buffer \in Seq(Cells)
      BY <1>1, <1>11, <1>13, <1>16
    <3>2. \A i \in 1 .. y.length : y.buffer[i] = t[i]
      BY <1>11, <1>12, <2>8
    <3> QED BY <1>11, <2>8, <3>1, <3>2, ContentEquals
  <2>10. Promised(x) => Promised(y)
    BY <1>11, <1>13, <2>4 DEF Promised, l, f, b
  <2> QED BY <2>6, <2>7, <2>9, <2>10
<1>17. y = Ranged(x, Word - 1, 0)
  BY <1>7, <1>8, <1>10
<1>18. ~(1 < Len(b)) => Len(b) = 1
  BY <1>1, <1>2
<1> QED BY <1>15, <1>16, <1>17, <1>18 DEF b

\* The first terminator, where find_first_not_of and the like stop.
LEMMA CStringIs ==
  ASSUME NEW x, Sound(x), x # Null
  PROVE  \E e \in 0 .. x.length :
           /\ CString(x) = SubSeq(x.buffer, 1, e)
           /\ DOMAIN CString(x) = 1 .. e
           /\ Text!Visible(Content(x)) = CString(x)
<1> DEFINE l == x.length  b == x.buffer  c == Content(x)
           ends == {i \in DOMAIN b : b[i] = Nul}
           early == {i \in DOMAIN c : c[i] = Nul}
<1>1. /\ l \in 0 .. MaxLength /\ b \in Seq(Cells) /\ Len(b) \in Nat /\ DOMAIN b = 1 .. Len(b)
      /\ \A i \in 1 .. Len(b) : b[i] \in Cells
      /\ l < Len(b) /\ MaxLength \in Nat
  BY Fields DEF Sound
<1>2. c \in Seq(Cells) /\ DOMAIN c = 1 .. l /\ \A i \in 1 .. l : c[i] = b[i]
  BY <1>1, ContentIs
<1>3. PICK i \in 1 .. l + 1 : b[i] = Nul
  BY DEF Sound
<1>4. i \in ends
  BY <1>1, <1>3
<1>5. PICK m : m = Min(ends)
  OBVIOUS
<1>6. m \in ends /\ \A k \in ends : m <= k
  <2>1. ends \in SUBSET (1 .. Len(b)) /\ ends # {}
    BY <1>1, <1>4
  <2> HIDE DEF ends
  <2> QED BY <1>1, <1>5, <2>1, LeastAndGreatest
<1>7. m \in 1 .. l + 1
  BY <1>1, <1>4, <1>6
<1>8. CString(x) = SubSeq(b, 1, m - 1)
  BY <1>5 DEF CString
<1> HIDE DEF l, b, c
<1>9. DOMAIN SubSeq(b, 1, m - 1) = 1 .. m - 1
  <2> DEFINE s == SubSeq(b, 1, m - 1)
  <2>1. m - 1 \in Int /\ \A k \in 1 .. m - 1 : b[k] \in Cells
    BY <1>1, <1>7
  <2>2. s \in Seq(Cells) /\ Len(s) = IF 1 <= m - 1 THEN m - 1 - 1 + 1 ELSE 0
    BY <2>1, SubSeqProperties, 1 \in Int
  <2> HIDE DEF s
  <2>3. Len(s) = m - 1 /\ DOMAIN s = 1 .. Len(s)
    BY <1>1, <1>7, <2>2
  <2> QED BY <2>3 DEF s
<1>10. Text!Visible(c) = SubSeq(b, 1, m - 1)
  <2>1. CASE m = l + 1
    <3>1. early = {}
      BY <1>1, <1>2, <1>6, <2>1
    <3>2. c = SubSeq(b, 1, m - 1)
      <4>1. m - 1 = l
        BY <1>1, <2>1
      <4> QED BY <4>1 DEF Content, l, b, c
    <3> QED BY <3>1, <3>2 DEF Text!Visible
  <2>2. CASE m # l + 1
    <3>1. m \in early /\ \A k \in early : m <= k
      BY <1>1, <1>2, <1>6, <1>7, <2>2
    <3>2. early \in SUBSET (1 .. l) /\ early # {}
      BY <1>2, <3>1
    <3>3. Min(early) = m
      <4> HIDE DEF early
      <4>1. l \in Nat
        BY <1>1
      <4>2. PICK k : k = Min(early)
        OBVIOUS
      <4>3. k \in early /\ \A j \in early : k <= j
        BY <3>2, <4>1, <4>2, LeastAndGreatest
      <4>4. k \in 1 .. l /\ m \in 1 .. l
        BY <3>1, <3>2, <4>3
      <4>5. k <= m /\ m <= k
        BY <3>1, <4>3
      <4> QED BY <4>1, <4>2, <4>4, <4>5
    <3>4. Text!Visible(c) = SubSeq(c, 1, m - 1)
      <4>1. Text!Min(early) = Min(early)
        BY DEF Text!Min, Min
      <4>2. Text!Visible(c) = IF early = {} THEN c ELSE SubSeq(c, 1, Text!Min(early) - 1)
        BY DEF Text!Visible
      <4> HIDE DEF early
      <4> QED BY <3>2, <3>3, <4>1, <4>2
    <3>5. SubSeq(c, 1, m - 1) = SubSeq(b, 1, m - 1)
      <4>1. m - 1 \in Int /\ \A k \in 1 .. m - 1 : c[k] = b[k] /\ c[k] \in Cells
        BY <1>1, <1>2, <1>7, <2>2
      <4> QED BY <4>1, SameSlices, 1 \in Int
    <3> QED BY <3>4, <3>5
  <2> QED BY <2>1, <2>2
<1>11. m - 1 \in 0 .. l
  BY <1>1, <1>7
<1> QED BY <1>8, <1>9, <1>10, <1>11 DEF l, b, c

\* Trim2 leaves what is between the first byte that is not c and the last, of what
\* readers of C strings see.
LEMMA TrimmedIs ==
  ASSUME NEW x, Sound(x), x # Null, NEW c
  PROVE  LET y == Trimmed(x, c) IN
         /\ ~Readable(y) => Len(x.buffer) = 1
         /\ Readable(y) => /\ Sound(y) /\ (Promised(x) => Promised(y))
                           /\ Content(y) = Text!Inner(Text!Visible(Content(x)), c)
<1> DEFINE v == CString(x)
           others == {i \in DOMAIN v : x.buffer[i] # c}
           theirs == {i \in DOMAIN v : v[i] # c}
<1>1. PICK e \in 0 .. x.length : /\ v = SubSeq(x.buffer, 1, e) /\ DOMAIN v = 1 .. e
                                 /\ Text!Visible(Content(x)) = v
  BY CStringIs
<1>2. /\ x.length \in 0 .. MaxLength /\ x.buffer \in Seq(Cells) /\ MaxLength \in Nat
      /\ x.length < Len(x.buffer) /\ \A i \in 1 .. Len(x.buffer) : x.buffer[i] \in Cells
      /\ Len(x.buffer) \in Nat
  BY Fields DEF Sound
<1>3. e \in Nat /\ e <= x.length /\ e \in Int
  BY <1>1, <1>2
<1>4. \A i \in 1 .. e : v[i] = x.buffer[i]
  <2> DEFINE b == x.buffer  s == SubSeq(b, 1, e)
  <2>1. \A k \in 1 .. e : b[k] \in Cells
    BY <1>2, <1>3
  <2> HIDE DEF b
  <2>2. \A k \in 1 .. e - 1 + 1 : s[k] = b[1 + k - 1]
    BY <1>3, <2>1, SubSeqProperties, 1 \in Int
  <2> HIDE DEF s
  <2>3. \A k \in 1 .. e : s[k] = b[k]
    BY <1>3, <2>2
  <2> QED BY <1>1, <2>3 DEF s, b
<1>5. others = theirs
  BY <1>1, <1>4
<1>6. Text!Inner(v, c) = IF theirs = {} THEN <<Nul>> ELSE SubSeq(v, Text!Min(theirs), Text!Max(theirs))
  BY DEF Text!Inner
<1>7. Text!Min(theirs) = Min(theirs) /\ Text!Max(theirs) = Max(theirs)
  BY DEF Text!Min, Text!Max, Min, Max
<1>8. Trimmed(x, c) =
        IF others = {} THEN Ranged(x, Word - 1, 0) ELSE Ranged(x, Min(others) - 1, Max(others))
  BY DEF Trimmed
<1>9. others \in SUBSET (1 .. e)
  BY <1>1
<1> HIDE DEF others, theirs
<1>10. CASE others = {}
  <2>1. Trimmed(x, c) = Ranged(x, Word - 1, 0) /\ Text!Inner(v, c) = <<Nul>>
    BY <1>5, <1>6, <1>8, <1>10
  <2> QED BY <1>1, <2>1, EmptiedIs
<1>11. CASE others # {}
  <2>1. PICK low, high : low = Min(others) /\ high = Max(others)
    OBVIOUS
  <2>2. low \in others /\ high \in others /\ low <= high
    BY <1>3, <1>9, <1>11, <2>1, LeastAndGreatest
  <2>3. low \in 1 .. e /\ high \in 1 .. e
    BY <1>9, <2>2
  <2>4. low - 1 \in Nat /\ high \in Nat /\ low - 1 <= high /\ high <= x.length /\ low - 1 + 1 = low
    BY <1>2, <1>3, <2>2, <2>3
  <2>5. Trimmed(x, c) = Ranged(x, low - 1, high)
    BY <1>8, <1>11, <2>1
  <2>6. PICK y : y = Ranged(x, low - 1, high)
    OBVIOUS
  <2>7. /\ Sound(y) /\ Readable(y) /\ (Promised(x) => Promised(y))
        /\ Content(y) = SubSeq(Content(x), low - 1 + 1, high)
    BY <2>4, <2>6, RangedIs
  <2>8. Text!Inner(v, c) = SubSeq(v, low, high)
    BY <1>5, <1>6, <1>7, <1>11, <2>1
  <2>9. SubSeq(Content(x), low, high) = SubSeq(v, low, high)
    <3>1. \A i \in 1 .. x.length : Content(x)[i] = x.buffer[i]
      BY <1>2, ContentIs
    <3>2. \A i \in low .. high : Content(x)[i] = v[i] /\ Content(x)[i] \in Cells
      BY <1>2, <1>3, <1>4, <2>3, <3>1
    <3>3. low \in Int /\ high \in Int
      BY <2>3
    <3> QED BY <3>2, <3>3, SameSlices
  <2> QED BY <1>1, <2>4, <2>5, <2>6, <2>7, <2>8, <2>9
<1> QED BY <1>10, <1>11

\* A Range that ends before it starts leaves a length_ that no buffer has.
LEMMA BackwardsIs ==
  ASSUME NEW x, Sound(x), NEW start \in 0 .. MaxLength, NEW end \in 0 .. MaxLength,
         end < start, end <= x.length
  PROVE  ~Readable(Ranged(x, start, end))
<1> DEFINE l == x.length  b == x.buffer  y == Ranged(x, start, end)  cut == CutOff(x, start, end)
<1>1. /\ l \in 0 .. MaxLength /\ b \in Seq(Cells) /\ Len(b) \in Nat /\ DOMAIN b = 1 .. Len(b)
      /\ MaxLength \in Nat /\ Word \in Nat /\ Word > 6 * MaxLength + 4
  BY Fields
<1>2. Len(b) <= 4 * MaxLength + 1
  BY Fields DEF Sound
<1>3. cut = l - end + start
  <2>1. l - end + start \in Int /\ 0 <= l - end + start /\ l - end + start < Word
    <3> HIDE DEF l
    <3> QED BY <1>1
  <2> QED BY <2>1, Modulo DEF CutOff
<1>4. y.length = (l - cut) % Word
  BY DEF Ranged
<1>5. Len(y.buffer) = Len(b)
  <2>1. PICK g : y.buffer = [i \in 1 .. Len(b) |-> g[i]]
    <3>1. y.buffer = [i \in 1 .. Len(b) |-> y.buffer[i]]
      BY <1>1 DEF Ranged
    <3> QED BY <3>1
  <2>2. Len([i \in 1 .. Len(b) |-> g[i]]) = Len(b)
    BY <1>1
  <2> QED BY <2>1, <2>2
<1> HIDE DEF y, cut, l, b
<1>6. y.length = end - start + Word
  <2>1. l - cut = end - start /\ end - start \in Int /\ end - start < 0 /\ -Word <= end - start
    BY <1>1, <1>3
  <2> QED BY <1>4, <2>1, Modulo
<1>7. y.length > Len(b) /\ y.length # 0
  BY <1>1, <1>2, <1>6
<1> QED BY <1>1, <1>5, <1>6, <1>7 DEF Readable, Null, y

\* A string starts with what its buffer starts with, up to its length.
LEMMA PrefixIs ==
  ASSUME NEW x, Sound(x), NEW c \in Inputs, Len(c) < x.length, IsPrefix(c, x.buffer)
  PROVE  IsPrefix(c, Content(x))
<1> DEFINE b == x.buffer  n == Len(c)
<1>1. /\ x.length \in 0 .. MaxLength /\ b \in Seq(Cells) /\ x.length <= Len(b) /\ MaxLength \in Nat
      /\ Len(b) \in Nat /\ \A i \in 1 .. Len(b) : b[i] \in Cells
  BY Fields
<1>2. n \in Nat /\ n < x.length
  BY InputsAssumption
<1>3. Len(Content(x)) = x.length /\ \A i \in 1 .. x.length : Content(x)[i] = b[i]
  BY <1>1, ContentIs
<1>4. SubSeq(Content(x), 1, n) = SubSeq(b, 1, n)
  <2> HIDE DEF b
  <2>1. \A i \in 1 .. n : Content(x)[i] = b[i] /\ Content(x)[i] \in Cells
    BY <1>1, <1>2, <1>3
  <2> QED BY <1>2, <2>1, SameSlices, 1 \in Int
<1> QED BY <1>1, <1>2, <1>3, <1>4 DEF IsPrefix

\* A copy has the text, as much free_ as the original, and no spare byte; a copy of
\* itself has lost the text.
LEMMA CopiedIs ==
  ASSUME NEW s \in Strings, NEW o \in Strings, Sound(strings[o])
  PROVE  LET y == Copied(s, o)
             t == Content(strings[o]) IN
         /\ Sound(y) /\ Readable(y)
         /\ Content(y) = IF s = o THEN [i \in DOMAIN t |-> Nul] ELSE t
         /\ ~Promised(y) => strings[o].free > 0
<1> DEFINE x == strings[o]  l == x.length  f == x.free  t == Content(x)
           u == IF s = o THEN Zeros(l) ELSE t
<1>1. /\ l \in 0 .. MaxLength /\ f \in Nat /\ l + f <= 4 * MaxLength /\ MaxLength \in Nat
      /\ x.buffer \in Seq(Cells) /\ l <= Len(x.buffer)
      /\ x = [length |-> l, free |-> f, buffer |-> x.buffer]
  BY Fields DEF Sound
<1>2. t \in Seq(Cells) /\ Len(t) = l /\ DOMAIN t = 1 .. l
  BY <1>1, ContentIs
<1>3. u = IF s = o THEN [i \in DOMAIN t |-> Nul] ELSE t
  BY <1>2 DEF Zeros
<1>4. u \in Seq(Cells) /\ Len(u) = l
  BY <1>1, <1>2, ZerosAre
<1>5. CASE l = 0
  <2>1. Copied(s, o) = Null
    BY <1>5 DEF Copied
  <2>2. u = <<>>
    BY <1>4, <1>5, EmptySeq
  <2> QED BY <1>3, <2>1, <2>2, NullIsSound DEF Readable, Promised
<1>6. CASE l # 0
  <2>1. PICK g : g = Append(u, Nul)
    OBVIOUS
  <2>2. /\ g \in Seq(Cells) /\ Len(g) = l + 1 /\ g[l + 1] = Nul /\ \A i \in 1 .. l : g[i] = u[i]
    <3> HIDE DEF u
    <3>1. Nul \in Cells
      BY DEF Cells
    <3> QED BY <1>1, <1>4, <2>1, <3>1
  <2>3. Copied(s, o) = [length |-> l, free |-> f, buffer |-> g]
    <3>1. Copied(s, o) = [x EXCEPT !.buffer = g]
      BY <1>6, <2>1 DEF Copied
    <3> QED BY <1>1, <3>1
  <2> HIDE DEF x, l, f, t, u
  <2>4. PICK y : y = [length |-> l, free |-> f, buffer |-> g]
    OBVIOUS
  <2>5. y.length = l /\ y.free = f /\ y.buffer = g
    BY <2>4
  <2>6. y \in Records
    BY <1>1, <2>2, <2>4 DEF Records
  <2>7. Sound(y) /\ Readable(y)
    BY <1>1, <2>2, <2>5, <2>6 DEF Sound, Readable
  <2>8. Content(y) = u
    BY <1>1, <1>4, <2>2, <2>5, ContentEquals, SMTT(30)
  <2>9. ~Promised(y) => f > 0
    BY <1>1, <2>2, <2>5 DEF Promised
  <2> QED BY <1>3, <2>3, <2>4, <2>7, <2>8, <2>9 DEF x, f, t
<1> QED BY <1>5, <1>6

\* ToLower and ToUpper map the text, byte by byte.
LEMMA RecasedIs ==
  ASSUME NEW x, Sound(x), NEW f \in CaseMaps
  PROVE  LET y == [x EXCEPT !.buffer = [i \in DOMAIN @ |-> IF i <= x.length THEN f[@[i]] ELSE @[i]]]
         IN  /\ Sound(y) /\ Readable(y)
             /\ Content(y) = [i \in DOMAIN Content(x) |-> f[Content(x)[i]]]
             /\ Promised(x) => Promised(y)
<1> DEFINE l == x.length  b == x.buffer  t == [i \in DOMAIN Content(x) |-> f[Content(x)[i]]]
<1>1. /\ l \in 0 .. MaxLength /\ x.free \in Nat /\ b \in Seq(Cells) /\ Len(b) \in Nat
      /\ DOMAIN b = 1 .. Len(b) /\ \A i \in 1 .. Len(b) : b[i] \in Cells
      /\ MaxLength \in Nat /\ l <= Len(b)
      /\ x = [length |-> l, free |-> x.free, buffer |-> b]
  BY Fields
<1>2. DOMAIN Content(x) = 1 .. l /\ \A i \in 1 .. l : Content(x)[i] = b[i]
  BY <1>1, ContentIs
<1>3. f[Nul] = Nul /\ \A e \in Cells : f[e] \in Cells
  BY CaseAssumption DEF Cells
<1>4. PICK g : g = [i \in DOMAIN b |-> IF i <= l THEN f[b[i]] ELSE b[i]]
  OBVIOUS
<1>5. PICK y : y = [length |-> l, free |-> x.free, buffer |-> g]
  OBVIOUS
<1>6. y = [x EXCEPT !.buffer = [i \in DOMAIN @ |-> IF i <= x.length THEN f[@[i]] ELSE @[i]]]
  <2>1. [x EXCEPT !.buffer = [i \in DOMAIN @ |-> IF i <= x.length THEN f[@[i]] ELSE @[i]]]
        = [x EXCEPT !.buffer = g]
    BY <1>4
  <2>2. [x EXCEPT !.buffer = g] = [length |-> l, free |-> x.free, buffer |-> g]
    BY <1>1
  <2> QED BY <1>5, <2>1, <2>2
<1>7. y.length = l /\ y.free = x.free /\ y.buffer = g
  BY <1>5
<1>8. g \in Seq(Cells) /\ Len(g) = Len(b)
  <2>1. DOMAIN g = DOMAIN b /\ g = [i \in DOMAIN b |-> g[i]]
    BY <1>4
  <2>2. \A i \in 1 .. Len(b) : g[i] \in Cells
    BY <1>1, <1>3, <1>4
  <2> QED BY <1>1, <2>1, <2>2, Overwritten
<1>9. t \in Seq(Cells) /\ Len(t) = l /\ \A i \in 1 .. l : g[i] = t[i]
  <2>1. t = [i \in 1 .. l |-> f[b[i]]]
    BY <1>2
  <2>2. t \in [1 .. l -> Cells]
    BY <1>1, <1>3, <2>1
  <2>3. \A i \in 1 .. l : g[i] = f[b[i]]
    BY <1>1, <1>4
  <2> HIDE DEF t
  <2> QED BY <1>1, <2>1, <2>2, <2>3
<1>10. Content(y) = t
  <2>1. /\ y.buffer \in Seq(Cells) /\ y.length \in Nat /\ y.length <= Len(y.buffer)
        /\ Len(t) = y.length /\ \A i \in 1 .. y.length : y.buffer[i] = t[i]
    BY <1>1, <1>7, <1>8, <1>9
  <2> HIDE DEF l, b, t
  <2> QED BY <1>9, <2>1, ContentEquals
<1>11. y \in Records
  BY <1>1, <1>5, <1>8 DEF Records
<1>12. CASE x = Null
  <2>1. l = 0 /\ b = <<>> /\ x.free = 0
    BY <1>12 DEF Null
  <2>2. g = <<>>
    BY <1>8, <2>1, EmptySeq
  <2>3. y = Null
    BY <1>5, <2>1, <2>2 DEF Null
  <2> QED BY <1>6, <1>10, <2>3, NullIsSound DEF Readable, Promised
<1>13. CASE x # Null
  <2>1. l < Len(b) /\ l + x.free <= 4 * MaxLength /\ Len(b) <= l + x.free + 1
    BY <1>13 DEF Sound
  <2>2. PICK i \in 1 .. l + 1 : b[i] = Nul
    BY <1>13 DEF Sound
  <2>3. g[i] = Nul
    BY <1>1, <1>3, <1>4, <2>1, <2>2
  <2>4. Sound(y) /\ Readable(y)
    BY <1>1, <1>7, <1>8, <1>11, <2>1, <2>2, <2>3 DEF Sound, Readable
  <2>5. Promised(x) => Promised(y)
    BY <1>7, <1>8, <1>13 DEF Promised
  <2> QED BY <1>6, <1>10, <2>4, <2>5
<1> QED BY <1>12, <1>13

-----------------------------------------------------------------------------
(* The invariant, and what every step keeps *)

SoundInv ==
  /\ strings = [s \in Strings |-> strings[s]]
  /\ \A s \in Strings : Sound(strings[s])

\* How undefined behaviour may be met by call: what AstrayExplained says of astray.
Explained(call) ==
  LET x == strings[call[2]] IN
  \/ x = Null /\ call[1] \in {"Range", "Trim2"}
  \/ x = Null /\ call[1] \in {"Append", "AppendView"} /\ call[3] = <<>>
  \/ x = Null /\ call[1] = "AppendString" /\ Content(strings[call[3]]) = <<>>
  \/ ~Promised(x) /\ call[1] \in {"Append", "AppendView", "AppendString"}
  \/ call[1] = "AppendString" /\ call[3] = call[2] /\ x.free < x.length
  \/ call[1] = "AppendView" /\ ~call[4]
  \/ call[1] = "Range" /\ call[4] < call[3]
  \/ call[1] = "Trim" /\ IsPrefix(call[3], Content(x))
  \/ call[1] = "Trim2" /\ Len(x.buffer) = 1

\* What RoomPromised says of one step, for x in the place of s.
RoomKept(s, x) ==
  ~Promised(x) =>
    \/ ~Promised(strings[s])
    \/ \E o \in Strings : x = strings[o] /\ ~Promised(strings[o])
    \/ \E o \in Strings : x = Copied(s, o) /\ strings[o].free > 0

RoomStep == \A s \in Strings : RoomKept(s, strings'[s])

\* What a step does to the whole: everything but its text is said here.
Kept == SoundInv' /\ RoomStep /\ AstrayExplained'

\* A call that replaces one string.
LEMMA Doing ==
  ASSUME SoundInv, NEW s \in Strings, NEW call, NEW safe \in BOOLEAN, NEW x,
         Do(call, s, safe, x), call # <<"none">>, call[2] = s,
         safe /\ Readable(x) => Sound(x) /\ RoomKept(s, x),
         ~(safe /\ Readable(x)) => Explained(call)
  PROVE  /\ Kept
         /\ UNCHANGED Contents \/ (Readable(x) /\ Contents' = [Contents EXCEPT ![s] = Content(x)])
<1>1. CASE safe /\ Readable(x)
  <2>1. strings' = [strings EXCEPT ![s] = x] /\ astray' = <<"none">>
    BY <1>1 DEF Do
  <2>2. /\ strings' = [q \in Strings |-> strings'[q]] /\ strings'[s] = x
        /\ \A q \in Strings : q # s => strings'[q] = strings[q]
    BY <2>1 DEF SoundInv
  <2>3. SoundInv'
    BY <1>1, <2>2 DEF SoundInv
  <2>4. RoomStep
    BY <1>1, <2>2 DEF RoomStep, RoomKept
  <2>5. AstrayExplained'
    BY <2>1 DEF AstrayExplained
  <2>6. Contents' = [Contents EXCEPT ![s] = Content(x)]
    <3>1. \A q \in Strings : Content(strings'[q]) = IF q = s THEN Content(x) ELSE Content(strings[q])
      BY <2>2
    <3>2. Contents' = [q \in Strings |-> Content(strings'[q])]
      BY DEF Contents, Content
    <3> QED BY <3>1, <3>2 DEF Contents
  <2> QED BY <1>1, <2>3, <2>4, <2>5, <2>6 DEF Kept
<1>2. CASE ~(safe /\ Readable(x))
  <2>1. strings' = strings /\ astray' = call
    BY <1>2 DEF Do
  <2>2. SoundInv'
    BY <2>1 DEF SoundInv
  <2>3. RoomStep
    BY <2>1 DEF RoomStep, RoomKept
  <2>4. AstrayExplained'
    <3>1. Explained(astray)'
      BY <1>2, <2>1 DEF Explained, Promised, Content
    <3> QED BY <3>1 DEF AstrayExplained, Explained
  <2>5. UNCHANGED Contents
    BY <2>1 DEF Contents
  <2> QED BY <2>2, <2>3, <2>4, <2>5 DEF Kept
<1> QED BY <1>1, <1>2

\* The step that an action makes of the text of s, unless it goes astray.
Shows(s, t) == UNCHANGED Contents \/ Contents' = [Contents EXCEPT ![s] = t]

LEMMA InputsAre ==
  ASSUME NEW t \in Inputs
  PROVE  t \in Seq(Bytes) /\ t \in Seq(Cells) /\ Len(t) <= MaxLength
BY InputsAssumption DEF Cells

\* Appending goes astray only where a string has not the room it promises, or where
\* it is a null pointer, and nothing is appended.
LEMMA AppendKept ==
  ASSUME SoundInv, NEW s \in Strings, NEW call,
         call # <<"none">>, call[1] \in {"Append", "AppendView", "AppendString"}, call[2] = s,
         NEW t \in Seq(Cells), NEW safe \in BOOLEAN, AppendTo(call, s, t, safe),
         ~safe \/ (strings[s] = Null /\ t = <<>>) => Explained(call)
  PROVE  Kept /\ Shows(s, Content(strings[s]) \o t)
<1> DEFINE x == strings[s]  n == Len(t)  z == Roomy(x, n)  y == Appended(z, t)
           fits == safe /\ HasRoom(z, n)
<1>1. Sound(x) /\ x.length \in 0 .. MaxLength /\ n \in Nat /\ x.length + n <= MaxLength /\ MaxLength \in Nat
  BY Fields DEF SoundInv, AppendTo
<1>2. n \in 0 .. MaxLength
  BY <1>1
<1>3. /\ Sound(z) /\ Readable(z) /\ z.length = x.length /\ n <= z.free /\ Content(z) = Content(x)
      /\ z = x \/ (z # Null /\ Promised(z))
  <2> HIDE DEF n, x
  <2> QED BY <1>1, <1>2, RoomyIs
<1>4. Do(call, s, fits, y)
  BY DEF AppendTo
<1>5. HasRoom(z, n) => /\ Sound(y) /\ Readable(y) /\ Content(y) = Content(x) \o t
                       /\ Promised(z) => Promised(y)
  <2> HIDE DEF z
  <2> QED BY <1>1, <1>3, AppendedIs
<1>6. z # Null /\ Promised(z) => HasRoom(z, n)
  <2>1. z.length \in Nat /\ z.free \in Nat /\ Len(z.buffer) \in Nat
    BY <1>1, <1>3, Fields
  <2> HIDE DEF z, n
  <2> QED BY <1>1, <1>3, <2>1 DEF Promised, HasRoom
<1>7. fits /\ Readable(y) => Sound(y) /\ RoomKept(s, y)
  BY <1>3, <1>5 DEF RoomKept
<1>8. ~(fits /\ Readable(y)) => Explained(call)
  <2>1. CASE ~safe
    BY <2>1
  <2>2. CASE ~HasRoom(z, n)
    <3>1. z = x /\ (x = Null \/ ~Promised(x))
      BY <1>3, <1>6, <2>2
    <3>2. CASE x = Null
      <4>1. n = 0
        BY <1>1, <1>3, <3>1, <3>2, NullIsSound
      <4>2. t = <<>>
        BY <4>1, EmptySeq
      <4> QED BY <3>2, <4>2
    <3>3. CASE ~Promised(x)
      BY <3>3 DEF Explained
    <3> QED BY <3>1, <3>2, <3>3
  <2> QED BY <1>5, <2>1, <2>2
<1>9. fits \in BOOLEAN
  OBVIOUS
<1> HIDE DEF y, fits, x
<1>10. Kept /\ (UNCHANGED Contents \/ (Readable(y) /\ Contents' = [Contents EXCEPT ![s] = Content(y)]))
  BY <1>4, <1>7, <1>8, <1>9, Doing DEF x
<1>11. CASE HasRoom(z, n)
  BY <1>5, <1>10, <1>11 DEF Shows, x
<1>12. CASE ~HasRoom(z, n)
  <2>1. UNCHANGED Contents
    <3>1. strings' = strings
      BY <1>4, <1>12 DEF Do, fits
    <3> QED BY <3>1 DEF Contents
  <2> QED BY <1>10, <2>1 DEF Shows
<1> QED BY <1>11, <1>12

\* Move leaves nothing in the other string, nor in the same.
LEMMA MoveKept ==
  ASSUME SoundInv, NEW s \in Strings, NEW o \in Strings, Move(s, o)
  PROVE  Kept /\ Text!Move(s, o)
<1>1. strings' = [strings EXCEPT ![s] = strings[o], ![o] = Null] /\ astray' = <<"none">>
  BY DEF Move
<1>2. /\ strings' = [q \in Strings |-> strings'[q]]
      /\ \A q \in Strings :
           strings'[q] = IF q = o THEN Null ELSE IF q = s THEN strings[o] ELSE strings[q]
  BY <1>1 DEF SoundInv
<1>3. SoundInv'
  BY <1>2, NullIsSound DEF SoundInv
<1>4. RoomStep
  <2>1. Promised(Null)
    BY DEF Promised
  <2> QED BY <1>2, <2>1 DEF RoomStep, RoomKept
<1>5. AstrayExplained'
  BY <1>1 DEF AstrayExplained
<1>6. Contents' = [Contents EXCEPT ![s] = Contents[o], ![o] = <<>>]
  <2>1. Contents' = [q \in Strings |-> Content(strings'[q])]
    BY DEF Contents, Content
  <2>2. \A q \in Strings :
          Content(strings'[q]) = IF q = o THEN <<>>
                                 ELSE IF q = s THEN Content(strings[o]) ELSE Content(strings[q])
    BY <1>2, NullIsSound
  <2> QED BY <2>1, <2>2 DEF Contents
<1> QED BY <1>3, <1>4, <1>5, <1>6 DEF Kept, Text!Move

\* The calls that cut.
LEMMA RangeKept ==
  ASSUME SoundInv, NEW s \in Strings, NEW start \in 0 .. MaxLength, NEW end \in 0 .. MaxLength,
         KeepRange(s, start, end)
  PROVE  /\ Kept
         /\ UNCHANGED Contents
            \/ (start <= end /\ Contents' = [Contents EXCEPT ![s] = SubSeq(Contents[s], start + 1, end)])
<1> DEFINE x == strings[s]  y == Ranged(x, start, end)  call == <<"Range", s, start, end>>
<1>1. Sound(x) /\ Contents[s] = Content(x) /\ start \in Nat /\ end \in Nat
  BY WordAssumption DEF SoundInv, Contents
<1>2. end <= x.length /\ Do(call, s, x # Null, y)
  BY DEF KeepRange
<1>3. x # Null /\ start <= end =>
        /\ Sound(y) /\ Readable(y) /\ Content(y) = SubSeq(Content(x), start + 1, end)
        /\ Promised(x) => Promised(y)
  <2> HIDE DEF x
  <2> QED BY <1>1, <1>2, RangedIs
<1>4. end < start => ~Readable(y)
  <2> HIDE DEF x
  <2> QED BY <1>1, <1>2, BackwardsIs
<1>5. start <= end \/ end < start
  BY <1>1
<1>6. x # Null /\ Readable(y) => Sound(y) /\ RoomKept(s, y)
  BY <1>3, <1>4, <1>5 DEF RoomKept
<1>7. ~(x # Null /\ Readable(y)) => Explained(call)
  <2>1. call[1] = "Range" /\ call[2] = s /\ call[3] = start /\ call[4] = end
    OBVIOUS
  <2> HIDE DEF call
  <2>2. CASE x = Null
    BY <2>1, <2>2 DEF Explained
  <2>3. CASE end < start
    BY <2>1, <2>3 DEF Explained
  <2> QED BY <1>3, <1>5, <2>2, <2>3
<1>8. call # <<"none">> /\ call[2] = s /\ (x # Null) \in BOOLEAN
  OBVIOUS
<1> HIDE DEF y, call, x
<1>9. Kept /\ (UNCHANGED Contents \/ (Readable(y) /\ Contents' = [Contents EXCEPT ![s] = Content(y)]))
  BY <1>2, <1>6, <1>7, <1>8, Doing DEF x
<1>10. CASE x = Null
  <2>1. strings' = strings
    BY <1>2, <1>10 DEF Do
  <2> QED BY <1>9, <2>1 DEF Contents
<1>11. CASE x # Null
  BY <1>1, <1>3, <1>4, <1>5, <1>9, <1>11
<1> QED BY <1>10, <1>11

LEMMA TrimKept ==
  ASSUME SoundInv, NEW s \in Strings, NEW c \in Inputs, Trim(s, c)
  PROVE  Kept /\ UNCHANGED Contents
<1> DEFINE x == strings[s]  call == <<"Trim", s, c>>  safe == ~IsPrefix(c, x.buffer)
<1>1. Sound(x) /\ Readable(x) /\ Content(x) = Contents[s]
  BY DEF SoundInv, Sound, Readable, Contents
<1>2. Len(c) < x.length /\ Do(call, s, safe, x)
  BY DEF Trim
<1>3. RoomKept(s, x)
  BY DEF RoomKept
<1>4. ~safe => Explained(call)
  <2>1. ~safe => IsPrefix(c, Content(x))
    <3> HIDE DEF x
    <3> QED BY <1>1, <1>2, PrefixIs
  <2>2. call[1] = "Trim" /\ call[2] = s /\ call[3] = c
    OBVIOUS
  <2> HIDE DEF call, safe
  <2> QED BY <2>1, <2>2 DEF Explained
<1>5. call # <<"none">> /\ call[2] = s /\ safe \in BOOLEAN
  BY DEF IsPrefix
<1> HIDE DEF call, x, safe
<1>6. Kept /\ (UNCHANGED Contents \/ Contents' = [Contents EXCEPT ![s] = Content(x)])
  BY <1>1, <1>2, <1>3, <1>4, <1>5, Doing DEF x
<1>7. Contents = [q \in Strings |-> Contents[q]]
  BY DEF Contents
<1> QED BY <1>1, <1>6, <1>7

LEMMA Trim2Kept ==
  ASSUME SoundInv, NEW s \in Strings, NEW c, Trim2(s, c)
  PROVE  Kept /\ Shows(s, Text!Inner(Text!Visible(Contents[s]), c))
<1> DEFINE x == strings[s]  call == <<"Trim2", s, c>>
           y == IF x = Null THEN Null ELSE Trimmed(x, c)
<1>1. Sound(x) /\ Contents[s] = Content(x)
  BY DEF SoundInv, Contents
<1>2. Do(call, s, x # Null, y)
  BY DEF Trim2
<1>3. x # Null =>
        /\ ~Readable(y) => Len(x.buffer) = 1
        /\ Readable(y) => /\ Sound(y) /\ (Promised(x) => Promised(y))
                          /\ Content(y) = Text!Inner(Text!Visible(Content(x)), c)
  <2> HIDE DEF x
  <2> QED BY <1>1, TrimmedIs
<1>4. x # Null /\ Readable(y) => Sound(y) /\ RoomKept(s, y)
  BY <1>3 DEF RoomKept
<1>5. ~(x # Null /\ Readable(y)) => Explained(call)
  <2>1. call[1] = "Trim2" /\ call[2] = s
    OBVIOUS
  <2> HIDE DEF call
  <2> QED BY <1>3, <2>1 DEF Explained
<1>6. call # <<"none">> /\ call[2] = s /\ (x # Null) \in BOOLEAN
  OBVIOUS
<1> HIDE DEF y, call, x
<1>7. Kept /\ (UNCHANGED Contents \/ (Readable(y) /\ Contents' = [Contents EXCEPT ![s] = Content(y)]))
  BY <1>2, <1>4, <1>5, <1>6, Doing DEF x
<1>8. CASE x = Null
  <2>1. strings' = strings
    BY <1>2, <1>8 DEF Do
  <2> QED BY <1>7, <2>1 DEF Shows, Contents
<1>9. CASE x # Null
  BY <1>1, <1>3, <1>7, <1>9 DEF Shows
<1> QED BY <1>8, <1>9

\* The calls that write a new string, or what is always in the allocation.
LEMMA SafeKept ==
  ASSUME SoundInv, NEW s \in Strings, NEW call, call # <<"none">>, call[2] = s,
         NEW x, Sound(x), Readable(x), RoomKept(s, x), Do(call, s, TRUE, x)
  PROVE  Kept /\ Shows(s, Content(x))
<1>1. Kept /\ (UNCHANGED Contents \/ (Readable(x) /\ Contents' = [Contents EXCEPT ![s] = Content(x)]))
  BY Doing
<1> QED BY <1>1 DEF Shows

LEMMA StepKept ==
  ASSUME SoundInv, Next
  PROVE  Kept /\ (UNCHANGED Contents \/ Text!Next)
<1>1. PICK s \in Strings :
        \/ \E t \in Inputs :
             \/ Construct(s, t) \/ AppendBytes(s, t) \/ Trim(s, t)
             \/ \E n \in 0 .. Len(t), ended \in BOOLEAN : AppendView(s, t, n, ended)
        \/ \E o \in Strings : AppendString(s, o) \/ Assign(s, o) \/ Move(s, o)
        \/ Clean(s)
        \/ \E n \in Rooms : MakeRoomFor(s, n)
        \/ \E start, end \in 0 .. MaxLength : KeepRange(s, start, end)
        \/ \E c \in Bytes : Trim2(s, c)
        \/ \E f \in CaseMaps : Recase(s, f)
  BY DEF Next
<1>2. \A q \in Strings : Sound(strings[q]) /\ Contents[q] = Content(strings[q])
  BY DEF SoundInv, Contents
<1>3. ASSUME NEW t \in Inputs, Construct(s, t) PROVE Kept /\ (UNCHANGED Contents \/ Text!Next)
  <2>1. t \in Seq(Bytes) /\ Len(t) <= MaxLength
    BY InputsAre
  <2>2. Sound(Created(t)) /\ Readable(Created(t)) /\ RoomKept(s, Created(t)) /\ Content(Created(t)) = t
    BY <2>1, CreatedIs DEF RoomKept
  <2>3. Kept /\ Shows(s, t)
    BY <1>3, <2>2, SafeKept DEF Construct
  <2>4. UNCHANGED Contents \/ Text!Construct(s, t)
    BY <2>3 DEF Shows, Text!Construct, Text!Becomes
  <2> QED BY <2>3, <2>4 DEF Text!Next
<1>4. ASSUME NEW t \in Inputs, AppendBytes(s, t) PROVE Kept /\ (UNCHANGED Contents \/ Text!Next)
  <2> DEFINE call == <<"Append", s, t>>
  <2>1. call # <<"none">> /\ call[1] = "Append" /\ call[2] = s /\ call[3] = t
    OBVIOUS
  <2>2. AppendTo(call, s, t, TRUE)
    BY <1>4 DEF AppendBytes
  <2> HIDE DEF call
  <2>3. strings[s] = Null /\ t = <<>> => Explained(call)
    BY <2>1 DEF Explained
  <2>4. Kept /\ Shows(s, Content(strings[s]) \o t)
    BY <2>1, <2>2, <2>3, InputsAre, AppendKept
  <2>5. UNCHANGED Contents \/ Text!AppendBytes(s, t)
    BY <1>2, <2>4 DEF Shows, Text!AppendBytes, Text!Becomes
  <2> QED BY <2>4, <2>5 DEF Text!Next
<1>5. ASSUME NEW t \in Inputs, NEW n \in 0 .. Len(t), NEW ended \in BOOLEAN, AppendView(s, t, n, ended)
      PROVE  Kept /\ (UNCHANGED Contents \/ Text!Next)
  <2> DEFINE call == <<"AppendView", s, t, ended>>
  <2>1. call # <<"none">> /\ call[1] = "AppendView" /\ call[2] = s /\ call[3] = t /\ call[4] = ended
    OBVIOUS
  <2>2. AppendTo(call, s, t, ended)
    BY <1>5 DEF AppendView
  <2> HIDE DEF call
  <2>3. ~ended \/ (strings[s] = Null /\ t = <<>>) => Explained(call)
    BY <2>1 DEF Explained
  <2>4. Kept /\ Shows(s, Content(strings[s]) \o t)
    BY <2>1, <2>2, <2>3, InputsAre, AppendKept
  <2>5. UNCHANGED Contents \/ Text!AppendBytes(s, t)
    BY <1>2, <2>4 DEF Shows, Text!AppendBytes, Text!Becomes
  <2> QED BY <2>4, <2>5 DEF Text!Next
<1>6. ASSUME NEW t \in Inputs, Trim(s, t) PROVE Kept /\ (UNCHANGED Contents \/ Text!Next)
  BY <1>6, TrimKept
<1>7. ASSUME NEW o \in Strings, AppendString(s, o) PROVE Kept /\ (UNCHANGED Contents \/ Text!Next)
  <2> DEFINE safe == s = o => strings[s].free >= strings[s].length
             call == <<"AppendString", s, o>>
  <2>1. Content(strings[o]) \in Seq(Cells)
    BY <1>2, Fields, ContentIs
  <2>2. call # <<"none">> /\ call[1] = "AppendString" /\ call[2] = s /\ call[3] = o
    OBVIOUS
  <2>3. ~safe \/ (strings[s] = Null /\ Content(strings[o]) = <<>>) => Explained(call)
    <3>1. ~safe => s = o /\ strings[s].free < strings[s].length
      BY <1>2, Fields
    <3> HIDE DEF safe, call
    <3> QED BY <2>2, <3>1 DEF Explained
  <2>4. AppendTo(call, s, Content(strings[o]), safe) /\ safe \in BOOLEAN
    BY <1>7 DEF AppendString
  <2> HIDE DEF safe, call
  <2>5. Kept /\ Shows(s, Content(strings[s]) \o Content(strings[o]))
    BY <2>1, <2>2, <2>3, <2>4, AppendKept
  <2>6. UNCHANGED Contents \/ Text!AppendString(s, o)
    BY <1>2, <2>5 DEF Shows, Text!AppendString, Text!Becomes
  <2> QED BY <2>5, <2>6 DEF Text!Next
<1>8. ASSUME NEW o \in Strings, Assign(s, o) PROVE Kept /\ (UNCHANGED Contents \/ Text!Next)
  <2> DEFINE y == Copied(s, o)
  <2>1. Content(y) = IF s = o THEN [i \in DOMAIN Contents[s] |-> Nul] ELSE Contents[o]
    BY <1>2, CopiedIs
  <2>2. Sound(y) /\ Readable(y) /\ RoomKept(s, y)
    BY <1>2, CopiedIs DEF RoomKept
  <2> HIDE DEF y
  <2>3. Kept /\ Shows(s, Content(y))
    BY <1>8, <2>2, SafeKept DEF Assign, y
  <2>4. UNCHANGED Contents \/ Text!Assign(s, o)
    BY <2>1, <2>3 DEF Shows, Text!Assign, Text!Becomes
  <2> QED BY <2>3, <2>4 DEF Text!Next
<1>9. ASSUME NEW o \in Strings, Move(s, o) PROVE Kept /\ (UNCHANGED Contents \/ Text!Next)
  BY <1>9, MoveKept DEF Text!Next
<1>10. CASE Clean(s)
  <2>1. Sound(Null) /\ Readable(Null) /\ RoomKept(s, Null) /\ Content(Null) = <<>>
    BY NullIsSound DEF Readable, RoomKept, Promised
  <2>2. Kept /\ Shows(s, <<>>)
    BY <1>10, <2>1, SafeKept DEF Clean
  <2>3. UNCHANGED Contents \/ Text!Clean(s)
    BY <2>2 DEF Shows, Text!Clean, Text!Becomes
  <2> QED BY <2>2, <2>3 DEF Text!Next
<1>11. ASSUME NEW n \in Rooms, MakeRoomFor(s, n) PROVE Kept /\ (UNCHANGED Contents \/ Text!Next)
  <2>1. PICK y : y = Roomy(strings[s], n)
    OBVIOUS
  <2>2. n \in 0 .. MaxLength
    BY RoomsAssumption
  <2>3. /\ Sound(y) /\ Readable(y) /\ Content(y) = Contents[s]
        /\ y = strings[s] \/ (y # Null /\ Promised(y))
    BY <1>2, <2>1, <2>2, RoomyIs
  <2>4. RoomKept(s, y)
    BY <2>3 DEF RoomKept
  <2>5. Kept /\ Shows(s, Contents[s])
    BY <1>11, <2>1, <2>3, <2>4, SafeKept DEF MakeRoomFor
  <2>6. UNCHANGED Contents
    <3>1. Contents = [q \in Strings |-> Contents[q]]
      BY DEF Contents
    <3> QED BY <2>5, <3>1 DEF Shows
  <2> QED BY <2>5, <2>6
<1>12. ASSUME NEW start \in 0 .. MaxLength, NEW end \in 0 .. MaxLength, KeepRange(s, start, end)
       PROVE  Kept /\ (UNCHANGED Contents \/ Text!Next)
  <2>1. /\ Kept
        /\ UNCHANGED Contents
           \/ (start <= end /\ Contents' = [Contents EXCEPT ![s] = SubSeq(Contents[s], start + 1, end)])
    BY <1>12, RangeKept
  <2>2. UNCHANGED Contents \/ (start <= end /\ Text!KeepRange(s, start, end))
    BY <2>1 DEF Text!KeepRange, Text!Becomes
  <2>3. start <= end => start \in 0 .. Len(Contents[s]) /\ end \in 0 .. Len(Contents[s])
    <3>1. Len(Contents[s]) = strings[s].length /\ strings[s].length \in Nat /\ MaxLength \in Nat
      BY <1>2, Fields, ContentIs
    <3> QED BY <1>12, <3>1 DEF KeepRange
  <2> QED BY <2>1, <2>2, <2>3 DEF Text!Next
<1>13. ASSUME NEW c \in Bytes, Trim2(s, c) PROVE Kept /\ (UNCHANGED Contents \/ Text!Next)
  <2>1. Kept /\ Shows(s, Text!Inner(Text!Visible(Contents[s]), c))
    BY <1>13, Trim2Kept
  <2>2. UNCHANGED Contents \/ Text!Trim2(s, c)
    BY <2>1 DEF Shows, Text!Trim2, Text!Becomes
  <2> QED BY <2>1, <2>2 DEF Text!Next
<1>14. ASSUME NEW f \in CaseMaps, Recase(s, f) PROVE Kept /\ (UNCHANGED Contents \/ Text!Next)
  <2> DEFINE x == strings[s]
             z == [x EXCEPT !.buffer = [i \in DOMAIN @ |-> IF i <= x.length THEN f[@[i]] ELSE @[i]]]
  <2>1. PICK y : y = z
    OBVIOUS
  <2>2. /\ Sound(y) /\ Readable(y) /\ (Promised(x) => Promised(y))
        /\ Content(y) = [i \in DOMAIN Content(x) |-> f[Content(x)[i]]]
    <3>1. Sound(x)
      BY <1>2
    <3> HIDE DEF x
    <3> QED BY <2>1, <3>1, RecasedIs
  <2>3. RoomKept(s, y)
    BY <2>2 DEF RoomKept
  <2>4. Do(<<"Recase", s>>, s, TRUE, y)
    BY <1>14, <2>1 DEF Recase
  <2>5. Kept /\ Shows(s, Content(y))
    BY <2>2, <2>3, <2>4, SafeKept
  <2>6. UNCHANGED Contents \/ Text!Recase(s, f)
    BY <1>2, <2>2, <2>5 DEF Shows, Text!Recase, Text!Becomes
  <2> QED BY <2>5, <2>6 DEF Text!Next
<1> QED BY <1>1, <1>3, <1>4, <1>5, <1>6, <1>7, <1>8, <1>9, <1>10, <1>11, <1>12, <1>13, <1>14

-----------------------------------------------------------------------------
(* The theorems *)

LEMMA Start == Init => SoundInv /\ AstrayExplained /\ Text!Init
<1> SUFFICES ASSUME Init PROVE SoundInv /\ AstrayExplained /\ Text!Init
  OBVIOUS
<1>1. /\ strings = [s \in Strings |-> strings[s]] /\ \A s \in Strings : strings[s] = Null
      /\ astray = <<"none">>
  BY DEF Init
<1> QED BY <1>1, NullIsSound DEF SoundInv, AstrayExplained, Contents, Text!Init

LEMMA Step ==
  SoundInv /\ AstrayExplained /\ [Next]_vars =>
    SoundInv' /\ AstrayExplained' /\ RoomStep /\ (UNCHANGED Contents \/ Text!Next)
<1> SUFFICES ASSUME SoundInv, AstrayExplained, [Next]_vars
             PROVE  SoundInv' /\ AstrayExplained' /\ RoomStep /\ (UNCHANGED Contents \/ Text!Next)
  OBVIOUS
<1>1. CASE Next
  BY <1>1, StepKept DEF Kept
<1>2. CASE UNCHANGED vars
  <2>1. strings' = strings /\ astray' = astray
    BY <1>2 DEF vars
  <2> QED BY <2>1 DEF SoundInv, AstrayExplained, Promised, RoomStep, RoomKept, Contents, Content
<1> QED BY <1>1, <1>2

LEMMA Always == Spec => [](SoundInv /\ AstrayExplained)
<1>1. SoundInv /\ AstrayExplained /\ [Next]_vars => (SoundInv /\ AstrayExplained)'
  BY Step
<1> QED BY Start, <1>1, PTL DEF Spec

\* However strings are built, appended to, cut, copied and moved, a reader of Data()
\* finds a terminator in the allocation (lines 105-315).
THEOREM TerminatedCorrect == Spec => []Terminated
<1>1. SoundInv => Terminated
  BY DEF SoundInv, Sound, Terminated
<1> QED BY <1>1, Always, PTL

\* Avail() promises what is not there in copies of strings with spare room only, and
\* in what is made of those (lines 87, 317-337).
THEOREM RoomPromisedCorrect == Spec => RoomPromised
<1>1. SoundInv /\ AstrayExplained /\ [Next]_vars => RoomStep
  BY Step
<1>2. RoomStep => \A s \in Strings :
       ~Promised(strings'[s]) =>
         \/ ~Promised(strings[s])
         \/ \E o \in Strings : strings'[s] = strings[o] /\ ~Promised(strings[o])
         \/ \E o \in Strings : strings'[s] = Copied(s, o) /\ strings[o].free > 0
  BY DEF RoomStep, RoomKept
<1> QED BY <1>1, <1>2, Always, PTL DEF Spec, RoomPromised

\* No call leaves the allocation in a way that AstrayExplained does not list.
THEOREM AstrayExplainedCorrect == Spec => []AstrayExplained
BY Always, PTL

\* Range and Trim2 cut where they should (lines 193-220), in any string there is.
THEOREM CutsExactCorrect == Spec => []CutsExact
<1>1. ASSUME SoundInv PROVE CutsExact
  <2> SUFFICES ASSUME NEW s \in Strings, strings[s] # Null, astray = <<"none">>
               PROVE  LET x == strings[s] IN
                      /\ \A end \in 0 .. x.length : \A start \in 0 .. end :
                           Content(Ranged(x, start, end)) = SubSeq(Content(x), start + 1, end)
                      /\ \A c \in Bytes : Readable(Trimmed(x, c)) =>
                           Content(Trimmed(x, c)) = Text!Inner(Text!Visible(Content(x)), c)
    BY DEF CutsExact
  <2>1. PICK x : x = strings[s] /\ Sound(x) /\ x # Null
    BY <1>1 DEF SoundInv
  <2>2. ASSUME NEW end \in 0 .. x.length, NEW start \in 0 .. end
        PROVE  Content(Ranged(x, start, end)) = SubSeq(Content(x), start + 1, end)
    <3>1. x.length \in Nat
      BY <2>1, Fields
    <3>2. start \in Nat /\ end \in Nat /\ start <= end /\ end <= x.length
      BY <3>1
    <3> QED BY <2>1, <3>2, RangedIs
  <2>3. ASSUME NEW c \in Bytes, Readable(Trimmed(x, c))
        PROVE  Content(Trimmed(x, c)) = Text!Inner(Text!Visible(Content(x)), c)
    BY <2>1, <2>3, TrimmedIs
  <2> QED BY <2>1, <2>2, <2>3
<1> QED BY <1>1, Always, PTL

\* What a SimpleDynamicString shows is a sequence of bytes, and each call makes of it
\* what it makes of a sequence, until one goes astray.
THEOREM ImplementsTextsCorrect == Spec => ImplementsTexts
<1>1. SoundInv /\ AstrayExplained /\ [Next]_vars => [Text!Next]_Contents
  BY Step
<1> QED BY <1>1, Start, Always, PTL DEF Spec, ImplementsTexts, Text!Spec

=============================================================================
