-------------------------- MODULE DictionaryProofs --------------------------
(***************************************************************************)
(* Dictionary implements FiniteMap, and counts its entries, for any keys,  *)
(* values, hash function, number of objects, and growth policy that gives  *)
(* at least what is asked.                                                 *)
(* The inductive invariant is the shape of each object (Shape): a bucket   *)
(* holds only the keys that hash to it, and a key once.                    *)
(***************************************************************************)
EXTENDS Dictionary, FiniteSetTheorems, TLAPS

-----------------------------------------------------------------------------
(* The shape of an object *)

Tables(size) == [0 .. size - 1 -> SUBSET Entry]

Shape(d) ==
  /\ d = [table |-> d.table, size |-> d.size, sizeMask |-> d.sizeMask, used |-> d.used]
  /\ d.size \in Nat
  /\ d.table \in Tables(d.size)
  /\ d.size # 0 => d.sizeMask = d.size - 1
  /\ \A i \in 0 .. d.size - 1 : \A e \in d.table[i] : Hash[e[1]] % d.size = i
  /\ \A i \in 0 .. d.size - 1 : \A e, f \in d.table[i] : e[1] = f[1] => e = f

\* The pairs that d stores.
LEMMA EntriesAreEntries ==
  ASSUME NEW d, Shape(d)
  PROVE  /\ Entries(d) \subseteq Entry
         /\ \A e \in Entries(d) : e[1] \in Keys /\ e[2] \in Values
<1>1. Entries(d) \subseteq Entry
  BY DEF Shape, Tables, Entries
<1>2. \A e \in Entry : e[1] \in Keys /\ e[2] \in Values
  BY DEF Entry
<1>3. QED
  BY <1>1, <1>2

\* The bucket of a key is one of the table.
LEMMA IndexInTable ==
  ASSUME NEW d, Shape(d), d.size # 0, NEW k \in Keys
  PROVE  /\ Index(d, k) \in 0 .. d.size - 1
         /\ Index(d, k) = Hash[k] % d.size
<1>1. d.size \in Nat \ {0} /\ d.sizeMask + 1 = d.size /\ Hash[k] \in Nat
  BY HashAssumption DEF Shape
<1>2. QED
  BY <1>1 DEF Index

\* A key is found in its bucket exactly if it is stored at all.
LEMMA StoredInBucket ==
  ASSUME NEW d, Shape(d), d.size # 0, NEW k \in Keys, NEW e, e[1] = k
  PROVE  e \in Entries(d) <=> e \in Bucket(d, k)
<1>1. Index(d, k) \in 0 .. d.size - 1 /\ Index(d, k) = Hash[k] % d.size
  BY IndexInTable
<1>2. ASSUME e \in Entries(d)
      PROVE  e \in Bucket(d, k)
  <2>1. PICK i \in 0 .. d.size - 1 : e \in d.table[i]
    BY <1>2 DEF Entries
  <2>2. i = Index(d, k)
    BY <1>1, <2>1 DEF Shape
  <2>3. QED
    BY <2>1, <2>2 DEF Bucket
<1>3. ASSUME e \in Bucket(d, k)
      PROVE  e \in Entries(d)
  BY <1>1, <1>3 DEF Bucket, Entries
<1>4. QED
  BY <1>2, <1>3

\* A key is stored once.
LEMMA StoredOnce ==
  ASSUME NEW d, Shape(d), NEW e \in Entries(d), NEW f \in Entries(d), e[1] = f[1]
  PROVE  e = f
<1>1. e[1] \in Keys
  BY EntriesAreEntries
<1>2. d.size # 0
  BY DEF Entries, Shape
<1>3. e \in Bucket(d, e[1]) /\ f \in Bucket(d, e[1])
  BY <1>1, <1>2, StoredInBucket
<1>4. Index(d, e[1]) \in 0 .. d.size - 1
  BY <1>1, <1>2, IndexInTable
<1>5. QED
  BY <1>3, <1>4 DEF Bucket, Shape

LEMMA NothingStored ==
  ASSUME NEW d, Shape(d), d.size = 0
  PROVE  Entries(d) = {}
BY DEF Entries, Shape

\* What Lookup returns.
LEMMA LookupStored ==
  ASSUME NEW d, Shape(d), NEW e \in Entries(d)
  PROVE  Lookup(d, e[1]) = e[2] /\ e[2] # Missing
<1>1. (CHOOSE f \in Entries(d) : f[1] = e[1]) = e
  BY StoredOnce
<1>2. e[2] \in Values
  BY EntriesAreEntries
<1>3. QED
  BY <1>1, <1>2, MissingAssumption DEF Lookup

LEMMA LookupMissing ==
  ASSUME NEW d, NEW k, ~\E e \in Entries(d) : e[1] = k
  PROVE  Lookup(d, k) = Missing
BY DEF Lookup

\* Find returns what is stored, and the tests of Add and Delete are right.
LEMMA FindCorrect ==
  ASSUME NEW d, Shape(d), NEW k \in Keys
  PROVE  /\ IsFound(d, k) <=> Lookup(d, k) # Missing
         /\ Found(d, k) = Lookup(d, k)
         /\ d.size # 0 => (Has(d, k) <=> Lookup(d, k) # Missing)
<1>1. CASE \E e \in Entries(d) : e[1] = k
  <2>1. PICK e \in Entries(d) : e[1] = k
    BY <1>1
  <2>2. d.size # 0
    BY NothingStored
  <2>3. e \in Bucket(d, k)
    BY <2>1, <2>2, StoredInBucket
  <2>4. Lookup(d, k) = e[2] /\ e[2] # Missing
    BY <2>1, LookupStored
  <2>5. \A f \in Bucket(d, k) : f[1] = k => f = e
    BY <2>1, <2>2, StoredInBucket, StoredOnce
  <2>6. (CHOOSE f \in Bucket(d, k) : f[1] = k) = e
    BY <2>1, <2>3, <2>5
  <2>7. QED
    BY <2>1, <2>2, <2>3, <2>4, <2>6 DEF IsFound, Has, Found
<1>2. CASE ~\E e \in Entries(d) : e[1] = k
  <2>1. Lookup(d, k) = Missing
    BY <1>2, LookupMissing
  <2>2. d.size # 0 => ~Has(d, k)
    BY <1>2, StoredInBucket DEF Has
  <2>3. QED
    BY <2>1, <2>2 DEF IsFound, Found
<1>3. QED
  BY <1>1, <1>2

\* Lookup depends on what is stored, not on where.
LEMMA LookupOfEntries ==
  ASSUME NEW d, NEW e, Entries(d) = Entries(e), NEW k
  PROVE  Lookup(d, k) = Lookup(e, k)
BY DEF Lookup

-----------------------------------------------------------------------------
(* The operations keep the shape, and change the stored pairs as they should *)

LEMMA ExpandedCorrect ==
  ASSUME NEW d, Shape(d), NEW n \in 1 .. 2 * MaxSize
  PROVE  /\ Shape(Expanded(d, n))
         /\ Entries(Expanded(d, n)) = Entries(d)
         /\ Expanded(d, n).size # 0
<1> DEFINE size == AlignedSize(n)
           x == Expanded(d, n)
<1>1. size \in Nat \ {0}
  BY AlignAssumption, SizeAssumption
<1>2. /\ x.size = size
      /\ x.sizeMask = size - 1
      /\ x.table = [i \in 0 .. size - 1 |-> {e \in Entries(d) : Hash[e[1]] % size = i}]
      /\ x = [table |-> x.table, size |-> x.size, sizeMask |-> x.sizeMask, used |-> x.used]
  BY DEF Expanded, NewMask
<1> HIDE DEF size, x
<1>3. x.table \in Tables(size)
  BY <1>2, EntriesAreEntries DEF Tables
<1>4. \A e \in Entries(d) : Hash[e[1]] % size \in 0 .. size - 1
  <2>1. \A e \in Entries(d) : Hash[e[1]] \in Nat
    BY EntriesAreEntries, HashAssumption
  <2>2. QED
    BY <1>1, <2>1
<1>5. Shape(x)
  <2>1. \A i \in 0 .. size - 1 : x.table[i] = {e \in Entries(d) : Hash[e[1]] % size = i}
    BY <1>2
  <2>2. \A i \in 0 .. size - 1 : \A e, f \in x.table[i] : e[1] = f[1] => e = f
    BY <2>1, StoredOnce
  <2>3. \A i \in 0 .. size - 1 : \A e \in x.table[i] : Hash[e[1]] % size = i
    BY <2>1
  <2>4. QED
    BY <1>1, <1>2, <1>3, <2>2, <2>3 DEF Shape
<1>6. Entries(x) = Entries(d)
  BY <1>2, <1>4 DEF Entries
<1>7. QED
  BY <1>1, <1>2, <1>5, <1>6 DEF x

LEMMA ExpandedIfNeededCorrect ==
  ASSUME NEW d, Shape(d), d.size <= MaxSize
  PROVE  /\ Shape(ExpandedIfNeeded(d))
         /\ Entries(ExpandedIfNeeded(d)) = Entries(d)
         /\ ExpandedIfNeeded(d).size # 0
<1>1. CASE d.size = 0
  <2>1. InitialSize \in 1 .. 2 * MaxSize
    BY SizeAssumption
  <2>2. QED
    BY <1>1, <2>1, ExpandedCorrect DEF ExpandedIfNeeded
<1>2. CASE d.size # 0 /\ IsFull(d)
  <2>1. d.size * 2 \in 1 .. 2 * MaxSize
    BY <1>2, SizeAssumption DEF Shape
  <2>2. QED
    BY <1>2, <2>1, ExpandedCorrect DEF ExpandedIfNeeded
<1>3. CASE d.size # 0 /\ ~IsFull(d)
  BY <1>3 DEF ExpandedIfNeeded
<1>4. QED
  BY <1>1, <1>2, <1>3

\* Replacing pairs of k by at most one pair of k, in the bucket of k.
LEMMA InBucketCorrect ==
  ASSUME NEW d, Shape(d), d.size # 0, NEW k \in Keys, NEW old, NEW now,
         now \subseteq {k} \X Values,
         \A e, f \in now : e = f,
         \A e \in Entries(d) : e[1] = k => e \in old \/ now = {},
         \A e \in old : e[1] = k
  PROVE  /\ Shape(InBucket(d, k, old, now))
         /\ Entries(InBucket(d, k, old, now)) = (Entries(d) \ old) \cup now
         /\ InBucket(d, k, old, now).size # 0
<1> DEFINE x == InBucket(d, k, old, now)
           j == Index(d, k)
<1>1. j \in 0 .. d.size - 1 /\ j = Hash[k] % d.size
  BY IndexInTable
<1>2. d.table \in Tables(d.size) /\ d.size \in Nat
  BY DEF Shape
<1>3. /\ x.size = d.size
      /\ x.sizeMask = d.sizeMask
      /\ x.table = [d.table EXCEPT ![j] = (@ \ old) \cup now]
      /\ x = [table |-> x.table, size |-> x.size, sizeMask |-> x.sizeMask, used |-> x.used]
  <2>1. d = [table |-> d.table, size |-> d.size, sizeMask |-> d.sizeMask, used |-> d.used]
    BY DEF Shape
  <2>2. x = [d EXCEPT !.table = [d.table EXCEPT ![j] = (d.table[j] \ old) \cup now]]
    BY DEF InBucket
  <2>3. QED
    BY <2>1, <2>2
<1> HIDE DEF x, j
<1>4. \A i \in 0 .. d.size - 1 :
        x.table[i] = IF i = j THEN (d.table[j] \ old) \cup now ELSE d.table[i]
  BY <1>1, <1>2, <1>3 DEF Tables
<1>5. \A e \in now : e \in Entry /\ e[1] = k
  BY DEF Entry
<1>6. \A i \in 0 .. d.size - 1 : i # j => d.table[i] \cap old = {}
  <2> SUFFICES ASSUME NEW i \in 0 .. d.size - 1, i # j, NEW e \in d.table[i], e \in old
               PROVE  FALSE
    OBVIOUS
  <2>1. e[1] = k /\ Hash[e[1]] % d.size = i
    BY DEF Shape
  <2>2. QED
    BY <1>1, <2>1
<1>7. x.table \in Tables(x.size)
  <2>1. (d.table[j] \ old) \cup now \subseteq Entry
    BY <1>1, <1>2, <1>5 DEF Tables
  <2>2. QED
    BY <1>2, <1>3, <2>1 DEF Tables
<1>8. \A i \in 0 .. d.size - 1 : \A e \in x.table[i] : Hash[e[1]] % d.size = i
  BY <1>1, <1>4, <1>5 DEF Shape
<1>9. \A i \in 0 .. d.size - 1 : \A e, f \in x.table[i] : e[1] = f[1] => e = f
  <2> SUFFICES ASSUME NEW i \in 0 .. d.size - 1, NEW e \in x.table[i], NEW f \in x.table[i],
                      e[1] = f[1]
               PROVE  e = f
    OBVIOUS
  <2>1. CASE i # j
    BY <1>4, <2>1 DEF Shape
  <2>2. CASE i = j /\ e \in now /\ f \in now
    BY <2>2
  <2>3. CASE i = j /\ e \notin now /\ f \notin now
    BY <1>1, <1>4, <2>3 DEF Shape
  <2>4. ASSUME i = j, NEW g \in {e, f}, NEW h \in {e, f}, g \in now, h \notin now
        PROVE  FALSE
    <3>1. h \in d.table[j] /\ h \notin old
      BY <1>1, <1>4, <2>4
    <3>2. h \in Entries(d)
      BY <1>1, <3>1 DEF Entries
    <3>3. h[1] = k
      BY <1>5, <2>4
    <3>4. QED
      BY <2>4, <3>1, <3>2, <3>3
  <2>5. QED
    BY <2>1, <2>2, <2>3, <2>4
<1>10. Shape(x)
  BY <1>2, <1>3, <1>7, <1>8, <1>9 DEF Shape
<1>11. Entries(x) = (Entries(d) \ old) \cup now
  <2>1. ASSUME NEW e \in Entries(x)
        PROVE  e \in (Entries(d) \ old) \cup now
    <3>1. PICK i \in 0 .. d.size - 1 : e \in x.table[i]
      BY <1>3 DEF Entries
    <3>2. QED
      BY <1>1, <1>4, <1>6, <3>1 DEF Entries
  <2>2. ASSUME NEW e \in (Entries(d) \ old) \cup now
        PROVE  e \in Entries(x)
    <3>1. CASE e \in now
      BY <1>1, <1>3, <1>4, <3>1 DEF Entries
    <3>2. CASE e \in Entries(d) \ old
      <4>1. PICK i \in 0 .. d.size - 1 : e \in d.table[i]
        BY <3>2 DEF Entries
      <4>2. QED
        BY <1>3, <1>4, <3>2, <4>1 DEF Entries
    <3>3. QED
      BY <2>2, <3>1, <3>2
  <2>3. QED
    BY <2>1, <2>2
<1>12. QED
  BY <1>3, <1>10, <1>11 DEF x

\* used_ is no part of the shape, nor of what is stored.
LEMMA UsedApart ==
  ASSUME NEW d, Shape(d), NEW n
  PROVE  /\ Shape([d EXCEPT !.used = n])
         /\ Entries([d EXCEPT !.used = n]) = Entries(d)
<1> DEFINE x == [d EXCEPT !.used = n]
<1>1. d = [table |-> d.table, size |-> d.size, sizeMask |-> d.sizeMask, used |-> d.used]
  BY DEF Shape
<1>2. /\ x = [table |-> x.table, size |-> x.size, sizeMask |-> x.sizeMask, used |-> x.used]
      /\ x.table = d.table /\ x.size = d.size /\ x.sizeMask = d.sizeMask
  BY <1>1
<1> HIDE DEF x
<1>3. Shape(x) /\ Entries(x) = Entries(d)
  BY <1>2 DEF Shape, Entries
<1>4. QED
  BY <1>3 DEF x

Without(d, k) == {e \in Entries(d) : e[1] # k}

LEMMA AddedCorrect ==
  ASSUME NEW d, Shape(d), d.size <= MaxSize, NEW k \in Keys, NEW v \in Values
  PROVE  /\ AddReturns(d, k) <=> Lookup(d, k) = Missing
         /\ Shape(Added(d, k, v))
         /\ AddReturns(d, k) => Entries(Added(d, k, v)) = Without(d, k) \cup {<<k, v>>}
         /\ ~AddReturns(d, k) => Entries(Added(d, k, v)) = Entries(d)
<1> DEFINE e == ExpandedIfNeeded(d)
<1>1. Shape(e) /\ Entries(e) = Entries(d) /\ e.size # 0
  BY ExpandedIfNeededCorrect
<1>2. Lookup(e, k) = Lookup(d, k)
  BY <1>1, LookupOfEntries
<1>3. Has(e, k) <=> Lookup(d, k) # Missing
  BY <1>1, <1>2, FindCorrect
<1>4. AddReturns(d, k) <=> ~Has(e, k)
  BY DEF AddReturns
<1>5. CASE Has(e, k)
  BY <1>1, <1>3, <1>4, <1>5 DEF Added
<1>6. CASE ~Has(e, k)
  <2> DEFINE x == InBucket(e, k, {}, {<<k, v>>})
  <2>1. Added(d, k, v) = [x EXCEPT !.used = @ + 1]
    BY <1>6 DEF Added
  <2>2. \A f \in Entries(d) : f[1] # k
    BY <1>3, <1>6, LookupStored
  <2>3. Shape(x) /\ Entries(x) = (Entries(e) \ {}) \cup {<<k, v>>}
    BY <1>1, <2>2, InBucketCorrect
  <2> HIDE DEF x
  <2>4. Shape(Added(d, k, v)) /\ Entries(Added(d, k, v)) = Entries(x)
    BY <2>1, <2>3, UsedApart
  <2>5. Entries(d) = Without(d, k)
    BY <2>2 DEF Without
  <2>6. QED
    BY <1>1, <1>3, <1>4, <1>6, <2>3, <2>4, <2>5
<1>7. QED
  BY <1>5, <1>6

LEMMA EntriesOfCorrect ==
  ASSUME NEW d, Shape(d), d.size # 0, NEW k \in Keys
  PROVE  /\ \A e \in Entries(d) : e[1] = k => e \in EntriesOf(d, k)
         /\ \A e \in EntriesOf(d, k) : e[1] = k
         /\ Entries(d) \ EntriesOf(d, k) = Without(d, k)
<1>1. \A e \in Entries(d) : e[1] = k => e \in EntriesOf(d, k)
  BY StoredInBucket DEF EntriesOf
<1>2. QED
  BY <1>1 DEF EntriesOf, Without

LEMMA ReplacedCorrect ==
  ASSUME NEW d, Shape(d), d.size <= MaxSize, NEW k \in Keys, NEW v \in Values
  PROVE  /\ Shape(Replaced(d, k, v))
         /\ Entries(Replaced(d, k, v)) = Without(d, k) \cup {<<k, v>>}
<1>1. CASE AddReturns(d, k)
  BY <1>1, AddedCorrect DEF Replaced
<1>2. CASE ~AddReturns(d, k)
  <2> DEFINE e == ExpandedIfNeeded(d)
  <2>1. Shape(e) /\ Entries(e) = Entries(d) /\ e.size # 0
    BY ExpandedIfNeededCorrect
  <2>2. Replaced(d, k, v) = InBucket(e, k, EntriesOf(e, k), {<<k, v>>})
    BY <1>2 DEF Replaced
  <2> HIDE DEF e
  <2>3. /\ \A f \in Entries(e) : f[1] = k => f \in EntriesOf(e, k)
        /\ \A f \in EntriesOf(e, k) : f[1] = k
        /\ Entries(e) \ EntriesOf(e, k) = Without(e, k)
    BY <2>1, EntriesOfCorrect
  <2>4. {<<k, v>>} \subseteq {k} \X Values /\ \A f, g \in {<<k, v>>} : f = g
    OBVIOUS
  <2>5. /\ Shape(Replaced(d, k, v))
        /\ Entries(Replaced(d, k, v)) = (Entries(e) \ EntriesOf(e, k)) \cup {<<k, v>>}
    BY <2>1, <2>2, <2>3, <2>4, InBucketCorrect
  <2>6. QED
    BY <2>1, <2>3, <2>5 DEF Without
<1>3. QED
  BY <1>1, <1>2

LEMMA DeletedCorrect ==
  ASSUME NEW d, Shape(d), NEW k \in Keys
  PROVE  /\ Shape(Deleted(d, k))
         /\ Entries(Deleted(d, k)) = Without(d, k)
<1>1. CASE ~IsFound(d, k)
  <2>1. \A f \in Entries(d) : f[1] # k
    BY <1>1, FindCorrect, LookupStored
  <2>2. QED
    BY <1>1, <2>1 DEF Deleted, Without
<1>2. CASE IsFound(d, k)
  <2> DEFINE x == InBucket(d, k, EntriesOf(d, k), {})
  <2>1. d.size # 0
    BY <1>2 DEF IsFound
  <2>2. Shape(x) /\ Entries(x) = (Entries(d) \ EntriesOf(d, k)) \cup {}
    BY <2>1, EntriesOfCorrect, InBucketCorrect
  <2>3. Deleted(d, k) = [x EXCEPT !.used = UsedAfterDelete(d)]
    BY <1>2 DEF Deleted
  <2> HIDE DEF x
  <2>4. Shape(Deleted(d, k)) /\ Entries(Deleted(d, k)) = Entries(x)
    BY <2>2, <2>3, UsedApart
  <2>5. QED
    BY <2>1, <2>2, <2>4, EntriesOfCorrect
<1>3. QED
  BY <1>1, <1>2

LEMMA EmptyCorrect ==
  /\ Shape(EmptyDictionary)
  /\ Entries(EmptyDictionary) = {}
<1>1. <<>> \in Tables(0)
  BY DEF Tables
<1>2. Shape(EmptyDictionary)
  BY <1>1 DEF Shape, EmptyDictionary, Tables
<1>3. QED
  BY <1>2, NothingStored DEF EmptyDictionary

-----------------------------------------------------------------------------
(* The map of an object *)

MapOf(d) == [k \in Keys |-> Lookup(d, k)]

\* The map is determined key by key by the pairs that are stored.
LEMMA LookupSame ==
  ASSUME NEW d, Shape(d), NEW x, Shape(x), NEW k,
         \A e : e[1] = k => (e \in Entries(d) <=> e \in Entries(x))
  PROVE  Lookup(x, k) = Lookup(d, k)
<1>1. CASE \E e \in Entries(d) : e[1] = k
  <2>1. PICK e \in Entries(d) : e[1] = k
    BY <1>1
  <2>2. e \in Entries(x)
    BY <2>1
  <2>3. QED
    BY <2>1, <2>2, LookupStored
<1>2. CASE ~\E e \in Entries(d) : e[1] = k
  <2>1. ~\E e \in Entries(x) : e[1] = k
    BY <1>2
  <2>2. QED
    BY <1>2, <2>1, LookupMissing
<1>3. QED
  BY <1>1, <1>2

LEMMA MapSame ==
  ASSUME NEW d, NEW x, Entries(d) = Entries(x)
  PROVE  MapOf(x) = MapOf(d)
BY LookupOfEntries DEF MapOf

LEMMA MapOfStored ==
  ASSUME NEW d, Shape(d), NEW x, Shape(x), NEW k \in Keys, NEW v \in Values,
         Entries(x) = Without(d, k) \cup {<<k, v>>}
  PROVE  MapOf(x) = [MapOf(d) EXCEPT ![k] = v]
<1>1. Lookup(x, k) = v
  <2>1. <<k, v>> \in Entries(x) /\ <<k, v>>[1] = k /\ <<k, v>>[2] = v
    OBVIOUS
  <2>2. QED
    BY <2>1, LookupStored
<1>2. ASSUME NEW j \in Keys, j # k
      PROVE  Lookup(x, j) = Lookup(d, j)
  <2>1. \A e : e[1] = j => (e \in Entries(d) <=> e \in Entries(x))
    BY <1>2 DEF Without
  <2>2. QED
    BY <2>1, LookupSame
<1>3. QED
  BY <1>1, <1>2 DEF MapOf

LEMMA MapOfRemoved ==
  ASSUME NEW d, Shape(d), NEW x, Shape(x), NEW k \in Keys,
         Entries(x) = Without(d, k)
  PROVE  MapOf(x) = [MapOf(d) EXCEPT ![k] = Missing]
<1>1. Lookup(x, k) = Missing
  BY LookupMissing DEF Without
<1>2. ASSUME NEW j \in Keys, j # k
      PROVE  Lookup(x, j) = Lookup(d, j)
  <2>1. \A e : e[1] = j => (e \in Entries(d) <=> e \in Entries(x))
    BY <1>2 DEF Without
  <2>2. QED
    BY <2>1, LookupSame
<1>3. QED
  BY <1>1, <1>2 DEF MapOf

LEMMA MapOfEmpty == MapOf(EmptyDictionary) = [k \in Keys |-> Missing]
BY EmptyCorrect, LookupMissing DEF MapOf

-----------------------------------------------------------------------------
(* The invariant *)

IInv == dict = [o \in Objects |-> dict[o]] /\ \A o \in Objects : Shape(dict[o])

LEMMA InitIInv == Init => IInv
BY EmptyCorrect DEF Init, IInv

\* An object that is replaced by one of the right shape.
LEMMA OneObject ==
  ASSUME IInv, NEW o \in Objects, NEW d, Shape(d), dict' = [dict EXCEPT ![o] = d]
  PROVE  IInv'
BY DEF IInv

LEMMA NextIInv == IInv /\ [Next]_vars => IInv'
<1> SUFFICES ASSUME IInv, [Next]_vars
             PROVE  IInv'
  OBVIOUS
<1>0. \A o \in Objects : Shape(dict[o])
  BY DEF IInv
<1>1. ASSUME NEW o \in Objects, NEW k \in Keys, Find(o, k)
      PROVE  IInv'
  BY <1>1 DEF Find, IInv
<1>2. ASSUME NEW o \in Objects, NEW k \in Keys, Delete(o, k)
      PROVE  IInv'
  <2>1. Shape(Deleted(dict[o], k))
    BY <1>0, DeletedCorrect
  <2>2. QED
    BY <1>2, <2>1, OneObject DEF Delete
<1>3. ASSUME NEW o \in Objects, NEW k \in Keys, NEW v \in Values, Add(o, k, v)
      PROVE  IInv'
  <2>1. Shape(Added(dict[o], k, v))
    BY <1>0, <1>3, AddedCorrect DEF Add
  <2>2. QED
    BY <1>3, <2>1, OneObject DEF Add
<1>4. ASSUME NEW o \in Objects, NEW k \in Keys, NEW v \in Values, Replace(o, k, v)
      PROVE  IInv'
  <2>1. Shape(Replaced(dict[o], k, v))
    BY <1>0, <1>4, ReplacedCorrect DEF Replace
  <2>2. QED
    BY <1>4, <2>1, OneObject DEF Replace
<1>5. ASSUME NEW o \in Objects, NEW n \in 1 .. MaxSize, Expand(o, n)
      PROVE  IInv'
  <2>1. dict' = [dict EXCEPT ![o] = Expanded(@, n)]
    BY <1>5 DEF Expand
  <2>2. n \in 1 .. 2 * MaxSize
    BY SizeAssumption
  <2>3. Shape(Expanded(dict[o], n))
    BY <1>0, <2>2, ExpandedCorrect
  <2>4. QED
    BY <2>1, <2>3, OneObject
<1>6. ASSUME NEW o \in Objects, NEW other \in Objects, Copy(o, other)
      PROVE  IInv'
  BY <1>0, <1>6, OneObject DEF Copy
<1>7. ASSUME NEW o \in Objects, NEW other \in Objects, Move(o, other)
      PROVE  IInv'
  BY <1>0, <1>7, EmptyCorrect DEF Move, IInv
<1>8. CASE UNCHANGED vars
  BY <1>8 DEF vars, IInv
<1>9. QED
  BY <1>1, <1>2, <1>3, <1>4, <1>5, <1>6, <1>7, <1>8 DEF Next

LEMMA Invariance == Spec => []IInv
BY InitIInv, NextIInv, PTL DEF Spec

\* An entry stays where Find looks for it: hash & sizeMask_ of the present
\* table, through every expansion, replacement, copy and move.
THEOREM EntriesInBucketCorrect == Spec => []EntriesInBucket
<1>1. IInv => EntriesInBucket
  <2> SUFFICES ASSUME IInv, NEW o \in Objects, NEW i \in 0 .. dict[o].size - 1,
                      NEW e \in dict[o].table[i]
               PROVE  Index(dict[o], e[1]) = i
    BY DEF EntriesInBucket
  <2>1. Shape(dict[o])
    BY DEF IInv
  <2>2. e \in Entries(dict[o])
    BY DEF Entries
  <2>3. e[1] \in Keys
    BY <2>1, <2>2, EntriesAreEntries
  <2>4. dict[o].size # 0
    BY <2>1 DEF Shape
  <2>5. QED
    BY <2>1, <2>3, <2>4, IndexInTable DEF Shape
<1>2. QED
  BY <1>1, Invariance, PTL

\* No key is stored twice: FindBucketIndex and Replace's unlinking together
\* keep a key in one entry.
THEOREM KeysUniqueCorrect == Spec => []KeysUnique
<1>1. IInv => KeysUnique
  BY StoredOnce DEF IInv, KeysUnique
<1>2. QED
  BY <1>1, Invariance, PTL

-----------------------------------------------------------------------------
(* The count *)

Counted(d) ==
  /\ IsFiniteSet(Entries(d))
  /\ d.used = Cardinality(Entries(d))
  /\ d.used <= d.size

LEMMA CountedUsed ==
  ASSUME NEW d, Counted(d)
  PROVE  d.used \in Nat
BY FS_CardinalityType DEF Counted

\* The growth test finds a full table, so that one more entry has room.
LEMMA ExpandedCounted ==
  ASSUME NEW d, Shape(d), Counted(d), NEW n \in 1 .. 2 * MaxSize, n >= d.used
  PROVE  /\ Counted(Expanded(d, n))
         /\ Expanded(d, n).used = d.used
         /\ Expanded(d, n).size >= n
         /\ Expanded(d, n).size \in Nat
<1>1. Expanded(d, n).used = d.used /\ Expanded(d, n).size = AlignedSize(n)
  BY DEF Expanded
<1>2. AlignedSize(n) \in Nat /\ AlignedSize(n) >= n
  BY AlignAssumption
<1>3. Entries(Expanded(d, n)) = Entries(d)
  BY ExpandedCorrect
<1>4. d.used <= AlignedSize(n)
  BY <1>2, CountedUsed
<1> QED  BY <1>1, <1>2, <1>3, <1>4 DEF Counted

LEMMA GrownCounted ==
  ASSUME NEW d, Shape(d), Counted(d), d.size <= MaxSize
  PROVE  /\ Counted(ExpandedIfNeeded(d))
         /\ ExpandedIfNeeded(d).used < ExpandedIfNeeded(d).size
         /\ ExpandedIfNeeded(d).size \in Nat
<1>1. d.used \in Nat /\ d.size \in Nat /\ d.used <= d.size
  BY CountedUsed DEF Shape, Counted
<1>2. CASE d.size = 0
  <2>1. InitialSize \in 1 .. 2 * MaxSize /\ InitialSize >= d.used /\ d.used = 0
    BY <1>1, <1>2, SizeAssumption
  <2>2. Counted(Expanded(d, InitialSize)) /\ Expanded(d, InitialSize).used = d.used
        /\ Expanded(d, InitialSize).size >= InitialSize /\ Expanded(d, InitialSize).size \in Nat
    BY <2>1, ExpandedCounted
  <2> QED  BY <1>2, <2>1, <2>2, SizeAssumption DEF ExpandedIfNeeded
<1>3. CASE d.size # 0 /\ IsFull(d)
  <2>1. d.size * 2 \in 1 .. 2 * MaxSize /\ d.size * 2 >= d.used /\ d.used < d.size * 2
    BY <1>1, <1>3, SizeAssumption
  <2>2. Counted(Expanded(d, d.size * 2)) /\ Expanded(d, d.size * 2).used = d.used
        /\ Expanded(d, d.size * 2).size >= d.size * 2 /\ Expanded(d, d.size * 2).size \in Nat
    BY <2>1, ExpandedCounted
  <2> QED  BY <1>1, <1>3, <2>1, <2>2 DEF ExpandedIfNeeded
<1>4. CASE d.size # 0 /\ ~IsFull(d)
  BY <1>1, <1>4 DEF ExpandedIfNeeded, IsFull
<1> QED  BY <1>2, <1>3, <1>4

LEMMA InBucketKeeps ==
  ASSUME NEW d, Shape(d), NEW k, NEW old, NEW now
  PROVE  /\ InBucket(d, k, old, now).used = d.used
         /\ InBucket(d, k, old, now).size = d.size
<1>1. d = [table |-> d.table, size |-> d.size, sizeMask |-> d.sizeMask, used |-> d.used]
  BY DEF Shape
<1> QED  BY <1>1 DEF InBucket

\* Changing the count changes nothing else.
LEMMA UsedFields ==
  ASSUME NEW d, Shape(d), NEW n
  PROVE  [d EXCEPT !.used = n].used = n /\ [d EXCEPT !.used = n].size = d.size
<1>1. d = [table |-> d.table, size |-> d.size, sizeMask |-> d.sizeMask, used |-> d.used]
  BY DEF Shape
<1> QED  BY <1>1

LEMMA WithoutCounted ==
  ASSUME NEW d, Shape(d), Counted(d), NEW k \in Keys
  PROVE  /\ IsFiniteSet(Without(d, k))
         /\ Cardinality(Without(d, k)) = IF Lookup(d, k) = Missing THEN d.used ELSE d.used - 1
<1>1. CASE \E e \in Entries(d) : e[1] = k
  <2>1. PICK e \in Entries(d) : e[1] = k
    BY <1>1
  <2>2. Without(d, k) = Entries(d) \ {e} /\ Lookup(d, k) # Missing
    BY <2>1, StoredOnce, LookupStored DEF Without
  <2> QED  BY <2>1, <2>2, FS_RemoveElement DEF Counted
<1>2. CASE ~\E e \in Entries(d) : e[1] = k
  BY <1>2, LookupMissing DEF Without, Counted
<1> QED  BY <1>1, <1>2

LEMMA AddedCounted ==
  ASSUME NEW d, Shape(d), Counted(d), d.size <= MaxSize, NEW k \in Keys, NEW v \in Values
  PROVE  Counted(Added(d, k, v))
<1> DEFINE e == ExpandedIfNeeded(d)
<1>1. /\ Shape(e) /\ e.size # 0
      /\ Counted(e) /\ e.used < e.size /\ e.size \in Nat
  BY ExpandedIfNeededCorrect, GrownCounted
<1>2. CASE Has(e, k)
  BY <1>1, <1>2 DEF Added
<1>3. CASE ~Has(e, k)
  <2> DEFINE x == InBucket(e, k, {}, {<<k, v>>})
  <2>1. \A f \in Entries(e) : f[1] # k
    BY <1>1, <1>3, FindCorrect, LookupStored
  <2>2. Shape(x) /\ Entries(x) = Entries(e) \cup {<<k, v>>}
    BY <1>1, <2>1, InBucketCorrect
  <2>3. x.used = e.used /\ x.size = e.size
    BY <1>1, InBucketKeeps
  <2>4. Added(d, k, v) = [x EXCEPT !.used = x.used + 1]
    BY <1>3 DEF Added
  <2> HIDE DEF x, e
  <2>5. /\ Entries([x EXCEPT !.used = x.used + 1]) = Entries(x)
        /\ [x EXCEPT !.used = x.used + 1].used = e.used + 1
        /\ [x EXCEPT !.used = x.used + 1].size = e.size
    BY <2>2, <2>3, UsedApart, UsedFields
  <2>6. <<k, v>> \notin Entries(e)
    BY <2>1
  <2>7. /\ IsFiniteSet(Entries(e) \cup {<<k, v>>})
        /\ Cardinality(Entries(e) \cup {<<k, v>>}) = e.used + 1
    BY <1>1, <2>6, FS_AddElement, SMTT(30) DEF Counted
  <2>8. e.used + 1 <= e.size
    BY <1>1, CountedUsed
  <2> QED  BY <2>2, <2>4, <2>5, <2>7, <2>8 DEF Counted
<1> QED  BY <1>2, <1>3

LEMMA ReplacedCounted ==
  ASSUME NEW d, Shape(d), Counted(d), d.size <= MaxSize, NEW k \in Keys, NEW v \in Values
  PROVE  Counted(Replaced(d, k, v))
<1>1. CASE AddReturns(d, k)
  BY <1>1, AddedCounted DEF Replaced
<1>2. CASE ~AddReturns(d, k)
  <2> DEFINE e == ExpandedIfNeeded(d)
             x == InBucket(e, k, EntriesOf(e, k), {<<k, v>>})
  <2>1. Shape(e) /\ Entries(e) = Entries(d) /\ Counted(e)
    BY ExpandedIfNeededCorrect, GrownCounted
  <2>2. Replaced(d, k, v) = x /\ x.used = e.used /\ x.size = e.size
    BY <1>2, <2>1, InBucketKeeps DEF Replaced
  <2>3. Entries(x) = Without(d, k) \cup {<<k, v>>}
    BY <2>2, ReplacedCorrect
  <2>4. Lookup(d, k) # Missing
    BY <1>2, AddedCorrect
  <2>5. IsFiniteSet(Without(d, k)) /\ Cardinality(Without(d, k)) = d.used - 1
    BY <2>4, WithoutCounted
  <2>6. <<k, v>> \notin Without(d, k)
    BY DEF Without
  <2> HIDE DEF x, e
  <2>7. /\ IsFiniteSet(Entries(x))
        /\ Cardinality(Entries(x)) = d.used - 1 + 1
    BY <2>3, <2>5, <2>6, FS_AddElement
  <2>8. d.used \in Nat /\ e.used = d.used
    BY <2>1, CountedUsed DEF Counted
  <2> QED  BY <2>1, <2>2, <2>7, <2>8 DEF Counted
<1> QED  BY <1>1, <1>2

LEMMA DeletedCounted ==
  ASSUME NEW d, Shape(d), Counted(d), NEW k \in Keys
  PROVE  Counted(Deleted(d, k))
<1>1. CASE ~IsFound(d, k)
  BY <1>1 DEF Deleted
<1>2. CASE IsFound(d, k)
  <2> DEFINE x == InBucket(d, k, EntriesOf(d, k), {})
  <2>1. x.used = d.used /\ x.size = d.size
    BY InBucketKeeps
  <2>2. Deleted(d, k) = [x EXCEPT !.used = d.used - 1]
    BY <1>2 DEF Deleted, UsedAfterDelete
  <2>3. d.size # 0
    BY <1>2 DEF IsFound
  <2>4. Shape(x)
    BY <2>3, EntriesOfCorrect, InBucketCorrect
  <2>5. Entries(Deleted(d, k)) = Without(d, k)
    BY DeletedCorrect
  <2> HIDE DEF x
  <2>6. Deleted(d, k).used = d.used - 1 /\ Deleted(d, k).size = d.size
    BY <2>1, <2>2, <2>4, UsedFields
  <2>7. Lookup(d, k) # Missing
    BY <1>2, FindCorrect
  <2>8. d.used - 1 <= d.size
    BY CountedUsed DEF Counted, Shape
  <2> QED  BY <2>5, <2>6, <2>7, <2>8, WithoutCounted DEF Counted
<1> QED  BY <1>1, <1>2

AllCounted == \A o \in Objects : Counted(dict[o])

LEMMA EmptyCounted == Counted(EmptyDictionary)
<1>1. EmptyDictionary.used = 0 /\ EmptyDictionary.size = 0
  BY DEF EmptyDictionary
<1> QED  BY <1>1, EmptyCorrect, FS_EmptySet DEF Counted

LEMMA CountStep == IInv /\ AllCounted /\ [Next]_vars => AllCounted'
<1> SUFFICES ASSUME IInv, AllCounted, [Next]_vars
             PROVE  AllCounted'
  OBVIOUS
<1>1. \A o \in Objects : Shape(dict[o]) /\ Counted(dict[o])
  BY DEF IInv, AllCounted
<1>2. ASSUME NEW o \in Objects, NEW d, Counted(d), dict' = [dict EXCEPT ![o] = d]
      PROVE  AllCounted'
  BY <1>2 DEF AllCounted, IInv
<1>3. ASSUME NEW o \in Objects, NEW k \in Keys, Find(o, k) \/ Delete(o, k)
      PROVE  AllCounted'
  <2>1. CASE Find(o, k)
    BY <2>1 DEF Find, AllCounted
  <2>2. CASE Delete(o, k)
    BY <1>1, <1>2, <2>2, DeletedCounted DEF Delete
  <2> QED  BY <1>3, <2>1, <2>2
<1>4. ASSUME NEW o \in Objects, NEW k \in Keys, NEW v \in Values, Add(o, k, v) \/ Replace(o, k, v)
      PROVE  AllCounted'
  <2>1. CASE Add(o, k, v)
    BY <1>1, <1>2, <2>1, AddedCounted DEF Add
  <2>2. CASE Replace(o, k, v)
    BY <1>1, <1>2, <2>2, ReplacedCounted DEF Replace
  <2> QED  BY <1>4, <2>1, <2>2
<1>5. ASSUME NEW o \in Objects, NEW n \in 1 .. MaxSize, Expand(o, n)
      PROVE  AllCounted'
  <2>1. n >= dict[o].used /\ dict' = [dict EXCEPT ![o] = Expanded(dict[o], n)]
    BY <1>5 DEF Expand
  <2>2. n \in 1 .. 2 * MaxSize
    BY SizeAssumption
  <2> QED  BY <1>1, <1>2, <2>1, <2>2, ExpandedCounted
<1>6. ASSUME NEW o \in Objects, NEW other \in Objects, Copy(o, other) \/ Move(o, other)
      PROVE  AllCounted'
  <2>1. CASE Copy(o, other)
    BY <1>1, <1>2, <2>1 DEF Copy
  <2>2. CASE Move(o, other)
    BY <1>1, <2>2, EmptyCounted DEF Move, AllCounted, IInv
  <2> QED  BY <1>6, <2>1, <2>2
<1>7. CASE UNCHANGED vars
  BY <1>7 DEF vars, AllCounted
<1> QED  BY <1>3, <1>4, <1>5, <1>6, <1>7 DEF Next

\* used_ is the number of entries and never exceeds size_, so that the test used_
\* == size_ finds every full table.
THEOREM UsedCountsCorrect == Spec => []UsedCounts
<1>1. Init => AllCounted
  BY EmptyCounted DEF Init, AllCounted
<1>2. AllCounted => UsedCounts
  BY DEF AllCounted, Counted, UsedCounts
<1> QED  BY <1>1, <1>2, CountStep, Invariance, PTL DEF Spec

-----------------------------------------------------------------------------
(* The refinement *)

Maps == [o \in Objects |-> MapOf(dict[o])]

LEMMA MapsUpdate ==
  ASSUME IInv, NEW o \in Objects, NEW d, dict' = [dict EXCEPT ![o] = d]
  PROVE  Maps' = [Maps EXCEPT ![o] = MapOf(d)]
BY DEF Maps, IInv

LEMMA MapsAre == Maps = [o \in Objects |-> [k \in Keys |-> Lookup(dict[o], k)]]
BY DEF Maps, MapOf

LEMMA MapsAt ==
  ASSUME NEW o \in Objects, NEW k \in Keys
  PROVE  Maps[o][k] = Lookup(dict[o], k)
BY DEF Maps, MapOf

LEMMA DeleteRefines ==
  ASSUME IInv, NEW o \in Objects, NEW k \in Keys, Delete(o, k)
  PROVE  /\ returned' = (Maps[o][k] # Missing)
         /\ Maps' = [Maps EXCEPT ![o][k] = Missing]
<1>1. Shape(dict[o])
  BY DEF IInv
<1>2. MapOf(Deleted(dict[o], k)) = [MapOf(dict[o]) EXCEPT ![k] = Missing]
  BY <1>1, DeletedCorrect, MapOfRemoved
<1>3. Maps' = [Maps EXCEPT ![o] = MapOf(Deleted(dict[o], k))]
  BY MapsUpdate DEF Delete
<1>4. returned' = (Maps[o][k] # Missing)
  <2>1. IsFound(dict[o], k) = (Maps[o][k] # Missing)
    BY <1>1, FindCorrect, MapsAt DEF IsFound, Has
  <2>2. QED
    BY <2>1 DEF Delete
<1>5. QED
  BY <1>2, <1>3, <1>4 DEF Maps

LEMMA AddRefines ==
  ASSUME IInv, NEW o \in Objects, NEW k \in Keys, NEW v \in Values, Add(o, k, v)
  PROVE  /\ returned' = (Maps[o][k] = Missing)
         /\ Maps[o][k] = Missing => Maps' = [Maps EXCEPT ![o][k] = v]
         /\ Maps[o][k] # Missing => Maps' = Maps
<1>1. Shape(dict[o]) /\ dict[o].size <= MaxSize
  BY DEF IInv, Add
<1>2. AddReturns(dict[o], k) <=> Maps[o][k] = Missing
  BY <1>1, AddedCorrect, MapsAt
<1>3. MapOf(Added(dict[o], k, v))
        = IF Maps[o][k] = Missing THEN [MapOf(dict[o]) EXCEPT ![k] = v] ELSE MapOf(dict[o])
  BY <1>1, <1>2, AddedCorrect, MapOfStored, MapSame
<1>4. Maps' = [Maps EXCEPT ![o] = MapOf(Added(dict[o], k, v))]
  BY MapsUpdate DEF Add
<1>5. returned' = (Maps[o][k] = Missing)
  <2>1. AddReturns(dict[o], k) = (Maps[o][k] = Missing)
    BY <1>2 DEF AddReturns, Has
  <2>2. QED
    BY <2>1 DEF Add
<1>6. QED
  BY <1>3, <1>4, <1>5 DEF Maps

LEMMA ReplaceRefines ==
  ASSUME IInv, NEW o \in Objects, NEW k \in Keys, NEW v \in Values, Replace(o, k, v)
  PROVE  /\ returned' = (Maps[o][k] = Missing)
         /\ Maps' = [Maps EXCEPT ![o][k] = v]
<1>1. Shape(dict[o]) /\ dict[o].size <= MaxSize
  BY DEF IInv, Replace
<1>2. AddReturns(dict[o], k) <=> Maps[o][k] = Missing
  BY <1>1, AddedCorrect, MapsAt
<1>3. MapOf(Replaced(dict[o], k, v)) = [MapOf(dict[o]) EXCEPT ![k] = v]
  BY <1>1, ReplacedCorrect, MapOfStored
<1>4. Maps' = [Maps EXCEPT ![o] = MapOf(Replaced(dict[o], k, v))]
  BY MapsUpdate DEF Replace
<1>5. returned' = (Maps[o][k] = Missing)
  <2>1. AddReturns(dict[o], k) = (Maps[o][k] = Missing)
    BY <1>2 DEF AddReturns, Has
  <2>2. QED
    BY <2>1 DEF Replace
<1>6. QED
  BY <1>3, <1>4, <1>5 DEF Maps

LEMMA ExpandRefines ==
  ASSUME IInv, NEW o \in Objects, NEW n \in 1 .. MaxSize, Expand(o, n)
  PROVE  returned' = TRUE /\ Maps' = Maps
<1>1. dict' = [dict EXCEPT ![o] = Expanded(@, n)]
  BY DEF Expand
<1>2. Shape(dict[o]) /\ n \in 1 .. 2 * MaxSize
  BY SizeAssumption DEF IInv
<1>3. MapOf(Expanded(dict[o], n)) = MapOf(dict[o])
  BY <1>2, ExpandedCorrect, MapSame
<1>4. Maps' = [Maps EXCEPT ![o] = MapOf(dict[o])]
  BY <1>1, <1>3, MapsUpdate
<1>5. QED
  BY <1>4 DEF Maps, Expand

LEMMA MoveRefines ==
  ASSUME IInv, NEW o \in Objects, NEW other \in Objects, Move(o, other)
  PROVE  Maps' = [Maps EXCEPT ![o] = Maps[other], ![other] = [k \in Keys |-> Missing]]
BY MapOfEmpty DEF Move, Maps, IInv

\* Whatever sequence of calls is made on whatever objects, each call returns
\* what it would return on finite maps, and leaves the same maps behind: no
\* expansion, copy or move loses, resurrects or changes a value.
THEOREM Refinement == Spec => ImplementsFiniteMap
<1>1. Init => Map!Init
  <2>1. Init => Maps = [o \in Objects |-> [k \in Keys |-> Missing]]
    BY MapOfEmpty DEF Init, Maps
  <2>2. QED
    BY <2>1, MapsAre DEF Map!Init, Map!Nothing, Init
<1>2. IInv /\ [Next]_vars => [Map!Next]_(Map!vars)
  <2> SUFFICES ASSUME IInv, [Next]_vars
               PROVE  Map!Next \/ UNCHANGED Map!vars
    OBVIOUS
  <2>0. /\ Maps = [o \in Objects |-> [k \in Keys |-> Lookup(dict[o], k)]]
        /\ Maps' = [o \in Objects |-> [k \in Keys |-> Lookup(dict[o], k)]]'
    BY MapsAre DEF Maps, MapOf
  <2>1. ASSUME NEW o \in Objects, NEW k \in Keys, Find(o, k)
        PROVE  Map!Find(o, k)
    <3>1. Shape(dict[o])
      BY DEF IInv
    <3>2. returned' = Maps[o][k] /\ dict' = dict
      BY <2>1, <3>1, FindCorrect, MapsAt DEF Find
    <3>3. QED
      BY <2>0, <3>2 DEF Map!Find, Maps
  <2>2. ASSUME NEW o \in Objects, NEW k \in Keys, Delete(o, k)
        PROVE  Map!Delete(o, k)
    BY <2>0, <2>2, DeleteRefines DEF Map!Delete
  <2>3. ASSUME NEW o \in Objects, NEW k \in Keys, NEW v \in Values, Add(o, k, v)
        PROVE  Map!Add(o, k, v)
    <3>1. CASE Maps[o][k] = Missing
      BY <2>0, <2>3, <3>1, AddRefines DEF Map!Add
    <3>2. CASE Maps[o][k] # Missing
      BY <2>0, <2>3, <3>2, AddRefines DEF Map!Add
    <3>3. QED
      BY <3>1, <3>2
  <2>4. ASSUME NEW o \in Objects, NEW k \in Keys, NEW v \in Values, Replace(o, k, v)
        PROVE  Map!Replace(o, k, v)
    BY <2>0, <2>4, ReplaceRefines, SMTT(30) DEF Map!Replace
  <2>5. ASSUME NEW o \in Objects, NEW n \in 1 .. MaxSize, Expand(o, n)
        PROVE  Map!Expand(o)
    BY <2>0, <2>5, ExpandRefines DEF Map!Expand
  <2>6. ASSUME NEW o \in Objects, NEW other \in Objects, Copy(o, other)
        PROVE  Map!Copy(o, other)
    <3>1. Maps' = [Maps EXCEPT ![o] = Maps[other]]
      BY <2>6, MapsUpdate DEF Copy, Maps
    <3>2. QED
      BY <2>0, <2>6, <3>1 DEF Map!Copy, Copy
  <2>7. ASSUME NEW o \in Objects, NEW other \in Objects, Move(o, other)
        PROVE  Map!Move(o, other)
    BY <2>0, <2>7, MoveRefines DEF Map!Move, Map!Nothing, Move
  <2>8. CASE UNCHANGED vars
    BY <2>8 DEF vars, Map!vars
  <2>9. ASSUME NEW o \in Objects, NEW n \in 1 .. MaxSize, Expand(o, n)
        PROVE  Map!Next
    BY <2>5, <2>9 DEF Map!Next
  <2>10. ASSUME NEW o \in Objects, NEW k \in Keys, Find(o, k) \/ Delete(o, k)
         PROVE  Map!Next
    BY <2>1, <2>2, <2>10 DEF Map!Next
  <2>11. ASSUME NEW o \in Objects, NEW k \in Keys, NEW v \in Values,
                Add(o, k, v) \/ Replace(o, k, v)
         PROVE  Map!Next
    BY <2>3, <2>4, <2>11 DEF Map!Next
  <2>12. ASSUME NEW o \in Objects, NEW other \in Objects, Copy(o, other) \/ Move(o, other)
         PROVE  Map!Next
    BY <2>6, <2>7, <2>12 DEF Map!Next
  <2>13. CASE Next
    BY <2>9, <2>10, <2>11, <2>12, <2>13 DEF Next
  <2> QED  BY <2>8, <2>13
<1>3. QED
  BY <1>1, <1>2, Invariance, PTL DEF Spec, ImplementsFiniteMap, Map!Spec
==============================================================================
