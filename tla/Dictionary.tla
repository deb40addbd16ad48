----------------------------- MODULE Dictionary -----------------------------
(***************************************************************************)
(* base::Dictionary, src/base/dictionary.hpp: a hash table of chained      *)
(* buckets whose size is a power of two and doubles when it is full.       *)
(*                                                                         *)
(* dict[o] is the object o: its members table_, size_, sizeMask_, used_.   *)
(* A bucket is the set of its entries; their order in the list changes no  *)
(* result while keys are unique (KeysUnique).  The index hash & sizeMask_  *)
(* is written with %, which is the same when sizeMask_ + 1 is a power of   *)
(* two (AlignIsLeast).                                                     *)
(***************************************************************************)
EXTENDS Naturals, FiniteSets

CONSTANTS
  Objects,          \* the Dictionary objects
  Keys, Values,
  Missing,          \* std::nullopt
  Hash,             \* hash_: a function from keys to naturals
  InitialSize,      \* HT_INITIAL_SIZE
  MaxSize,          \* bound: the largest capacity asked for
  AlignedSize(_)    \* AlignExpandSize

ASSUME HashAssumption == Hash \in [Keys -> Nat]
ASSUME SizeAssumption == MaxSize \in Nat /\ InitialSize \in 1 .. MaxSize
ASSUME AlignAssumption ==
  \A n \in 1 .. 2 * MaxSize : AlignedSize(n) \in Nat /\ AlignedSize(n) >= n
ASSUME MissingAssumption == Missing \notin Values /\ Missing \notin BOOLEAN

VARIABLES
  dict,       \* the objects
  returned    \* what the last call returned

vars == <<dict, returned>>

Entry == Keys \X Values

EmptyDictionary == [table |-> <<>>, size |-> 0, sizeMask |-> 0, used |-> 0]

Init ==
  /\ dict = [o \in Objects |-> EmptyDictionary]
  /\ returned = FALSE

-----------------------------------------------------------------------------
(* One object *)

Index(d, k) == Hash[k] % (d.sizeMask + 1)
Bucket(d, k) == d.table[Index(d, k)]
Entries(d) == UNION {d.table[i] : i \in 0 .. d.size - 1}
Has(d, k) == \E e \in Bucket(d, k) : e[1] = k

\* Expand: every entry moves to the bucket of the new mask.
NewMask_Old(d, size) == d.sizeMask
NewMask(d, size) == size - 1

Expanded(d, n) ==
  LET size == AlignedSize(n)
  IN  [table |-> [i \in 0 .. size - 1 |-> {e \in Entries(d) : Hash[e[1]] % size = i}],
       size |-> size, sizeMask |-> NewMask(d, size), used |-> d.used]

\* The table grows when it is exactly full.
IsFull(d) == d.used = d.size

ExpandedIfNeeded(d) ==
  IF d.size = 0 THEN Expanded(d, InitialSize)
  ELSE IF IsFull(d) THEN Expanded(d, d.size * 2)
  ELSE d

\* Put the pairs of "now" where the pairs of "old" are in the bucket of k.
InBucket(d, k, old, now) ==
  [d EXCEPT !.table[Index(d, k)] = (@ \ old) \cup now]

EntriesOf(d, k) == {e \in Bucket(d, k) : e[1] = k}

\* FindBucketIndex expands before it looks whether the key is there.
Added(d, k, v) ==
  LET e == ExpandedIfNeeded(d)
  IN  IF Has(e, k) THEN e
      ELSE [InBucket(e, k, {}, {<<k, v>>}) EXCEPT !.used = @ + 1]

AddReturns(d, k) == ~Has(ExpandedIfNeeded(d), k)

Replaced(d, k, v) ==
  IF AddReturns(d, k) THEN Added(d, k, v)
  ELSE LET e == ExpandedIfNeeded(d) IN InBucket(e, k, EntriesOf(e, k), {<<k, v>>})

IsFound(d, k) == d.size # 0 /\ Has(d, k)

UsedAfterDelete_Kept(d) == d.used
UsedAfterDelete(d) == d.used - 1

Deleted(d, k) ==
  IF ~IsFound(d, k) THEN d
  ELSE [InBucket(d, k, EntriesOf(d, k), {}) EXCEPT !.used = UsedAfterDelete(d)]

Found(d, k) ==
  IF IsFound(d, k) THEN (CHOOSE e \in Bucket(d, k) : e[1] = k)[2] ELSE Missing

-----------------------------------------------------------------------------
(* The calls *)

Add(o, k, v) ==
  /\ dict[o].size <= MaxSize
  /\ dict' = [dict EXCEPT ![o] = Added(@, k, v)]
  /\ returned' = AddReturns(dict[o], k)

Replace(o, k, v) ==
  /\ dict[o].size <= MaxSize
  /\ dict' = [dict EXCEPT ![o] = Replaced(@, k, v)]
  /\ returned' = AddReturns(dict[o], k)

Delete(o, k) ==
  /\ dict' = [dict EXCEPT ![o] = Deleted(@, k)]
  /\ returned' = IsFound(dict[o], k)

Find(o, k) ==
  /\ returned' = Found(dict[o], k)
  /\ UNCHANGED dict

\* The caller may not ask for less than is stored, which Expand asserts; zero
\* shifts by 64 bits, which is undefined, and is left out.
Expand(o, n) ==
  /\ n >= dict[o].used
  /\ dict' = [dict EXCEPT ![o] = Expanded(@, n)]
  /\ returned' = TRUE

\* The copy constructor and the copy assignment.
Copy(o, other) ==
  /\ dict' = [dict EXCEPT ![o] = dict[other]]
  /\ UNCHANGED returned

\* The move constructor and the move assignment: swap, then clear the other.
Move(o, other) ==
  /\ dict' = [dict EXCEPT ![o] = dict[other], ![other] = EmptyDictionary]
  /\ UNCHANGED returned

Next ==
  \E o \in Objects :
    \/ \E k \in Keys : Find(o, k) \/ Delete(o, k)
    \/ \E k \in Keys, v \in Values : Add(o, k, v) \/ Replace(o, k, v)
    \/ \E n \in 1 .. MaxSize : Expand(o, n)
    \/ \E other \in Objects : Copy(o, other) \/ Move(o, other)

Spec == Init /\ [][Next]_vars

-----------------------------------------------------------------------------
(* Properties *)

\* Every entry is in the bucket where Find will look for it, through every
\* sequence of expansions, copies and moves.
EntriesInBucket ==
  \A o \in Objects : \A i \in 0 .. dict[o].size - 1 :
    \A e \in dict[o].table[i] : Index(dict[o], e[1]) = i

\* A key is stored once.
KeysUnique ==
  \A o \in Objects : \A d, e \in Entries(dict[o]) : d[1] = e[1] => d = e

\* used_ counts the entries, which Expand asserts on line 114, and never exceeds
\* size_: the growth test compares the two with ==, so that one entry too many,
\* or a count that has drifted, would end the growth for ever.
UsedCounts ==
  \A o \in Objects :
    /\ dict[o].used = Cardinality(Entries(dict[o]))
    /\ dict[o].used <= dict[o].size

\* The value of k in d, wherever its entry is.
Lookup(d, k) ==
  IF \E e \in Entries(d) : e[1] = k
  THEN (CHOOSE e \in Entries(d) : e[1] = k)[2] ELSE Missing

\* The objects are finite maps.
Map == INSTANCE FiniteMap WITH
  map <- [o \in Objects |-> [k \in Keys |-> Lookup(dict[o], k)]]

ImplementsFiniteMap == Map!Spec
=============================================================================
