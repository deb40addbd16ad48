------------------------------ MODULE Bindings ------------------------------
(***************************************************************************)
(* What ZipMap (src/base/zipmap.hpp) promises: a list of bindings, oldest  *)
(* first, each filed under a hash code.  Set always adds one, unless its   *)
(* code is zero; Find and Delete take the first one of a key that is filed *)
(* under the hash code of the key; and compressing the list forgets the    *)
(* bindings that are filed under Fragile codes.                            *)
(***************************************************************************)
EXTENDS Naturals, SequencesExt, Subsequences

CONSTANTS
  Keys, Values,
  Hash,        \* the hash code of each key
  SetHashes,   \* those that Set may file it under
  Missing,     \* what Get gives for a key without a binding
  Fragile      \* hash codes that Zip loses

VARIABLES
  bindings,    \* a sequence of [key, value, hashcode]
  found        \* the last answer of Get

Init ==
  /\ bindings = <<>>
  /\ found = Missing

Of(k) == {i \in DOMAIN bindings : bindings[i].key = k /\ bindings[i].hashcode = Hash[k]}

Set(k, v, hashcode) ==
  /\ bindings' = IF hashcode = 0 THEN bindings
                 ELSE Append(bindings, [key |-> k, value |-> v, hashcode |-> hashcode])
  /\ UNCHANGED found

Get(k) ==
  /\ found' = IF Of(k) = {} THEN Missing ELSE bindings[Min(Of(k))].value
  /\ UNCHANGED bindings

Delete(k) ==
  /\ Of(k) # {}
  /\ bindings' = RemoveAt(bindings, Min(Of(k)))
  /\ UNCHANGED found

Compress ==
  /\ bindings' = Only(bindings, {i \in DOMAIN bindings : bindings[i].hashcode \notin Fragile})
  /\ UNCHANGED found

Next ==
  \/ \E k \in Keys :
       \/ Get(k) \/ Delete(k)
       \/ \E v \in Values, hashcode \in SetHashes[k] : Set(k, v, hashcode)
  \/ Compress

Spec == Init /\ [][Next]_<<bindings, found>>
=============================================================================
