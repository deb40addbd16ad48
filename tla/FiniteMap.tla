------------------------------ MODULE FiniteMap ------------------------------
(***************************************************************************)
(* What base::Dictionary (src/base/dictionary.hpp) promises: each object   *)
(* is a finite map, and the value that a call returns is a function of     *)
(* the map alone.                                                          *)
(***************************************************************************)
CONSTANTS Objects, Keys, Values, Missing

VARIABLES
  map,        \* map[o][k]: the value of k in o, or Missing
  returned    \* what the last call returned

vars == <<map, returned>>

Nothing == [k \in Keys |-> Missing]

Init ==
  /\ map = [o \in Objects |-> Nothing]
  /\ returned = FALSE

\* Adding never changes a value that is there.
Add(o, k, v) ==
  /\ returned' = (map[o][k] = Missing)
  /\ map' = IF map[o][k] = Missing THEN [map EXCEPT ![o][k] = v] ELSE map

Replace(o, k, v) ==
  /\ returned' = (map[o][k] = Missing)
  /\ map' = [map EXCEPT ![o][k] = v]

Delete(o, k) ==
  /\ returned' = (map[o][k] # Missing)
  /\ map' = [map EXCEPT ![o][k] = Missing]

Find(o, k) ==
  /\ returned' = map[o][k]
  /\ UNCHANGED map

\* Changing the capacity changes nothing that can be found.
Expand(o) ==
  /\ returned' = TRUE
  /\ UNCHANGED map

Copy(o, other) ==
  /\ map' = [map EXCEPT ![o] = map[other]]
  /\ UNCHANGED returned

\* What is moved from is empty, even when it is moved to itself.
Move(o, other) ==
  /\ map' = [map EXCEPT ![o] = map[other], ![other] = Nothing]
  /\ UNCHANGED returned

Next ==
  \E o \in Objects :
    \/ \E k \in Keys : Find(o, k) \/ Delete(o, k)
    \/ \E k \in Keys, v \in Values : Add(o, k, v) \/ Replace(o, k, v)
    \/ Expand(o)
    \/ \E other \in Objects : Copy(o, other) \/ Move(o, other)

Spec == Init /\ [][Next]_vars
==============================================================================
