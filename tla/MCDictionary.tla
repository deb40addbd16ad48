---------------------------- MODULE MCDictionary ----------------------------
(***************************************************************************)
(* Small instances of Dictionary: two objects, three keys of which two     *)
(* collide in a small table and part in a larger one, and a first table    *)
(* of two buckets (four in the code), so that the third key doubles it.    *)
(***************************************************************************)
EXTENDS Dictionary, AlignExpandSize, TLC

CONSTANTS o1, o2, k1, k2, k3, v1, v2

MCObjects == {o1, o2}
MCKeys == {k1, k2, k3}
MCValues == {v1, v2}
MCHash == k1 :> 0 @@ k2 :> 2 @@ k3 :> 5

\* From two on, AlignExpandSize returns the least power of two that is enough
\* (line 252): Dictionary relies on it where it masks a hash instead of dividing
\* it.
ASSUME AlignIsLeast == \A size \in 2 .. 5000 : AlignExpandSize(size) = LeastPower(size)

\* Line 252 says so of every size, but of one the search makes two, not 2^0.
ASSUME OneMakesTwo == AlignExpandSize(1) = 2
=============================================================================
