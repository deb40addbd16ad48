------------------------------ MODULE MCZipMap ------------------------------
(***************************************************************************)
(* A small instance of ZipMap: two keys with the same hash code, of which  *)
(* one may also be filed under another, one with a low byte of zero and    *)
(* one with no other byte; an index of at most three entries; blocks of 3  *)
(* to 6 bytes, so that some holes are ones that Zip walks through and      *)
(* others ones that it stumbles over.                                      *)
(***************************************************************************)
EXTENDS ZipMap, TLC

CONSTANTS k1, k2, k3, k4, v1, v2

MCKeys == {k1, k2, k3, k4}
MCValues == {v1, v2}
MCHash == k1 :> 261 @@ k2 :> 261 @@ k3 :> 512 @@ k4 :> 0
MCSetHashes == k1 :> {261} @@ k2 :> {261, 518} @@ k3 :> {512} @@ k4 :> {0}
MCSize == k1 :> 0 @@ k2 :> 1 @@ k3 :> 0 @@ k4 :> 0 @@ v1 :> 0 @@ v2 :> 2
=============================================================================
