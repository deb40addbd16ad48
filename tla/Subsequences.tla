---------------------------- MODULE Subsequences ----------------------------
(***************************************************************************)
(* What is left of a sequence when some of its positions are chosen: what  *)
(* SelectSeq does with a test, for a set of positions, as a recursive      *)
(* function that proofs can unfold.                                        *)
(***************************************************************************)
EXTENDS Naturals, Sequences

\* The elements of s at the positions in P, in their order.
Only(s, P) ==
  LET only[i \in 0 .. Len(s)] ==
        IF i = 0 THEN <<>>
        ELSE IF i \in P THEN Append(only[i - 1], s[i]) ELSE only[i - 1]
  IN  only[Len(s)]
=============================================================================
