----------------------- MODULE MCSimpleDynamicString ------------------------
(***************************************************************************)
(* Two strings of a letter in its two cases: every length up to MaxLength, *)
(* with every amount of free space that growing, cutting and copying them  *)
(* can leave.                                                              *)
(***************************************************************************)
EXTENDS SimpleDynamicString, TLC

CONSTANTS s1, s2, a, A, nul

MCStrings == {s1, s2}
Symmetry == Permutations(MCStrings)
MCBytes == {a, A}
MCInputs == {<<>>, <<a>>, <<a, A>>}
MCRooms == {1}
MCCaseMaps == {a :> A @@ A :> A @@ nul :> nul}

Joined(pieces, separator) ==
  FoldLeft(LAMBDA joined, p : joined \o separator \o p, Head(pieces), Tail(pieces))

\* Split loses nothing, and leaves no separator in a piece.
ASSUME SplitCuts ==
  \A t \in BoundedSeq(MCBytes, 5), separator \in {<<a>>, <<A, A>>, <<a, A>>} :
    LET pieces == Split(t, separator) IN
    /\ t = Joined(pieces, separator)
    /\ \A i \in DOMAIN pieces : Found(pieces[i], separator, 1) = {}
=============================================================================
