--------------------------- MODULE AlignExpandSize ---------------------------
(***************************************************************************)
(* The growth policy of base::Dictionary: AlignExpandSize                  *)
(* (src/base/dictionary.hpp), a binary search for the highest bit.         *)
(***************************************************************************)
EXTENDS Naturals, Sequences, SequencesExt

\* Bound: sizes below 2^31, TLC's integers.  The first test of the code, for
\* sizes of 2^32 and more, is then always false.
Shifts == <<16, 8, 4, 2, 1>>

\* One test of the search: state is <<idx, size>>.
Narrow(state, shift) ==
  IF state[2] >= 2 ^ shift THEN <<state[1] - shift, state[2] \div 2 ^ shift>> ELSE state

AlignExpandSize(size) ==
  LET idx == FoldLeft(Narrow, <<63, size - 1>>, Shifts)[1]
  IN  2 ^ (64 - idx)

\* What the comment on line 252 asks for: the least power of two that is at least size.
LeastPower(size) ==
  LET n == CHOOSE n \in 0 .. 30 : 2 ^ n >= size /\ \A m \in 0 .. n - 1 : 2 ^ m < size
  IN  2 ^ n
==============================================================================
