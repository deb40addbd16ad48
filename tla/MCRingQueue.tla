----------------------------- MODULE MCRingQueue -----------------------------
(* A ring of four slots. *)
EXTENDS RingQueue

CONSTANTS a, b

MCElements == {a, b}
==============================================================================
