--------------------------- MODULE MCMessageQueue ---------------------------
(* Small instances of MessageQueue. *)
EXTENDS MessageQueue, TLC

CONSTANTS p1, p2, c1, c2

MCProducers == {p1, p2}
MCConsumers == {c1, c2}

\* Threads of one kind are interchangeable (safety runs only).
Symmetry == Permutations(MCProducers) \cup Permutations(MCConsumers)
=============================================================================
