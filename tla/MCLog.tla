-------------------------------- MODULE MCLog --------------------------------
(* Logs used by two threads, which post two entries each, of which the second *)
(* does not fit the buffer. *)
EXTENDS Log

CONSTANTS p1, p2

MCProducers == {p1, p2}
MCConsumers == {Worker, Closer}
MCTextLength == <<2, 4>>
==============================================================================
