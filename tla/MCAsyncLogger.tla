--------------------------- MODULE MCAsyncLogger ---------------------------
(* AsyncLogger for TLC: two producers, a queue of one or two entries and   *)
(* batches smaller than what may be pending.                               *)
EXTENDS AsyncLogger, TLC

CONSTANTS p1, p2

MCProducers == {p1, p2}
============================================================================
