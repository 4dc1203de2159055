------------------------------ MODULE MCBuffer ------------------------------
(* Buffer for TLC: two buffers and a pool that holds one vector. *)
EXTENDS Buffer

CONSTANTS b1, b2

MCBuffers == {b1, b2}
=============================================================================
