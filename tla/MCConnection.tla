---------------------------- MODULE MCConnection ----------------------------
(* Connection for TLC: three messages of two bytes and a socket that holds *)
(* three bytes, so that a write is cut in the middle of a message; and one *)
(* thread besides the loop's that may close.                               *)
EXTENDS Connection, TLC

CONSTANT c1

OneCloser == {c1}
=============================================================================
