------------------------------ MODULE MCClient ------------------------------
(* Client for TLC: two attempts, before, between and after calls of        *)
(* Disconnect.                                                             *)
EXTENDS Client, TLC
=============================================================================
