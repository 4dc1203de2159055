------------------------------ MODULE MCFraming ------------------------------
(* Framing for TLC: two connections, one of which carries more. *)
EXTENDS Framing, TLC

CONSTANTS c1, c2

MCFrames == c1 :> 3 @@ c2 :> 1
==============================================================================
