---------------------------- MODULE MCEventLoop ----------------------------
(* EventLoop for TLC: two posters, and two connection descriptors that     *)
(* three connections share, so that descriptors are used again.            *)
EXTENDS EventLoop, TLC

CONSTANTS t1, t2

MCPosters == {t1, t2}
============================================================================
