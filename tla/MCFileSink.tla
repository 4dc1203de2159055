----------------------------- MODULE MCFileSink -----------------------------
(* FileSink for TLC, with the bound on the processes that die in Rotate. *)
EXTENDS FileSink

CONSTANT MaxCrashes

CrashesBounded == crashes <= MaxCrashes
=============================================================================
