----------------------------- MODULE MCProcess -----------------------------
(* The module of the run of Process, which needs no further definitions.   *)
EXTENDS Process, TLC
=============================================================================
