----------------------------- MODULE MCPresence -----------------------------
(* The module of the runs of Presence, which need no further definitions.  *)
EXTENDS Presence, TLC
=============================================================================
