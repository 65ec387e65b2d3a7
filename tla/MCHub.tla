------------------------------- MODULE MCHub -------------------------------
(* Constants of the runs of Hub.                                           *)
EXTENDS Hub, TLC

CONSTANTS handler, cleaner

Symmetry == Permutations(Client)
=============================================================================
