----------------------------- MODULE MCMessages -----------------------------
(* Constants of the run of Messages.                                       *)
EXTENDS Messages, TLC

Symmetry == Permutations(User) \cup Permutations(Proc)
=============================================================================
