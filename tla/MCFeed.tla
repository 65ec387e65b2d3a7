------------------------------- MODULE MCFeed -------------------------------
(* Constants of the runs of Feed.                                          *)
EXTENDS Feed, TLC

Symmetry == Permutations(User) \cup Permutations(Handler)
=============================================================================
