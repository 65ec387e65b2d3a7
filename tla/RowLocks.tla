------------------------------ MODULE RowLocks ------------------------------
(***************************************************************************)
(* The row locks of PostgreSQL that the transactions of service.go rely    *)
(* on, as constant operators.  A lock is a row and a mode: SELECT ... FOR  *)
(* UPDATE and UPDATE take "update", the check of a foreign key takes       *)
(* "keyShare" (FOR KEY SHARE) on the row it refers to.  `held' is the      *)
(* function from transactions to the locks they hold until they end.       *)
(***************************************************************************)
EXTENDS FiniteSets

ForUpdate(row) == [row |-> row, mode |-> "update"]
KeyShare(row)  == [row |-> row, mode |-> "keyShare"]

\* The locks on the same row that exclude l: only two key shares go together.
Excluding(l) == {ForUpdate(l.row)}
                    \cup (IF l.mode = "update" THEN {KeyShare(l.row)} ELSE {})

\* The transactions other than p that hold a lock which excludes l.
Holders(held, p, l) ==
    {q \in DOMAIN held \ {p} : held[q] \cap Excluding(l) # {}}

\* Every member of S waits for another one of S.
Stuck(S, BlockedBy(_)) == S # {} /\ \A p \in S : BlockedBy(p) \cap S # {}

\* A smallest such set is a cycle of the waits-for graph, which the lock
\* manager finds and breaks by aborting a transaction on it.
Cycle(S, BlockedBy(_)) ==
    /\ Stuck(S, BlockedBy)
    /\ \A T \in SUBSET S : T # S => ~Stuck(T, BlockedBy)
=============================================================================
