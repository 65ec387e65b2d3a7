------------------------------- MODULE Ledger -------------------------------
(***************************************************************************)
(* The score bookkeeping of a room, as constant operators.  A transfer is  *)
(* a row of score_transfers: the members it runs from and to, its amount   *)
(* and its status.  Both CreateTransfer and TransferAction change two      *)
(* member rows by the amount of one transfer, so a member's score should   *)
(* be the sum of the transfers that count, the pending ones.               *)
(***************************************************************************)
EXTENDS Integers, Sequences

\* What a transfer that counts adds to u's score (score - amount for the
\* sender, score + amount for the receiver).
Effect(t, u) == IF u = t.from THEN -t.amount
                ELSE IF u = t.to THEN t.amount ELSE 0

\* The row once u has rolled it back or rejected it.
Resolved(t, how, u) ==
    [from |-> t.from, to |-> t.to, amount |-> t.amount, status |-> how, by |-> u]

\* The transfers of ts that nobody has rolled back or rejected.
Pending(ts) == {i \in DOMAIN ts : ts[i].status = "pending"}

\* u's score when exactly the transfers in P count: balance[i] is the score
\* after the first i of them.
Net(ts, P, u) ==
    LET balance[i \in 0 .. Len(ts)] ==
            IF i = 0 THEN 0
            ELSE balance[i - 1] + (IF i \in P THEN Effect(ts[i], u) ELSE 0)
    IN  balance[Len(ts)]
=============================================================================
