----------------------------- MODULE MCAccounts -----------------------------
(* Constants of the runs of Accounts.                                      *)
EXTENDS Accounts, TLC

CONSTANTS c1, c2

\* One code for a single user that grants a role, one for two users that
\* grants another.
Roles == (c1 :> "member") @@ (c2 :> "admin")
Uses  == (c1 :> 1) @@ (c2 :> 2)

CodeKinds == {"register", "wechat", "update", "issue", "redeem"}
LiveKinds == {"wechat", "login", "issue", "redeem"}

Symmetry == Permutations(Proc)
=============================================================================
