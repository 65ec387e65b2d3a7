------------------------------ MODULE Accounts ------------------------------
(***************************************************************************)
(* Users and activation codes under concurrent handlers: first login and   *)
(* registration, the edit of one's own profile, the issue and the          *)
(* redemption of codes.  As in RoomTransactions a handler is a transaction *)
(* of statements, and its writes are applied with its commit.              *)
(***************************************************************************)
EXTENDS Integers, FiniteSets, RowLocks

CONSTANTS Identity,    \* values of users.wx_openid
          Admin,       \* the one whom an operator has made super_admin by hand
          NoIdentity,
          Code, NoCode,
          TargetRole,  \* the role a code grants
          MaxUses,     \* how many users may redeem it
          Proc,        \* handlers running at the same time
          Kinds        \* the requests that clients send

Role == {"normal", "member", "admin", "super_admin"}

AllKinds == {"wechat", "register", "login", "update", "issue", "redeem"}

ASSUME ConstantsAssumption ==
    /\ Admin \in Identity
    /\ NoIdentity \notin Identity
    /\ NoCode \notin Code
    /\ TargetRole \in [Code -> Role]
    /\ MaxUses \in [Code -> Nat \ {0}]
    /\ Kinds \subseteq AllKinds

VARIABLES exists,     \* the identities that have a users row
          role,       \* users.role
          nickname,   \* users.nickname: "default" until its owner edits it
          issued,     \* the activation_codes rows
          expired,    \* the codes whose expires_at has passed
          used,       \* activation_codes.used_count
          redeemed    \* the activation_redeems rows

VARIABLES held,       \* the row locks of each handler's transaction
          pc,         \* its next statement
          req,        \* the request it serves
          seen        \* the users row it has read

rows  == <<exists, role, nickname, issued, expired, used, redeemed>>
local == <<held, pc, req, seen>>
vars  == <<exists, role, nickname, issued, expired, used, redeemed,
           held, pc, req, seen>>

CodeRow(c)     == <<"code", c>>
UserRow(u)     == <<"user", u>>
IdentityKey(u) == <<"identity", u>>  \* an uncommitted entry of the unique index

Locks == {ForUpdate(CodeRow(c)) : c \in Code}
         \cup UNION {{ForUpdate(UserRow(u)), KeyShare(UserRow(u)),
                      ForUpdate(IdentityKey(u))} : u \in Identity}

Request == [kind : AllKinds, user : Identity, code : Code \cup {NoCode}]
NoRequest == [kind |-> "none", user |-> NoIdentity, code |-> NoCode]

Inputs == {r \in Request : /\ r.kind \in Kinds
                           /\ (r.kind = "redeem") = (r.code # NoCode)}

NoRow == [role |-> "normal", nickname |-> "default"]

\* The first statement of each handler.
Entry(kind) == CASE kind = "wechat" -> "find"
                 [] kind = "register" -> "insert"
                 [] kind = "login" -> "look"
                 [] kind = "update" -> "readUser"
                 [] kind = "issue" -> "actor"
                 [] kind = "redeem" -> "code"

Init ==
    /\ exists = {Admin}
    /\ role = [u \in Identity |-> IF u = Admin THEN "super_admin" ELSE "normal"]
    /\ nickname = [u \in Identity |-> "default"]
    /\ issued = {}
    /\ expired = {}
    /\ used = [c \in Code |-> 0]
    /\ redeemed = {}
    /\ held = [p \in Proc |-> {}]
    /\ pc = [p \in Proc |-> "idle"]
    /\ req = [p \in Proc |-> NoRequest]
    /\ seen = [p \in Proc |-> NoRow]

\* Only a user who has logged in holds a token for the last three.
Start(p, r) ==
    /\ pc[p] = "idle"
    /\ r.kind \in {"update", "issue", "redeem"} => r.user \in exists
    /\ pc' = [pc EXCEPT ![p] = Entry(r.kind)]
    /\ req' = [req EXCEPT ![p] = r]
    /\ UNCHANGED <<held, seen>>
    /\ UNCHANGED rows

\* The transaction ends and the handler answers.
Finish(p) ==
    /\ held' = [held EXCEPT ![p] = {}]
    /\ pc' = [pc EXCEPT ![p] = "idle"]
    /\ req' = [req EXCEPT ![p] = NoRequest]
    /\ seen' = [seen EXCEPT ![p] = NoRow]

Free(p, l) == Holders(held, p, l) = {}

GoTo(p, next) == pc' = [pc EXCEPT ![p] = next]

\* A statement that changes nothing but the handler's own place.
Proceed(p, next) ==
    /\ GoTo(p, next)
    /\ UNCHANGED <<held, req, seen>>
    /\ UNCHANGED rows

Take(p, l, next) ==
    /\ Free(p, l)
    /\ held' = [held EXCEPT ![p] = @ \cup {l}]
    /\ GoTo(p, next)

\* Mutant: an early return keeps the transaction open.
Refuse_KeepsLocks(p) ==
    /\ pc' = [pc EXCEPT ![p] = "idle"]
    /\ req' = [req EXCEPT ![p] = NoRequest]
    /\ seen' = [seen EXCEPT ![p] = NoRow]
    /\ UNCHANGED held /\ UNCHANGED rows

\* The transaction is rolled back: a condition is not met, a statement has
\* failed or, in AbortVictim, the database says so.
Refuse(p) == Finish(p) /\ UNCHANGED rows
-----------------------------------------------------------------------------
(* Login.                                                                  *)

\* WechatLogin's first transaction locks the row it finds and ends there.
FindUser(p) ==
    LET u == req[p].user
    IN  /\ pc[p] = "find"
        /\ \/ u \in exists /\ Free(p, ForUpdate(UserRow(u))) /\ Proceed(p, "touch")
           \/ u \notin exists /\ Proceed(p, "insert")

\* Mutant: users.wx_openid is not unique.
InsertUser_NoKey(p) ==
    LET u == req[p].user
    IN  /\ pc[p] = "insert"
        /\ \/ u \notin exists /\ Proceed(p, "created")
           \/ u \in exists /\ Refuse(p)

\* An INSERT waits for another transaction that inserts the same identity.
\* When that one has committed the INSERT fails and leaves a transaction that
\* can only be rolled back: Register reports it, WechatLogin goes on to
\* COMMIT, which fails.
InsertUser(p) ==
    LET u == req[p].user
    IN  /\ pc[p] = "insert"
        /\ \/ /\ u \notin exists
              /\ Take(p, ForUpdate(IdentityKey(u)), "created")
              /\ UNCHANGED <<req, seen>>
              /\ UNCHANGED rows
           \/ u \in exists /\ Refuse(p)

CommitUser(p) ==
    /\ pc[p] = "created"
    /\ exists' = exists \cup {req[p].user}
    /\ held' = [held EXCEPT ![p] = {}]
    /\ GoTo(p, "touch")
    /\ UNCHANGED <<role, nickname, issued, expired, used, redeemed>>
    /\ UNCHANGED <<req, seen>>

LookUp(p) ==
    /\ pc[p] = "look"
    /\ \/ req[p].user \in exists /\ Proceed(p, "touch")
       \/ req[p].user \notin exists /\ Refuse(p)

\* loginByIdentity locks the row, updates its times and signs a token.
Touch(p) ==
    /\ pc[p] = "touch"
    /\ Free(p, ForUpdate(UserRow(req[p].user)))
    /\ Finish(p)
    /\ UNCHANGED rows
-----------------------------------------------------------------------------
(* The profile.                                                            *)

\* UpdateMe reads the whole row without locking it ...
ReadUser(p) ==
    LET u == req[p].user
    IN  /\ pc[p] = "readUser"
        /\ seen' = [seen EXCEPT ![p] = [role |-> role[u], nickname |-> nickname[u]]]
        /\ GoTo(p, "save")
        /\ UNCHANGED <<held, req>>
        /\ UNCHANGED rows

\* ... and writes the whole row back, once nobody holds it FOR UPDATE: an
\* UPDATE that leaves the key alone goes together with key shares.
SaveUser(p) ==
    LET u == req[p].user
    IN  /\ pc[p] = "save"
        /\ Free(p, KeyShare(UserRow(u)))
        /\ nickname' = [nickname EXCEPT ![u] = "edited"]
        /\ role' = [role EXCEPT ![u] = seen[p].role]
        /\ Finish(p)
        /\ UNCHANGED <<exists, issued, expired, used, redeemed>>
-----------------------------------------------------------------------------
(* Activation codes.                                                       *)

ReadActor(p) ==
    /\ pc[p] = "actor"
    /\ \/ role[req[p].user] = "super_admin" /\ Proceed(p, "issue")
       \/ role[req[p].user] # "super_admin" /\ Refuse(p)

\* A random code that exists already is drawn again, five times at most.  The
\* new row's foreign key shares the creator's users row for that one statement.
IssueCode(p) ==
    /\ pc[p] = "issue"
    /\ \/ /\ Free(p, KeyShare(UserRow(req[p].user)))
          /\ \E c \in Code \ issued : issued' = issued \cup {c}
          /\ Finish(p)
          /\ UNCHANGED <<exists, role, nickname, expired, used, redeemed>>
       \/ issued # {} /\ Refuse(p)

Expire(c) ==
    /\ c \in issued \ expired
    /\ expired' = expired \cup {c}
    /\ UNCHANGED <<exists, role, nickname, issued, used, redeemed>>
    /\ UNCHANGED local

Redeemable(c) == c \in issued /\ used[c] < MaxUses[c] /\ c \notin expired

\* Mutant: the code is read without FOR UPDATE.
LockCode_Unlocked(p) ==
    /\ pc[p] = "code"
    /\ \/ Redeemable(req[p].code) /\ Proceed(p, "redeem")
       \/ ~Redeemable(req[p].code) /\ Refuse(p)

LockCode(p) ==
    LET c == req[p].code
    IN  /\ pc[p] = "code"
        /\ \/ /\ Redeemable(c)
              /\ Take(p, ForUpdate(CodeRow(c)), "redeem")
              /\ UNCHANGED <<req, seen>>
              /\ UNCHANGED rows
           \/ /\ ~Redeemable(c)
              /\ c \in issued => Free(p, ForUpdate(CodeRow(c)))
              /\ Refuse(p)

\* The new activation_redeems row is unique per code and user, and its
\* foreign key shares the users row.
InsertRedeem(p) ==
    LET r == req[p]
    IN  /\ pc[p] = "redeem"
        /\ \/ /\ <<r.code, r.user>> \notin redeemed
              /\ Take(p, KeyShare(UserRow(r.user)), "user")
              /\ UNCHANGED <<req, seen>>
              /\ UNCHANGED rows
           \/ <<r.code, r.user>> \in redeemed /\ Refuse(p)

\* Mutant: the user is read without FOR UPDATE.
LockUser_Unlocked(p) ==
    LET u == req[p].user
    IN  /\ pc[p] = "user"
        /\ GoTo(p, "grant")
        /\ seen' = [seen EXCEPT ![p] = [role |-> role[u], nickname |-> nickname[u]]]
        /\ UNCHANGED <<held, req>>
        /\ UNCHANGED rows

LockUser(p) ==
    LET u == req[p].user
    IN  /\ pc[p] = "user"
        /\ Take(p, ForUpdate(UserRow(u)), "grant")
        /\ seen' = [seen EXCEPT ![p] = [role |-> role[u], nickname |-> nickname[u]]]
        /\ UNCHANGED <<req>>
        /\ UNCHANGED rows

\* Mutants: the redemption leaves no row; the uses are counted down.
Grant_Other(p, redemptions, count) ==
    LET u == req[p].user
        c == req[p].code
    IN  /\ pc[p] = "grant"
        /\ redeemed' = redeemed \cup redemptions
        /\ used' = [used EXCEPT ![c] = @ + count]
        /\ role' = [role EXCEPT ![u] = TargetRole[c]]
        /\ nickname' = [nickname EXCEPT ![u] = seen[p].nickname]
        /\ Finish(p)
        /\ UNCHANGED <<exists, issued, expired>>
Grant_NoRow(p)      == Grant_Other(p, {}, 1)
Grant_CountsDown(p) == Grant_Other(p, {<<req[p].code, req[p].user>>}, -1)

Grant(p) ==
    LET u == req[p].user
        c == req[p].code
    IN  /\ pc[p] = "grant"
        /\ redeemed' = redeemed \cup {<<c, u>>}
        /\ used' = [used EXCEPT ![c] = @ + 1]
        /\ role' = [role EXCEPT ![u] = TargetRole[c]]
        /\ nickname' = [nickname EXCEPT ![u] = seen[p].nickname]
        /\ Finish(p)
        /\ UNCHANGED <<exists, issued, expired>>
-----------------------------------------------------------------------------
\* The request's context is cancelled or the connection is lost.
Cancel(p) == pc[p] # "idle" /\ Finish(p) /\ UNCHANGED rows

\* The lock that p's next statement waits for.
Wanted(p) ==
    LET u == req[p].user
        c == req[p].code
    IN  CASE pc[p] \in {"find", "touch"} /\ u \in exists -> {ForUpdate(UserRow(u))}
          [] pc[p] = "insert" /\ u \notin exists -> {ForUpdate(IdentityKey(u))}
          [] pc[p] \in {"save", "issue"} -> {KeyShare(UserRow(u))}
          [] pc[p] = "code" /\ c \in issued -> {ForUpdate(CodeRow(c))}
          [] pc[p] = "redeem" /\ <<c, u>> \notin redeemed -> {KeyShare(UserRow(u))}
          [] pc[p] = "user" -> {ForUpdate(UserRow(u))}
          [] OTHER -> {}

BlockedBy(p) == UNION {Holders(held, p, l) : l \in Wanted(p)}

\* Two redemptions by one user share the users row and then each wait to lock
\* it; PostgreSQL aborts one of them.
AbortVictim(p) ==
    /\ \E S \in SUBSET Proc : p \in S /\ Cycle(S, BlockedBy)
    /\ Refuse(p)

Advance(p) ==
    \/ FindUser(p) \/ InsertUser(p) \/ CommitUser(p) \/ LookUp(p) \/ Touch(p)
    \/ ReadUser(p) \/ SaveUser(p)
    \/ ReadActor(p) \/ IssueCode(p)
    \/ LockCode(p) \/ InsertRedeem(p) \/ LockUser(p) \/ Grant(p)

Next ==
    \/ \E c \in Code : Expire(c)
    \/ \E p \in Proc :
          \/ \E r \in Inputs : Start(p, r)
          \/ Advance(p)
          \/ Cancel(p)
          \/ AbortVictim(p)

Spec == Init /\ [][Next]_vars

\* A lock queue serves everybody in turn, and every deadlock is found.
Fairness == \A p \in Proc : SF_vars(Advance(p)) /\ WF_vars(AbortVictim(p))

FairSpec == Spec /\ Fairness
-----------------------------------------------------------------------------
(* Properties.                                                             *)

PC == {"idle", "find", "insert", "created", "look", "touch", "readUser", "save",
       "actor", "issue", "code", "redeem", "user", "grant"}

\* The tables and every handler's local state keep their types.
TypeOK ==
    /\ exists \subseteq Identity
    /\ role \in [Identity -> Role]
    /\ nickname \in [Identity -> {"default", "edited"}]
    /\ issued \subseteq Code /\ expired \subseteq Code
    /\ used \in [Code -> Nat]
    /\ redeemed \subseteq Code \X Identity
    /\ held \in [Proc -> SUBSET Locks]
    /\ pc \in [Proc -> PC]
    /\ req \in [Proc -> Request \cup {NoRequest}]
    /\ seen \in [Proc -> [role : Role, nickname : {"default", "edited"}]]

\* used_count is the number of users who have redeemed the code and never
\* exceeds max_uses, however many redeem it at the same time.
CodeAccounting ==
    \A c \in Code :
        /\ used[c] = Cardinality({u \in Identity : <<c, u>> \in redeemed})
        /\ used[c] <= MaxUses[c]

\* No race lets a user have a role that no code redeemed by that user grants:
\* a stale write of UpdateMe can only bring back a role the user once had.
RoleIsEarned ==
    \A u \in Identity :
        \/ role[u] = "normal"
        \/ u = Admin /\ role[u] = "super_admin"
        \/ \E c \in Code : <<c, u>> \in redeemed /\ role[u] = TargetRole[c]

\* Of the first logins and registrations of one user that find no row at the
\* same time, a single one commits its INSERT.
CreatedOnce ==
    [][ \A p \in Proc : pc[p] = "created" /\ pc'[p] = "touch"
                            => req[p].user \notin exists ]_vars

\* RedeemCode writes the whole users row back but never undoes an edit of the
\* profile that was committed meanwhile.
EditIsKept ==
    [][ \A u \in Identity : nickname[u] = "edited" => nickname'[u] = "edited" ]_vars

\* Every handler answers, two redemptions by the same user included.
RequestAnswered == \A p \in Proc : pc[p] # "idle" ~> pc[p] = "idle"

\* docs/API_CONTRACT_FOR_CODEX.md:264 says that a redemption updates the
\* user's role; nothing else in the program assigns one, so that only a
\* redemption would ever change it.
RoleIsGranted ==
    [][ \A u \in Identity : role'[u] # role[u]
            => \E p \in Proc : pc[p] = "grant" /\ req[p].user = u ]_vars
=============================================================================
