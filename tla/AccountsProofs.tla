--------------------------- MODULE AccountsProofs ---------------------------
(***************************************************************************)
(* Proofs about Accounts, for any identities, codes, roles, limits and any *)
(* number of handlers.                                                     *)
(*                                                                         *)
(* The argument is that of RoomTransactionsProofs: Checked(p) says what    *)
(* handler p holds and relies on at each statement, Guarded(p) that a step *)
(* of p changes a row only under the lock that protects it, and            *)
(* OthersStayChecked that what another handler relies on then stays so.    *)
(* UpdateMe is the exception: it relies on no lock, only on redemptions    *)
(* never being taken back.                                                 *)
(***************************************************************************)
EXTENDS Accounts, FiniteSetTheorems, TLAPS

-----------------------------------------------------------------------------
(* The inductive invariant.                                                *)

\* Who has redeemed c, if R are the redemptions.
Redeemers(R, c) == {u \in Identity : <<c, u>> \in R}

\* u may rightly have the role r.
Earned(u, r) ==
    \/ r = "normal"
    \/ u = Admin /\ r = "super_admin"
    \/ \E c \in Code : <<c, u>> \in redeemed /\ r = TargetRole[c]

Redeeming == {"code", "redeem", "user", "grant"}

\* A handler that serves a request serves one that a client may send.
RequestKept(p) ==
    /\ pc[p] # "idle" => req[p].user \in Identity
    /\ pc[p] \in Redeeming => req[p].code \in Code

\* From the check of the code on, a redemption holds the code's row, which has
\* a use left.
CodeGuard(p) ==
    pc[p] \in {"redeem", "user", "grant"} =>
        /\ ForUpdate(CodeRow(req[p].code)) \in held[p]
        /\ used[req[p].code] < MaxUses[req[p].code]

\* The redemption that it is about to record is new.
RedeemGuard(p) ==
    pc[p] \in {"user", "grant"} => <<req[p].code, req[p].user>> \notin redeemed

\* The nickname that it will write back is the current one.
UserGuard(p) ==
    pc[p] = "grant" =>
        /\ ForUpdate(UserRow(req[p].user)) \in held[p]
        /\ seen[p].nickname = nickname[req[p].user]

\* A user who is about to be created does not exist.
KeyGuard(p) ==
    pc[p] = "created" =>
        /\ ForUpdate(IdentityKey(req[p].user)) \in held[p]
        /\ req[p].user \notin exists

\* The role that UpdateMe will write back may be old, but was earned.
SaveGuard(p) ==
    pc[p] = "save" => Earned(req[p].user, seen[p].role)

\* All that handler p relies on.
Checked(p) ==
    /\ RequestKept(p) /\ CodeGuard(p) /\ RedeemGuard(p)
    /\ UserGuard(p) /\ KeyGuard(p) /\ SaveGuard(p)

\* No two handlers hold locks that exclude each other.
Exclusive ==
    \A p, q \in Proc : p # q =>
        \A l \in held[p] : held[q] \cap Excluding(l) = {}

FinitelyRedeemed == \A c \in Code : IsFiniteSet(Redeemers(redeemed, c))

Inv ==
    /\ TypeOK
    /\ Exclusive
    /\ FinitelyRedeemed
    /\ CodeAccounting
    /\ RoleIsEarned
    /\ \A p \in Proc : Checked(p)

-----------------------------------------------------------------------------
(* Locks.                                                                  *)

\* The locks that the handlers ask for are locks of the model.
LEMMA LocksType ==
    /\ \A c \in Code : ForUpdate(CodeRow(c)) \in Locks
    /\ \A u \in Identity :
          /\ ForUpdate(UserRow(u)) \in Locks
          /\ KeyShare(UserRow(u)) \in Locks
          /\ ForUpdate(IdentityKey(u)) \in Locks
BY DEF Locks

\* Every lock has a row and one of two modes.
LEMMA LockForm ==
    \A l \in Locks : \E r : l = ForUpdate(r) \/ l = KeyShare(r)
BY DEF Locks

\* Which locks exclude each other, and that this is mutual.
LEMMA LockConflicts ==
    /\ \A r : ForUpdate(r) \in Excluding(ForUpdate(r))
    /\ \A r : ForUpdate(r) \in Excluding(KeyShare(r))
    /\ \A l, m \in Locks : l \in Excluding(m) => m \in Excluding(l)
<1>1. /\ \A r : ForUpdate(r) \in Excluding(ForUpdate(r))
      /\ \A r : ForUpdate(r) \in Excluding(KeyShare(r))
  BY DEF Excluding, ForUpdate, KeyShare
<1>2. ASSUME NEW l \in Locks, NEW m \in Locks, l \in Excluding(m)
      PROVE  m \in Excluding(l)
  <2>1. PICK r : l = ForUpdate(r) \/ l = KeyShare(r)
    BY LockForm
  <2>2. PICK s : m = ForUpdate(s) \/ m = KeyShare(s)
    BY LockForm
  <2>3. QED
    BY <1>2, <2>1, <2>2 DEF Excluding, ForUpdate, KeyShare
<1>3. QED
  BY <1>1, <1>2

\* A row that p has FOR UPDATE nobody else has.
LEMMA ExclusiveIsMutual ==
    ASSUME Exclusive, NEW p \in Proc, NEW q \in Proc, p # q
    PROVE  \A r : ForUpdate(r) \in held[p] => ForUpdate(r) \notin held[q]
BY LockConflicts DEF Exclusive

\* What it takes for a row to be free for p.
LEMMA FreeMeans ==
    ASSUME TypeOK, NEW p \in Proc, NEW l, Free(p, l), NEW q \in Proc, q # p
    PROVE  held[q] \cap Excluding(l) = {}
BY DEF Free, Holders, TypeOK

\* A lock that is granted when nobody holds a conflicting one keeps the locks
\* exclusive.
LEMMA TakeKeepsExclusive ==
    ASSUME TypeOK, Exclusive, NEW p \in Proc, NEW l \in Locks, Free(p, l),
           held' = [held EXCEPT ![p] = @ \cup {l}]
    PROVE  Exclusive' /\ held' \in [Proc -> SUBSET Locks]
<1>1. held \in [Proc -> SUBSET Locks]
  BY DEF TypeOK
<1>2. \A q \in Proc : q # p => held[q] \cap Excluding(l) = {}
  BY FreeMeans
<1>3. SUFFICES ASSUME NEW a \in Proc, NEW b \in Proc, a # b, NEW x \in held'[a]
               PROVE  held'[b] \cap Excluding(x) = {}
  BY <1>1 DEF Exclusive
<1>4. CASE a = p /\ x = l
  BY <1>1, <1>2, <1>3, <1>4
<1>5. CASE x \in held[a] /\ b # p
  BY <1>1, <1>3, <1>5 DEF Exclusive
<1>6. CASE x \in held[a] /\ b = p
  <2>1. held[p] \cap Excluding(x) = {}
    BY <1>3, <1>6 DEF Exclusive
  <2>2. x \notin Excluding(l) /\ x \in Locks
    BY <1>1, <1>2, <1>3, <1>6
  <2>3. l \notin Excluding(x)
    BY <2>2, LockConflicts
  <2>4. QED
    BY <1>1, <1>6, <2>1, <2>3
<1>7. QED
  BY <1>1, <1>3, <1>4, <1>5, <1>6

-----------------------------------------------------------------------------
(* What a step of one handler leaves to the others.                        *)

\* p's step changes a code's uses and redemptions only with the code's row
\* locked, a nickname only while nobody else has the user's row FOR UPDATE, and
\* creates only a user whose key it holds.  No redemption is ever taken back.
Guarded(p) ==
    /\ \A c \in Code : ForUpdate(CodeRow(c)) \notin held[p] =>
          /\ used'[c] = used[c]
          /\ \A u \in Identity : <<c, u>> \in redeemed' => <<c, u>> \in redeemed
    /\ redeemed \subseteq redeemed'
    /\ \A u \in Identity : nickname'[u] # nickname[u] =>
          \A q \in Proc \ {p} : ForUpdate(UserRow(u)) \notin held[q]
    /\ \A u \in Identity : u \in exists' \ exists => ForUpdate(IdentityKey(u)) \in held[p]

\* What has been earned stays earned.
LEMMA EarnedStays ==
    ASSUME redeemed \subseteq redeemed', NEW u, NEW r, Earned(u, r)
    PROVE  Earned(u, r)'
BY DEF Earned

\* What q has checked under its locks stays so when p only changes rows that
\* p itself has locked.
LEMMA OthersStayChecked ==
    ASSUME TypeOK, Exclusive, NEW p \in Proc, NEW q \in Proc, p # q, Checked(q),
           pc'[q] = pc[q], req'[q] = req[q], held'[q] = held[q], seen'[q] = seen[q],
           Guarded(p)
    PROVE  Checked(q)'
<1>1. RequestKept(q)' /\ RequestKept(q)
  BY DEF Checked, RequestKept
<1>2. CodeGuard(q)'
  BY <1>1, ExclusiveIsMutual DEF Checked, CodeGuard, RequestKept, Redeeming, Guarded
<1>3. RedeemGuard(q)'
  <2>1. SUFFICES ASSUME pc[q] \in {"user", "grant"}
                 PROVE  <<req[q].code, req[q].user>> \notin redeemed'
    BY DEF RedeemGuard
  <2>2. /\ req[q].code \in Code /\ req[q].user \in Identity
        /\ ForUpdate(CodeRow(req[q].code)) \in held[q]
        /\ <<req[q].code, req[q].user>> \notin redeemed
    BY <1>1, <2>1 DEF Checked, RequestKept, Redeeming, CodeGuard, RedeemGuard
  <2>3. ForUpdate(CodeRow(req[q].code)) \notin held[p]
    BY <2>2, ExclusiveIsMutual
  <2>4. QED
    BY <2>2, <2>3 DEF Guarded
<1>4. UserGuard(q)'
  BY <1>1 DEF Checked, UserGuard, RequestKept, Guarded
<1>5. KeyGuard(q)'
  BY <1>1, ExclusiveIsMutual DEF Checked, KeyGuard, RequestKept, Guarded
<1>6. SaveGuard(q)'
  BY EarnedStays DEF Checked, SaveGuard, Guarded
<1>7. QED
  BY <1>1, <1>2, <1>3, <1>4, <1>5, <1>6 DEF Checked

\* What is left to show of a step of p that changes no other handler.
LEMMA StepKeepsInv ==
    ASSUME Inv, NEW p \in Proc, Guarded(p), TypeOK', Exclusive', FinitelyRedeemed',
           CodeAccounting', RoleIsEarned', Checked(p)',
           \A q \in Proc : q # p =>
              pc'[q] = pc[q] /\ req'[q] = req[q] /\ held'[q] = held[q] /\ seen'[q] = seen[q]
    PROVE  Inv'
<1>1. ASSUME NEW q \in Proc PROVE Checked(q)'
  BY OthersStayChecked DEF Inv
<1>2. QED
  BY <1>1 DEF Inv

\* A step that leaves the roles and the codes alone keeps what is said of them.
LEMMA CodesKept ==
    ASSUME Inv, UNCHANGED <<role, used, redeemed>>
    PROVE  FinitelyRedeemed' /\ CodeAccounting' /\ RoleIsEarned'
BY DEF Inv, FinitelyRedeemed, Redeemers, CodeAccounting, RoleIsEarned

\* The end of a transaction, as far as the handler itself is concerned.
LEMMA FinishedIsChecked ==
    ASSUME TypeOK, Exclusive, NEW p \in Proc, Finish(p)
    PROVE  /\ Exclusive' /\ Checked(p)'
           /\ held' \in [Proc -> SUBSET Locks] /\ pc' \in [Proc -> PC]
           /\ req' \in [Proc -> Request \cup {NoRequest}]
           /\ seen' \in [Proc -> [role : Role, nickname : {"default", "edited"}]]
           /\ \A q \in Proc : q # p =>
                 pc'[q] = pc[q] /\ req'[q] = req[q] /\ held'[q] = held[q] /\ seen'[q] = seen[q]
<1>1. /\ held \in [Proc -> SUBSET Locks] /\ pc \in [Proc -> PC]
      /\ req \in [Proc -> Request \cup {NoRequest}]
      /\ seen \in [Proc -> [role : Role, nickname : {"default", "edited"}]]
  BY DEF TypeOK
<1>2. pc'[p] = "idle" /\ held'[p] = {}
  BY <1>1 DEF Finish
<1>3. \A q \in Proc : q # p =>
         pc'[q] = pc[q] /\ req'[q] = req[q] /\ held'[q] = held[q] /\ seen'[q] = seen[q]
  BY <1>1 DEF Finish
<1>4. Exclusive'
  BY <1>1, <1>2, <1>3 DEF Exclusive
<1>5. Checked(p)'
  BY <1>2 DEF Checked, RequestKept, Redeeming, CodeGuard, RedeemGuard, UserGuard, KeyGuard,
              SaveGuard
<1>6. NoRow \in [role : Role, nickname : {"default", "edited"}]
  BY DEF NoRow, Role
<1>7. QED
  BY <1>1, <1>3, <1>4, <1>5, <1>6 DEF Finish, PC

\* A handler that is refused, cancelled or aborted changes nothing others rely on.
LEMMA RefuseKeepsInv ==
    ASSUME Inv, NEW p \in Proc, Refuse(p)
    PROVE  Inv' /\ Guarded(p)
<1>1. TypeOK /\ Exclusive /\ Finish(p) /\ UNCHANGED rows
  BY DEF Inv, Refuse
<1>2. TypeOK'
  BY <1>1, FinishedIsChecked DEF TypeOK, rows
<1>3. FinitelyRedeemed' /\ CodeAccounting' /\ RoleIsEarned'
  BY <1>1, CodesKept DEF rows
<1>4. Guarded(p)
  BY <1>1 DEF rows, Guarded
<1>5. QED
  BY <1>1, <1>2, <1>3, <1>4, FinishedIsChecked, StepKeepsInv

\* A step that writes no row keeps the invariant if it keeps the locks exclusive
\* and what the handler itself relies on.
LEMMA SilentStepKeepsInv ==
    ASSUME Inv, NEW p \in Proc, UNCHANGED rows, Exclusive', Checked(p)',
           held' \in [Proc -> SUBSET Locks],
           \A q \in Proc : q # p => held'[q] = held[q],
           NEW next \in PC, pc' = [pc EXCEPT ![p] = next],
           NEW r \in Request \cup {NoRequest}, req' = [req EXCEPT ![p] = r],
           NEW s \in [role : Role, nickname : {"default", "edited"}],
           seen' = [seen EXCEPT ![p] = s]
    PROVE  Inv' /\ Guarded(p)
<1>1. TypeOK
  BY DEF Inv
<1>2. TypeOK'
  BY <1>1 DEF TypeOK, rows
<1>3. \A q \in Proc : q # p =>
         pc'[q] = pc[q] /\ req'[q] = req[q] /\ held'[q] = held[q] /\ seen'[q] = seen[q]
  BY <1>1 DEF TypeOK
<1>4. FinitelyRedeemed' /\ CodeAccounting' /\ RoleIsEarned' /\ Guarded(p)
  BY CodesKept DEF rows, Guarded
<1>5. QED
  BY <1>2, <1>3, <1>4, StepKeepsInv

\* A statement that only moves the handler on.
LEMMA ProceedKeepsInv ==
    ASSUME Inv, NEW p \in Proc, NEW next \in PC, Proceed(p, next), Checked(p)'
    PROVE  Inv' /\ Guarded(p)
<1>1. TypeOK /\ Exclusive
  BY DEF Inv
<1>2. /\ pc' = [pc EXCEPT ![p] = next] /\ UNCHANGED <<held, req, seen>> /\ UNCHANGED rows
  BY DEF Proceed, GoTo
<1>3. /\ req' = [req EXCEPT ![p] = req[p]] /\ req[p] \in Request \cup {NoRequest}
      /\ seen' = [seen EXCEPT ![p] = seen[p]]
      /\ seen[p] \in [role : Role, nickname : {"default", "edited"}]
      /\ held' \in [Proc -> SUBSET Locks]
  BY <1>1, <1>2 DEF TypeOK
<1>4. Exclusive'
  BY <1>1, <1>2 DEF Exclusive
<1>5. QED
  BY <1>2, <1>3, <1>4, SilentStepKeepsInv

\* A statement that takes a lock.
LEMMA TakeKeepsInv ==
    ASSUME Inv, NEW p \in Proc, NEW l \in Locks, NEW next \in PC, Take(p, l, next),
           UNCHANGED req, UNCHANGED rows, Checked(p)',
           NEW s \in [role : Role, nickname : {"default", "edited"}],
           seen' = [seen EXCEPT ![p] = s]
    PROVE  Inv' /\ Guarded(p)
<1>1. TypeOK /\ Exclusive
  BY DEF Inv
<1>2. /\ Free(p, l) /\ held' = [held EXCEPT ![p] = @ \cup {l}]
      /\ pc' = [pc EXCEPT ![p] = next]
  BY DEF Take, GoTo
<1>3. Exclusive' /\ held' \in [Proc -> SUBSET Locks]
  BY <1>1, <1>2, TakeKeepsExclusive
<1>4. /\ req' = [req EXCEPT ![p] = req[p]] /\ req[p] \in Request \cup {NoRequest}
      /\ \A q \in Proc : q # p => held'[q] = held[q]
  BY <1>1, <1>2 DEF TypeOK
<1>5. QED
  BY <1>2, <1>3, <1>4, SilentStepKeepsInv

-----------------------------------------------------------------------------
(* The steps that write no row.                                            *)

\* A request that a client may send names a user, and a code if it is one to
\* redeem.
LEMMA InputsType ==
    ASSUME NEW r \in Inputs
    PROVE  /\ r \in Request /\ r.kind \in AllKinds /\ r.user \in Identity
           /\ r.kind = "redeem" => r.code \in Code
BY ConstantsAssumption DEF Inputs, Request

\* The first statement of a request finds nothing checked.
LEMMA StartKeepsInv ==
    ASSUME Inv, NEW p \in Proc, NEW r \in Inputs, Start(p, r)
    PROVE  Inv' /\ Guarded(p)
<1>1. TypeOK /\ Exclusive
  BY DEF Inv
<1> DEFINE next == Entry(r.kind)
<1>2. /\ pc' = [pc EXCEPT ![p] = next] /\ req' = [req EXCEPT ![p] = r]
      /\ UNCHANGED <<held, seen>> /\ UNCHANGED rows
  BY DEF Start
<1>3. /\ r \in Request /\ r.user \in Identity /\ r.kind \in AllKinds
      /\ r.kind = "redeem" => r.code \in Code
  BY InputsType
<1>4. /\ next \in {"find", "insert", "look", "readUser", "actor", "code"}
      /\ next = "code" => r.kind = "redeem"
  BY <1>3 DEF Entry, AllKinds
<1>5. pc'[p] = next /\ req'[p] = r
  BY <1>1, <1>2 DEF TypeOK
<1>6. Checked(p)'
  BY <1>3, <1>4, <1>5 DEF Checked, RequestKept, Redeeming, CodeGuard, RedeemGuard, UserGuard,
     KeyGuard, SaveGuard
<1>7. /\ seen' = [seen EXCEPT ![p] = seen[p]]
      /\ seen[p] \in [role : Role, nickname : {"default", "edited"}]
      /\ held' \in [Proc -> SUBSET Locks] /\ \A q \in Proc : q # p => held'[q] = held[q]
  BY <1>1, <1>2 DEF TypeOK
<1>8. Exclusive'
  BY <1>1, <1>2 DEF Exclusive
<1>9. next \in PC
  BY <1>4 DEF PC
<1> HIDE DEF next
<1>10. QED
  BY <1>2, <1>3, <1>6, <1>7, <1>8, <1>9, SilentStepKeepsInv

\* A statement that moves on to one before which nothing has to be checked.
LEMMA ProceedUnchecked ==
    ASSUME Inv, NEW p \in Proc, NEW next \in {"touch", "insert", "issue"}, Proceed(p, next),
           pc[p] # "idle"
    PROVE  Inv' /\ Guarded(p)
<1>1. TypeOK /\ RequestKept(p)
  BY DEF Inv, Checked
<1>2. pc'[p] = next /\ req'[p] = req[p]
  BY <1>1 DEF Proceed, GoTo, TypeOK
<1>3. Checked(p)'
  BY <1>1, <1>2 DEF Checked, RequestKept, Redeeming, CodeGuard, RedeemGuard, UserGuard,
     KeyGuard, SaveGuard
<1>4. next \in PC
  BY DEF PC
<1>5. QED
  BY <1>3, <1>4, ProceedKeepsInv

\* The statements of a login that read.
LEMMA LoginKeepsInv ==
    ASSUME Inv, NEW p \in Proc, FindUser(p) \/ LookUp(p) \/ Touch(p)
    PROVE  Inv' /\ Guarded(p)
<1>1. CASE FindUser(p)
  BY <1>1, ProceedUnchecked DEF FindUser
<1>2. CASE LookUp(p)
  BY <1>2, ProceedUnchecked, RefuseKeepsInv DEF LookUp
<1>3. CASE Touch(p)
  BY <1>3, RefuseKeepsInv DEF Touch, Refuse
<1>4. QED
  BY <1>1, <1>2, <1>3

\* The statements that take the lock of a code, of an identity or the key of a
\* user, with what they check.
LEMMA InsertUserKeepsInv ==
    ASSUME Inv, NEW p \in Proc, InsertUser(p)
    PROVE  Inv' /\ Guarded(p)
<1> DEFINE u == req[p].user
           l == ForUpdate(IdentityKey(u))
<1>1. TypeOK /\ RequestKept(p) /\ pc[p] = "insert"
  BY DEF Inv, Checked, InsertUser
<1>2. CASE Refuse(p)
  BY <1>2, RefuseKeepsInv
<1>3. CASE ~Refuse(p)
  <2>1. /\ u \notin exists /\ Take(p, l, "created")
        /\ UNCHANGED <<req, seen>> /\ UNCHANGED rows
    BY <1>3 DEF InsertUser
  <2>2. u \in Identity
    BY <1>1 DEF RequestKept
  <2>3. /\ pc'[p] = "created" /\ req'[p] = req[p] /\ l \in held'[p] /\ exists' = exists
        /\ seen' = [seen EXCEPT ![p] = seen[p]]
        /\ seen[p] \in [role : Role, nickname : {"default", "edited"}]
    BY <1>1, <2>1 DEF TypeOK, Take, GoTo, rows
  <2>4. Checked(p)'
    BY <2>1, <2>2, <2>3 DEF Checked, RequestKept, Redeeming, CodeGuard, RedeemGuard,
       UserGuard, KeyGuard, SaveGuard
  <2>5. l \in Locks /\ "created" \in PC
    BY <2>2, LocksType DEF PC
  <2>6. QED
    BY <2>1, <2>3, <2>4, <2>5, TakeKeepsInv
<1>4. QED
  BY <1>2, <1>3

\* The code is found to have a use left, and is locked.
LEMMA LockCodeKeepsInv ==
    ASSUME Inv, NEW p \in Proc, LockCode(p)
    PROVE  Inv' /\ Guarded(p)
<1> DEFINE c == req[p].code
           l == ForUpdate(CodeRow(c))
<1>1. TypeOK /\ RequestKept(p) /\ pc[p] = "code"
  BY DEF Inv, Checked, LockCode
<1>2. CASE Refuse(p)
  BY <1>2, RefuseKeepsInv
<1>3. CASE ~Refuse(p)
  <2>1. /\ used[c] < MaxUses[c] /\ Take(p, l, "redeem")
        /\ UNCHANGED <<req, seen>> /\ UNCHANGED rows
    BY <1>3 DEF LockCode, Redeemable
  <2>2. req[p].user \in Identity /\ c \in Code
    BY <1>1 DEF RequestKept, Redeeming
  <2>3. /\ pc'[p] = "redeem" /\ req'[p] = req[p] /\ l \in held'[p] /\ used' = used
        /\ seen' = [seen EXCEPT ![p] = seen[p]]
        /\ seen[p] \in [role : Role, nickname : {"default", "edited"}]
    BY <1>1, <2>1 DEF TypeOK, Take, GoTo, rows
  <2>4. Checked(p)'
    BY <2>1, <2>2, <2>3 DEF Checked, RequestKept, Redeeming, CodeGuard, RedeemGuard,
       UserGuard, KeyGuard, SaveGuard
  <2>5. l \in Locks /\ "redeem" \in PC
    BY <2>2, LocksType DEF PC
  <2>6. QED
    BY <2>1, <2>3, <2>4, <2>5, TakeKeepsInv
<1>4. QED
  BY <1>2, <1>3

\* The redemption is found to be new, under the lock of the code.
LEMMA InsertRedeemKeepsInv ==
    ASSUME Inv, NEW p \in Proc, InsertRedeem(p)
    PROVE  Inv' /\ Guarded(p)
<1> DEFINE u == req[p].user
           c == req[p].code
           l == KeyShare(UserRow(u))
<1>1. /\ TypeOK /\ RequestKept(p) /\ CodeGuard(p) /\ pc[p] = "redeem"
  BY DEF Inv, Checked, InsertRedeem
<1>2. CASE Refuse(p)
  BY <1>2, RefuseKeepsInv
<1>3. CASE ~Refuse(p)
  <2>1. /\ <<c, u>> \notin redeemed /\ Take(p, l, "user")
        /\ UNCHANGED <<req, seen>> /\ UNCHANGED rows
    BY <1>3 DEF InsertRedeem
  <2>2. u \in Identity /\ c \in Code
    BY <1>1 DEF RequestKept, Redeeming
  <2>3. /\ pc'[p] = "user" /\ req'[p] = req[p] /\ held[p] \subseteq held'[p]
        /\ used' = used /\ redeemed' = redeemed
        /\ seen' = [seen EXCEPT ![p] = seen[p]]
        /\ seen[p] \in [role : Role, nickname : {"default", "edited"}]
    BY <1>1, <2>1 DEF TypeOK, Take, GoTo, rows
  <2>4. Checked(p)'
    BY <1>1, <2>1, <2>2, <2>3 DEF Checked, RequestKept, Redeeming, CodeGuard, RedeemGuard,
       UserGuard, KeyGuard, SaveGuard
  <2>5. l \in Locks /\ "user" \in PC
    BY <2>2, LocksType DEF PC
  <2>6. QED
    BY <2>1, <2>3, <2>4, <2>5, TakeKeepsInv
<1>4. QED
  BY <1>2, <1>3

\* The users row that is read under its lock is the current one.
LEMMA LockUserKeepsInv ==
    ASSUME Inv, NEW p \in Proc, LockUser(p)
    PROVE  Inv' /\ Guarded(p)
<1> DEFINE u == req[p].user
           l == ForUpdate(UserRow(u))
           s == [role |-> role[u], nickname |-> nickname[u]]
<1>1. /\ TypeOK /\ RequestKept(p) /\ CodeGuard(p) /\ RedeemGuard(p) /\ pc[p] = "user"
      /\ Take(p, l, "grant") /\ seen' = [seen EXCEPT ![p] = s]
      /\ UNCHANGED req /\ UNCHANGED rows
  BY DEF Inv, Checked, LockUser
<1>2. u \in Identity /\ req[p].code \in Code
  BY <1>1 DEF RequestKept, Redeeming
<1>3. s \in [role : Role, nickname : {"default", "edited"}]
  BY <1>1, <1>2 DEF TypeOK
<1>4. /\ pc'[p] = "grant" /\ req'[p] = req[p] /\ held[p] \cup {l} = held'[p]
      /\ used' = used /\ redeemed' = redeemed /\ nickname' = nickname /\ seen'[p] = s
  BY <1>1 DEF TypeOK, Take, GoTo, rows
<1>5. Checked(p)'
  BY <1>1, <1>2, <1>4 DEF Checked, RequestKept, Redeeming, CodeGuard, RedeemGuard,
     UserGuard, KeyGuard, SaveGuard
<1>6. l \in Locks /\ "grant" \in PC
  BY <1>2, LocksType DEF PC
<1>7. QED
  BY <1>1, <1>3, <1>5, <1>6, TakeKeepsInv

\* The role that UpdateMe reads has been earned.
LEMMA ReadUserKeepsInv ==
    ASSUME Inv, NEW p \in Proc, ReadUser(p)
    PROVE  Inv' /\ Guarded(p)
<1> DEFINE u == req[p].user
           s == [role |-> role[u], nickname |-> nickname[u]]
<1>1. /\ TypeOK /\ Exclusive /\ RequestKept(p) /\ pc[p] = "readUser"
      /\ pc' = [pc EXCEPT ![p] = "save"] /\ seen' = [seen EXCEPT ![p] = s]
      /\ UNCHANGED <<held, req>> /\ UNCHANGED rows
  BY DEF Inv, Checked, ReadUser, GoTo
<1>2. u \in Identity
  BY <1>1 DEF RequestKept
<1>3. s \in [role : Role, nickname : {"default", "edited"}]
  BY <1>1, <1>2 DEF TypeOK
<1>4. Earned(u, role[u])
  BY <1>2 DEF Inv, RoleIsEarned, Earned
<1>5. Earned(u, role[u])'
  BY <1>1, <1>4 DEF rows, Earned
<1>6. pc'[p] = "save" /\ req'[p] = req[p] /\ seen'[p] = s /\ role' = role
  BY <1>1 DEF TypeOK, rows
<1>7. Checked(p)'
  BY <1>2, <1>5, <1>6 DEF Checked, RequestKept, Redeeming, CodeGuard, RedeemGuard,
     UserGuard, KeyGuard, SaveGuard
<1>8. /\ req' = [req EXCEPT ![p] = req[p]] /\ req[p] \in Request \cup {NoRequest}
      /\ held' \in [Proc -> SUBSET Locks] /\ \A q \in Proc : q # p => held'[q] = held[q]
      /\ "save" \in PC
  BY <1>1 DEF TypeOK, PC
<1>9. Exclusive'
  BY <1>1 DEF Exclusive
<1>10. QED
  BY <1>1, <1>3, <1>7, <1>8, <1>9, SilentStepKeepsInv

\* Whether the actor may issue codes.
LEMMA ReadActorKeepsInv ==
    ASSUME Inv, NEW p \in Proc, ReadActor(p)
    PROVE  Inv' /\ Guarded(p)
BY ProceedUnchecked, RefuseKeepsInv DEF ReadActor
-----------------------------------------------------------------------------
(* The steps that commit.                                                  *)

\* The commit of a new user.
LEMMA CommitUserKeepsInv ==
    ASSUME Inv, NEW p \in Proc, CommitUser(p)
    PROVE  Inv' /\ Guarded(p)
<1> DEFINE u == req[p].user
<1>1. /\ TypeOK /\ Exclusive /\ Checked(p) /\ pc[p] = "created"
      /\ exists' = exists \cup {u} /\ held' = [held EXCEPT ![p] = {}]
      /\ pc' = [pc EXCEPT ![p] = "touch"] /\ UNCHANGED <<req, seen>>
      /\ UNCHANGED <<role, nickname, issued, expired, used, redeemed>>
  BY DEF Inv, CommitUser, GoTo
<1>2. u \in Identity /\ ForUpdate(IdentityKey(u)) \in held[p]
  BY <1>1 DEF Checked, RequestKept, KeyGuard
<1>3. TypeOK'
  BY <1>1, <1>2 DEF TypeOK, PC
<1>4. Exclusive'
  BY <1>1 DEF Exclusive, TypeOK
<1>5. FinitelyRedeemed' /\ CodeAccounting' /\ RoleIsEarned'
  BY <1>1, CodesKept
<1>6. Guarded(p)
  BY <1>1, <1>2 DEF Guarded
<1>7. pc'[p] = "touch" /\ req'[p] = req[p]
  BY <1>1 DEF TypeOK
<1>8. Checked(p)'
  BY <1>2, <1>7 DEF Checked, RequestKept, Redeeming, CodeGuard, RedeemGuard, UserGuard,
     KeyGuard, SaveGuard
<1>9. \A q \in Proc : q # p =>
         pc'[q] = pc[q] /\ req'[q] = req[q] /\ held'[q] = held[q] /\ seen'[q] = seen[q]
  BY <1>1 DEF TypeOK
<1>10. QED
  BY <1>3, <1>4, <1>5, <1>6, <1>8, <1>9, StepKeepsInv

\* UpdateMe writes back a role that the user has earned, and a nickname while
\* nobody who would write back an older one has the row.
LEMMA SaveUserKeepsInv ==
    ASSUME Inv, NEW p \in Proc, SaveUser(p)
    PROVE  Inv' /\ Guarded(p)
<1> DEFINE u == req[p].user
<1>1. /\ TypeOK /\ Exclusive /\ Checked(p) /\ pc[p] = "save"
      /\ Free(p, KeyShare(UserRow(u))) /\ Finish(p)
      /\ nickname' = [nickname EXCEPT ![u] = "edited"]
      /\ role' = [role EXCEPT ![u] = seen[p].role]
      /\ UNCHANGED <<exists, issued, expired, used, redeemed>>
  BY DEF Inv, SaveUser
<1>2. u \in Identity /\ Earned(u, seen[p].role)
  BY <1>1 DEF Checked, RequestKept, SaveGuard
<1>3. seen[p].role \in Role
  BY <1>1 DEF TypeOK
<1>4. TypeOK'
  BY <1>1, <1>2, <1>3, FinishedIsChecked DEF TypeOK
<1>5. FinitelyRedeemed' /\ CodeAccounting'
  BY <1>1 DEF Inv, FinitelyRedeemed, Redeemers, CodeAccounting
<1>6. RoleIsEarned'
  <2>1. SUFFICES ASSUME NEW v \in Identity
                 PROVE  \/ role'[v] = "normal"
                        \/ v = Admin /\ role'[v] = "super_admin"
                        \/ \E c \in Code : <<c, v>> \in redeemed' /\ role'[v] = TargetRole[c]
    BY DEF RoleIsEarned
  <2>2. CASE v = u
    BY <1>1, <1>2, <2>2 DEF TypeOK, Earned
  <2>3. CASE v # u
    BY <1>1, <2>3 DEF TypeOK, Inv, RoleIsEarned
  <2>4. QED
    BY <2>2, <2>3
<1>7. \A q \in Proc \ {p} : ForUpdate(UserRow(u)) \notin held[q]
  BY <1>1, FreeMeans, LockConflicts
<1>8. Guarded(p)
  <2>1. \A v \in Identity : nickname'[v] # nickname[v] => v = u
    BY <1>1 DEF TypeOK
  <2>2. QED
    BY <1>1, <1>7, <2>1 DEF Guarded
<1>9. QED
  BY <1>1, <1>4, <1>5, <1>6, <1>8, FinishedIsChecked, StepKeepsInv

\* A new code has not been used.
LEMMA IssueCodeKeepsInv ==
    ASSUME Inv, NEW p \in Proc, IssueCode(p)
    PROVE  Inv' /\ Guarded(p)
<1>1. CASE Refuse(p)
  BY <1>1, RefuseKeepsInv
<1>2. CASE ~Refuse(p)
  <2>1. /\ TypeOK /\ Exclusive /\ Finish(p) /\ issued' \subseteq Code
        /\ UNCHANGED <<exists, role, nickname, expired, used, redeemed>>
    BY <1>2 DEF Inv, IssueCode, TypeOK
  <2>2. TypeOK'
    BY <2>1, FinishedIsChecked DEF TypeOK
  <2>3. FinitelyRedeemed' /\ CodeAccounting' /\ RoleIsEarned' /\ Guarded(p)
    BY <2>1, CodesKept DEF Guarded
  <2>4. QED
    BY <2>1, <2>2, <2>3, FinishedIsChecked, StepKeepsInv
<1>3. QED
  BY <1>1, <1>2

\* A redemption counts itself, grants its role and writes back the nickname
\* that is there.
LEMMA GrantKeepsInv ==
    ASSUME Inv, NEW p \in Proc, Grant(p)
    PROVE  Inv' /\ Guarded(p) /\ nickname' = nickname
<1> DEFINE u == req[p].user
           c == req[p].code
<1>1. /\ TypeOK /\ Exclusive /\ Checked(p) /\ pc[p] = "grant" /\ Finish(p)
      /\ redeemed' = redeemed \cup {<<c, u>>}
      /\ used' = [used EXCEPT ![c] = @ + 1]
      /\ role' = [role EXCEPT ![u] = TargetRole[c]]
      /\ nickname' = [nickname EXCEPT ![u] = seen[p].nickname]
      /\ UNCHANGED <<exists, issued, expired>>
  BY DEF Inv, Grant
<1>2. /\ u \in Identity /\ c \in Code
      /\ ForUpdate(CodeRow(c)) \in held[p] /\ used[c] < MaxUses[c]
      /\ <<c, u>> \notin redeemed
      /\ seen[p].nickname = nickname[u]
  BY <1>1 DEF Checked, RequestKept, Redeeming, CodeGuard, RedeemGuard, UserGuard
<1>3. nickname' = nickname
  BY <1>1, <1>2 DEF TypeOK
<1>4. used[c] \in Nat /\ used' \in [Code -> Nat] /\ \A d \in Code : d # c => used'[d] = used[d]
  BY <1>1, <1>2 DEF TypeOK
<1>5. used'[c] = used[c] + 1
  BY <1>1, <1>2 DEF TypeOK
<1>6. TypeOK'
  BY <1>1, <1>2, <1>3, <1>4, FinishedIsChecked, ConstantsAssumption DEF TypeOK
<1>7. \A d \in Code : d # c => Redeemers(redeemed', d) = Redeemers(redeemed, d)
  BY <1>1 DEF Redeemers
<1>8. Redeemers(redeemed', c) = Redeemers(redeemed, c) \cup {u} /\ u \notin Redeemers(redeemed, c)
  <2>1. \A v \in Identity : <<c, v>> \in redeemed' <=> <<c, v>> \in redeemed \/ v = u
    BY <1>1
  <2>2. QED
    BY <1>2, <2>1 DEF Redeemers
<1>9. IsFiniteSet(Redeemers(redeemed, c))
  BY <1>2 DEF Inv, FinitelyRedeemed
<1>10. /\ IsFiniteSet(Redeemers(redeemed', c))
       /\ Cardinality(Redeemers(redeemed', c)) = Cardinality(Redeemers(redeemed, c)) + 1
  BY <1>8, <1>9, FS_AddElement
<1>11. FinitelyRedeemed'
  <2>1. ASSUME NEW d \in Code PROVE IsFiniteSet(Redeemers(redeemed', d))
    BY <1>7, <1>10 DEF Inv, FinitelyRedeemed
  <2>2. QED
    BY <2>1 DEF FinitelyRedeemed
<1>12. CodeAccounting'
  <2>1. \A d \in Code : used[d] = Cardinality(Redeemers(redeemed, d)) /\ used[d] <= MaxUses[d]
    BY DEF Inv, CodeAccounting, Redeemers
  <2>2. ASSUME NEW d \in Code
        PROVE  used'[d] = Cardinality(Redeemers(redeemed', d)) /\ used'[d] <= MaxUses[d]
    <3>1. CASE d = c
      BY <1>2, <1>4, <1>5, <1>10, <2>1, <3>1, ConstantsAssumption
    <3>2. CASE d # c
      BY <1>4, <1>7, <2>1, <3>2
    <3>3. QED
      BY <3>1, <3>2
  <2>3. QED
    BY <2>2 DEF CodeAccounting, Redeemers
<1>13. RoleIsEarned'
  <2>1. SUFFICES ASSUME NEW v \in Identity
                 PROVE  \/ role'[v] = "normal"
                        \/ v = Admin /\ role'[v] = "super_admin"
                        \/ \E d \in Code : <<d, v>> \in redeemed' /\ role'[v] = TargetRole[d]
    BY DEF RoleIsEarned
  <2>2. CASE v = u
    BY <1>1, <1>2, <2>2 DEF TypeOK
  <2>3. CASE v # u
    BY <1>1, <2>3 DEF TypeOK, Inv, RoleIsEarned
  <2>4. QED
    BY <2>2, <2>3
<1>14. Guarded(p)
  <2>1. \A d \in Code : ForUpdate(CodeRow(d)) \notin held[p] => d # c
    BY <1>2
  <2>2. \A d \in Code, v \in Identity : d # c /\ <<d, v>> \in redeemed' => <<d, v>> \in redeemed
    BY <1>1
  <2>3. QED
    BY <1>1, <1>3, <1>4, <2>1, <2>2 DEF Guarded
<1>15. QED
  BY <1>1, <1>3, <1>6, <1>11, <1>12, <1>13, <1>14, FinishedIsChecked, StepKeepsInv
-----------------------------------------------------------------------------
(* The theorems.                                                           *)

\* The invariant holds when there is one user and no code.
LEMMA InitIsInv == Init => Inv
<1>1. SUFFICES ASSUME Init PROVE Inv
  OBVIOUS
<1>2. TypeOK
  BY <1>1, ConstantsAssumption DEF Init, TypeOK, Role, NoRow, PC
<1>3. Exclusive
  BY <1>1 DEF Init, Exclusive
<1>4. \A c \in Code : Redeemers(redeemed, c) = {}
  BY <1>1 DEF Init, Redeemers
<1>5. FinitelyRedeemed
  BY <1>4, FS_EmptySet DEF FinitelyRedeemed
<1>6. CodeAccounting
  <2>1. ASSUME NEW c \in Code PROVE used[c] = 0 /\ 0 <= MaxUses[c]
    <3>1. MaxUses[c] \in Nat
      BY ConstantsAssumption
    <3>2. used[c] = 0
      BY <1>1 DEF Init
    <3>3. QED
      BY <3>1, <3>2
  <2>2. Cardinality({}) = 0
    BY FS_EmptySet
  <2>3. ASSUME NEW c \in Code
        PROVE  used[c] = Cardinality(Redeemers(redeemed, c)) /\ used[c] <= MaxUses[c]
    BY <1>4, <2>1, <2>2
  <2>4. QED
    BY <2>3 DEF CodeAccounting, Redeemers
<1>7. RoleIsEarned
  BY <1>1 DEF Init, RoleIsEarned
<1>8. \A p \in Proc : Checked(p)
  BY <1>1 DEF Init, Checked, RequestKept, Redeeming, CodeGuard, RedeemGuard, UserGuard,
     KeyGuard, SaveGuard
<1>9. QED
  BY <1>2, <1>3, <1>5, <1>6, <1>7, <1>8 DEF Inv

\* The passing of a code's date is nothing a handler relies on.
LEMMA ExpireKeepsInv == ASSUME Inv, NEW c \in Code, Expire(c) PROVE Inv'
<1>1. /\ expired' \subseteq Code
      /\ UNCHANGED <<exists, role, nickname, issued, used, redeemed, held, pc, req, seen>>
  BY DEF Inv, TypeOK, Expire, local
<1>2. TypeOK' /\ Exclusive'
  BY <1>1 DEF Inv, TypeOK, Exclusive
<1>3. FinitelyRedeemed' /\ CodeAccounting' /\ RoleIsEarned'
  BY <1>1, CodesKept
<1>4. \A p \in Proc : Checked(p)'
  BY <1>1 DEF Inv, Checked, RequestKept, CodeGuard, RedeemGuard, UserGuard, KeyGuard,
              SaveGuard, Earned
<1>5. QED
  BY <1>2, <1>3, <1>4 DEF Inv

\* Every step of a handler keeps the invariant and is guarded by its locks.
LEMMA HandlerKeepsInv ==
    ASSUME Inv, NEW p \in Proc,
           (\E r \in Inputs : Start(p, r)) \/ Advance(p) \/ Cancel(p) \/ AbortVictim(p)
    PROVE  Inv' /\ Guarded(p)
<1>1. CASE \E r \in Inputs : Start(p, r)
  BY <1>1, StartKeepsInv
<1>2. CASE Advance(p)
  BY <1>2, LoginKeepsInv, InsertUserKeepsInv, CommitUserKeepsInv, ReadUserKeepsInv,
     SaveUserKeepsInv, ReadActorKeepsInv, IssueCodeKeepsInv, LockCodeKeepsInv,
     InsertRedeemKeepsInv, LockUserKeepsInv, GrantKeepsInv DEF Advance
<1>3. CASE Cancel(p) \/ AbortVictim(p)
  BY <1>3, RefuseKeepsInv DEF Cancel, AbortVictim, Refuse
<1>4. QED
  BY <1>1, <1>2, <1>3

\* Every step keeps the invariant.
LEMMA NextKeepsInv == Inv /\ [Next]_vars => Inv'
<1>1. SUFFICES ASSUME Inv, [Next]_vars PROVE Inv'
  OBVIOUS
<1>2. CASE UNCHANGED vars
  <2>1. UNCHANGED <<exists, role, nickname, issued, expired, used, redeemed,
                    held, pc, req, seen>>
    BY <1>2 DEF vars
  <2>2. TypeOK' /\ Exclusive'
    BY <1>1, <2>1 DEF Inv, TypeOK, Exclusive
  <2>3. FinitelyRedeemed' /\ CodeAccounting' /\ RoleIsEarned'
    BY <1>1, <2>1, CodesKept
  <2>4. \A p \in Proc : Checked(p)'
    BY <1>1, <2>1 DEF Inv, Checked, RequestKept, CodeGuard, RedeemGuard, UserGuard,
                      KeyGuard, SaveGuard, Earned
  <2>5. QED
    BY <2>2, <2>3, <2>4 DEF Inv
<1>3. QED
  BY <1>1, <1>2, ExpireKeepsInv, HandlerKeepsInv DEF Next

\* The invariant holds in every behaviour.
LEMMA InvAlways == Spec => []Inv
BY InitIsInv, NextKeepsInv, PTL DEF Spec

\* The tables and the handlers keep their types.
THEOREM TypeCorrect == Spec => []TypeOK
<1>1. Inv => TypeOK
  BY DEF Inv
<1>2. QED
  BY <1>1, InvAlways, PTL

\* However many handlers redeem a code at the same time, its used_count is the
\* number of users who have redeemed it, and at most max_uses.
THEOREM CodesAreAccounted == Spec => []CodeAccounting
<1>1. Inv => CodeAccounting
  BY DEF Inv
<1>2. QED
  BY <1>1, InvAlways, PTL

\* Nobody ever has a role that no redemption of theirs has granted, in spite
\* of the rows that UpdateMe reads without a lock and writes back.
THEOREM RolesAreEarned == Spec => []RoleIsEarned
<1>1. Inv => RoleIsEarned
  BY DEF Inv
<1>2. QED
  BY <1>1, InvAlways, PTL

\* Of several first logins of one user a single one creates the user.
THEOREM UserIsCreatedOnce == Spec => CreatedOnce
<1>1. Inv /\ [Next]_vars =>
         [ \A p \in Proc : pc[p] = "created" /\ pc'[p] = "touch"
                               => req[p].user \notin exists ]_vars
  BY DEF Inv, Checked, KeyGuard
<1>2. QED
  BY <1>1, InvAlways, PTL DEF Spec, CreatedOnce

\* A step never takes the edit of a profile back.
LEMMA StepKeepsEdits ==
    ASSUME Inv, Next, NEW u \in Identity, nickname[u] = "edited"
    PROVE  nickname'[u] = "edited"
<1>1. ASSUME NEW c \in Code, Expire(c) PROVE nickname' = nickname
  BY <1>1 DEF Expire
<1>2. ASSUME NEW p \in Proc,
             (\E r \in Inputs : Start(p, r)) \/ Advance(p) \/ Cancel(p) \/ AbortVictim(p)
      PROVE  nickname'[u] = "edited"
  <2>1. CASE (\E r \in Inputs : Start(p, r)) \/ Cancel(p) \/ AbortVictim(p)
    BY <2>1 DEF Start, Cancel, AbortVictim, Refuse, rows
  <2>2. CASE \/ FindUser(p) \/ InsertUser(p) \/ CommitUser(p) \/ LookUp(p) \/ Touch(p)
             \/ ReadUser(p) \/ ReadActor(p) \/ IssueCode(p) \/ LockCode(p)
             \/ InsertRedeem(p) \/ LockUser(p)
    BY <2>2 DEF FindUser, InsertUser, CommitUser, LookUp, Touch, ReadUser, ReadActor,
       IssueCode, LockCode, InsertRedeem, LockUser, Proceed, Refuse, rows
  <2>3. CASE SaveUser(p)
    BY <2>3 DEF SaveUser, Inv, TypeOK
  <2>4. CASE Grant(p)
    BY <2>4, GrantKeepsInv
  <2>5. QED
    BY <1>2, <2>1, <2>2, <2>3, <2>4 DEF Advance
<1>3. QED
  BY <1>1, <1>2 DEF Next

\* No redemption, which writes the whole users row back, loses an edit of the
\* profile.
THEOREM EditsAreKept == Spec => EditIsKept
<1>1. Inv /\ [Next]_vars =>
         [ \A u \in Identity : nickname[u] = "edited" => nickname'[u] = "edited" ]_vars
  BY StepKeepsEdits
<1>2. QED
  BY <1>1, InvAlways, PTL DEF Spec, EditIsKept
=============================================================================
