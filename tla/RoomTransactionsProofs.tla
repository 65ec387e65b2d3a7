----------------------- MODULE RoomTransactionsProofs -----------------------
(***************************************************************************)
(* Proofs about RoomTransactions, for any users, any number of handlers    *)
(* and any bounds.                                                         *)
(*                                                                         *)
(* The inductive invariant Inv says, besides types, that the row locks are *)
(* exclusive and, for each statement a handler may be at, which locks it   *)
(* holds by then and what it has checked under them (Checked).  The heart  *)
(* of the proof is the lemma OthersStayChecked: a transaction only changes *)
(* rows that it has locked (Guarded), so that nothing another transaction  *)
(* has checked under its own locks becomes false.                          *)
(***************************************************************************)
EXTENDS RoomTransactions, SequenceTheorems, WellFoundedInduction, TLAPS

-----------------------------------------------------------------------------
(* The inductive invariant.                                                *)
RoomLock == ForUpdate(RoomRow)
Leaving == {"leave", "kick"}

\* The request a handler serves has passed the checks of its input.
RequestKept(p) ==
    pc[p] # "idle" =>
        /\ req[p].kind \in AllKinds
        /\ req[p].user \in User
        /\ req[p].kind \in {"kick", "transfer"} =>
              req[p].peer \in User /\ req[p].peer # req[p].user
        /\ req[p].kind = "transfer" => req[p].amount \in Amounts
        /\ req[p].kind \in Undoing => req[p].id \in 1 .. MaxTransfers

\* A handler only reaches the statements of its own request.
InOrder(p) ==
    /\ pc[p] \in {"read", "key"} => req[p].kind \in Undoing \cup {"chat"}
    /\ pc[p] = "transfer" => req[p].kind \in Undoing
    /\ pc[p] = "room" => req[p].kind \in LocksRoom
    /\ pc[p] = "other" => req[p].kind \in Undoing \cup {"transfer"}
    /\ pc[p] = "settle" => req[p].kind \in Leaving

\* Past its first statement, a handler that locks the rooms row holds the
\* lock, and what it has checked under it is still so.
RoomGuard(p) ==
    pc[p] \in {"member", "other", "settle", "commit"} /\ req[p].kind \in LocksRoom =>
        /\ RoomLock \in held[p]
        /\ status = "active"
        /\ req[p].kind \in {"kick", "chatOn", "chatOff"} => req[p].user = owner

\* Before it commits, a leave or a kick holds the row of the member who goes;
\* the score it will write back, and those it will put into the record, are
\* still the current ones.
LeaveGuard(p) ==
    pc[p] \in {"settle", "commit"} /\ req[p].kind \in Leaving =>
        /\ Subject(p) \in present
        /\ ForUpdate(MemberRow(Subject(p))) \in held[p]
        /\ seen[p].score = score[Subject(p)]
        /\ pc[p] = "commit" /\ present \subseteq {Subject(p)} => seen[p].final = score

\* An undo holds the transfer it has found pending.
UndoGuard(p) ==
    pc[p] \in {"member", "other", "key", "commit"} /\ req[p].kind \in Undoing =>
        /\ req[p].id \in DOMAIN transfers
        /\ transfers[req[p].id].status = "pending"
        /\ ForUpdate(TransferRow(req[p].id)) \in held[p]

\* A message's sender, whose row is locked, is still in the room.
ChatGuard(p) ==
    pc[p] \in {"key", "commit"} /\ req[p].kind = "chat" =>
        /\ req[p].user \in present
        /\ ForUpdate(MemberRow(req[p].user)) \in held[p]

\* Before it commits, a handler that never locked the room shares its key.
KeyGuard(p) ==
    pc[p] = "commit" /\ req[p].kind \in Undoing \cup {"chat"} =>
        KeyShare(RoomRow) \in held[p]

\* All that handler p relies on.
Checked(p) ==
    /\ RequestKept(p) /\ InOrder(p) /\ RoomGuard(p) /\ LeaveGuard(p)
    /\ UndoGuard(p) /\ ChatGuard(p) /\ KeyGuard(p)

\* No two handlers hold locks that exclude each other.
Exclusive ==
    \A p, q \in Proc : p # q =>
        \A l \in held[p] : held[q] \cap Excluding(l) = {}

\* Whoever is in the room has a member row, and before the room exists nobody
\* is in it.
MembersHaveRows ==
    /\ \A u \in present : HasRow(u)
    /\ status = "none" => present = {}

Inv ==
    /\ TypeOK
    /\ Exclusive
    /\ MembersHaveRows
    /\ OwnerIsPresent
    /\ \A p \in Proc : Checked(p)

-----------------------------------------------------------------------------
(* Locks.                                                                  *)

\* The locks that the handlers ask for are locks of the model.
LEMMA LocksType ==
    /\ RoomLock \in Locks
    /\ KeyShare(RoomRow) \in Locks
    /\ \A u \in User : ForUpdate(MemberRow(u)) \in Locks
    /\ \A i \in 0 .. MaxTransfers : ForUpdate(TransferRow(i)) \in Locks
BY DEF RoomLock, Locks, Rows

\* Which locks exclude each other, and that this is mutual.
LEMMA LockConflicts ==
    /\ \A r : ForUpdate(r) \in Excluding(ForUpdate(r))
    /\ RoomLock \in Excluding(KeyShare(RoomRow))
    /\ KeyShare(RoomRow) \in Excluding(RoomLock)
    /\ \A l, m \in Locks : l \in Excluding(m) => m \in Excluding(l)
<1>1. \A r : ForUpdate(r) \in Excluding(ForUpdate(r))
  BY DEF Excluding, ForUpdate
<1>2. RoomLock \in Excluding(KeyShare(RoomRow))
  BY DEF Excluding, ForUpdate, KeyShare, RoomLock
<1>3. KeyShare(RoomRow) \in Excluding(RoomLock)
  BY DEF Excluding, ForUpdate, KeyShare, RoomLock
<1>4. ASSUME NEW l \in Locks, NEW m \in Locks, l \in Excluding(m)
      PROVE  m \in Excluding(l)
  BY <1>4 DEF Excluding, ForUpdate, KeyShare, Locks
<1>5. QED
  BY <1>1, <1>2, <1>3, <1>4

\* A lock that p holds is held by nobody else: FOR UPDATE of the rooms row by
\* nobody in either mode, a shared key of it not FOR UPDATE.
LEMMA ExclusiveIsMutual ==
    ASSUME TypeOK, Exclusive, NEW p \in Proc, NEW q \in Proc, p # q
    PROVE  /\ RoomLock \in held[p] =>
                 RoomLock \notin held[q] /\ KeyShare(RoomRow) \notin held[q]
           /\ KeyShare(RoomRow) \in held[p] => RoomLock \notin held[q]
           /\ \A r : ForUpdate(r) \in held[p] => ForUpdate(r) \notin held[q]
BY LockConflicts DEF Exclusive, RoomLock

\* A lock that is granted when nobody holds a conflicting one keeps the locks
\* exclusive.
LEMMA LockKeepsExclusive ==
    ASSUME TypeOK, Exclusive, NEW p \in Proc, NEW l \in Locks, NEW next,
           Lock(p, l, next)
    PROVE  Exclusive' /\ held' \in [Proc -> SUBSET Locks]
<1>1. held' = [held EXCEPT ![p] = @ \cup {l}] /\ held \in [Proc -> SUBSET Locks]
  BY DEF Lock, TypeOK
<1>2. \A q \in Proc : q # p => held[q] \cap Excluding(l) = {}
  BY <1>1 DEF Lock, Holders
<1>3. SUFFICES ASSUME NEW a \in Proc, NEW b \in Proc, a # b, NEW x \in held'[a]
               PROVE  held'[b] \cap Excluding(x) = {}
  BY <1>1 DEF Exclusive
<1>4. CASE a = p /\ x = l
  BY <1>1, <1>2, <1>3, <1>4
<1>5. CASE x \in held[a] /\ b # p
  BY <1>1, <1>3, <1>5 DEF Exclusive
<1>6. CASE x \in held[a] /\ b = p
  <2>1. held[p] \cap Excluding(x) = {}
    BY <1>3, <1>6 DEF Exclusive
  <2>2. x \notin Excluding(l)
    BY <1>2, <1>3, <1>6
  <2>3. x \in Locks
    BY <1>1, <1>6
  <2>4. l \notin Excluding(x)
    BY <2>2, <2>3, LockConflicts
  <2>5. QED
    BY <1>1, <1>6, <2>1, <2>4
<1>7. QED
  BY <1>1, <1>3, <1>4, <1>5, <1>6

\* The end of a transaction keeps the locks exclusive.
LEMMA FinishKeepsExclusive ==
    ASSUME TypeOK, Exclusive, NEW p \in Proc, Finish(p)
    PROVE  Exclusive'
BY DEF TypeOK, Exclusive, Finish

\* A handler that has answered relies on nothing, and its state has its type.
LEMMA FinishedIsChecked ==
    ASSUME TypeOK, NEW p \in Proc, Finish(p)
    PROVE  /\ Checked(p)'
           /\ held' \in [Proc -> SUBSET Locks]
           /\ pc' \in [Proc -> PC]
           /\ req' \in [Proc -> Request]
           /\ seen' \in [Proc -> [owner : User \cup {NoUser}, score : Int,
                                  final : [User -> Int]]]
<1>1. pc'[p] = "idle"
  BY DEF Finish, TypeOK
<1>2. Checked(p)'
  BY <1>1 DEF Checked, RequestKept, InOrder, RoomGuard, LeaveGuard, UndoGuard,
              ChatGuard, KeyGuard
<1>3. NoRequest \in Request
  BY ConstantsAssumption DEF NoRequest, Ask, Request
<1>4. Blank \in [owner : User \cup {NoUser}, score : Int, final : [User -> Int]]
  BY DEF Blank
<1>5. QED
  BY <1>2, <1>3, <1>4 DEF Finish, TypeOK, PC

-----------------------------------------------------------------------------
(* What a step of one handler leaves to the others.                        *)

\* p's step changes a column only if p holds the lock that protects it: the
\* room and who is in it belong to the lock of the rooms row, scores to that
\* lock or a share of its key, a member's leaving and a transfer to the lock
\* of that row.
Guarded(p) ==
    /\ RoomLock \notin held[p] =>
          status' = status /\ owner' = owner /\ present' = present
    /\ RoomLock \notin held[p] /\ KeyShare(RoomRow) \notin held[p] => score' = score
    /\ \A u \in present : ForUpdate(MemberRow(u)) \notin held[p] => u \in present'
    /\ \A i \in DOMAIN transfers :
          /\ i \in DOMAIN transfers'
          /\ ForUpdate(TransferRow(i)) \notin held[p] => transfers'[i] = transfers[i]

\* What q has checked under its locks stays so when p only changes rows that
\* p itself has locked.
LEMMA OthersStayChecked ==
    ASSUME TypeOK, Exclusive, NEW p \in Proc, NEW q \in Proc, p # q, Checked(q),
           pc'[q] = pc[q], req'[q] = req[q], held'[q] = held[q], seen'[q] = seen[q],
           Guarded(p)
    PROVE  Checked(q)'
<1>1. RequestKept(q)' /\ InOrder(q)' /\ KeyGuard(q)'
  BY DEF Checked, RequestKept, InOrder, KeyGuard
<1>2. RoomGuard(q)'
  BY ExclusiveIsMutual DEF Checked, RoomGuard, Guarded
<1>3. LeaveGuard(q)'
  <2>1. SUFFICES ASSUME pc[q] \in {"settle", "commit"}, req[q].kind \in Leaving
                 PROVE  /\ Subject(q)' \in present'
                        /\ ForUpdate(MemberRow(Subject(q)')) \in held'[q]
                        /\ seen'[q].score = score'[Subject(q)']
                        /\ pc'[q] = "commit" /\ present' \subseteq {Subject(q)'} =>
                              seen'[q].final = score'
    BY DEF LeaveGuard
  <2>2. RoomLock \in held[q]
    BY <2>1 DEF Checked, RoomGuard, Leaving, LocksRoom
  <2>3. present' = present /\ score' = score
    BY <2>2, ExclusiveIsMutual DEF Guarded
  <2>4. Subject(q)' = Subject(q)
    BY <2>1 DEF Subject, Leaving, Undoing
  <2>5. QED
    BY <2>1, <2>3, <2>4 DEF Checked, LeaveGuard
<1>4. UndoGuard(q)'
  BY ExclusiveIsMutual DEF Checked, UndoGuard, Guarded
<1>5. ChatGuard(q)'
  BY ExclusiveIsMutual DEF Checked, ChatGuard, Guarded
<1>6. QED
  BY <1>1, <1>2, <1>3, <1>4, <1>5 DEF Checked

\* The rest of the invariant, which the steps that write no row keep.
LEMMA RowsKept ==
    ASSUME Inv, NEW p \in Proc, UNCHANGED rows
    PROVE  Guarded(p) /\ MembersHaveRows' /\ OwnerIsPresent'
BY DEF Inv, rows, Guarded, MembersHaveRows, OwnerIsPresent, HasRow

\* What is left to show of a step of p that changes no other handler.
LEMMA StepKeepsInv ==
    ASSUME Inv, NEW p \in Proc, Guarded(p), TypeOK', Exclusive', MembersHaveRows',
           OwnerIsPresent', Checked(p)',
           \A q \in Proc : q # p =>
              pc'[q] = pc[q] /\ req'[q] = req[q] /\ held'[q] = held[q] /\ seen'[q] = seen[q]
    PROVE  Inv'
<1>1. ASSUME NEW q \in Proc PROVE Checked(q)'
  BY OthersStayChecked DEF Inv
<1>2. QED
  BY <1>1 DEF Inv

\* A handler that is refused, cancelled or aborted changes nothing others rely on.
\* (This and the lemmas about commits also say that the step is Guarded, which
\* the proof of the refinement uses.)
LEMMA RefuseKeepsInv ==
    ASSUME Inv, NEW p \in Proc, Refuse(p)
    PROVE  Inv' /\ Guarded(p)
<1>1. TypeOK /\ Finish(p) /\ UNCHANGED rows
  BY DEF Inv, Refuse
<1>2. TypeOK'
  BY <1>1, FinishedIsChecked DEF TypeOK, rows
<1>3. Exclusive'
  BY <1>1, FinishKeepsExclusive DEF Inv
<1>4. Guarded(p) /\ MembersHaveRows' /\ OwnerIsPresent'
  BY <1>1, RowsKept
<1>5. Checked(p)'
  BY <1>1, FinishedIsChecked
<1>6. \A q \in Proc : q # p =>
         pc'[q] = pc[q] /\ req'[q] = req[q] /\ held'[q] = held[q] /\ seen'[q] = seen[q]
  BY <1>1 DEF TypeOK, Finish
<1>7. QED
  BY <1>2, <1>3, <1>4, <1>5, <1>6, StepKeepsInv

\* A step that writes no row keeps the invariant if it keeps the locks exclusive
\* and what the handler itself relies on.
LEMMA SilentStepKeepsInv ==
    ASSUME Inv, NEW p \in Proc, UNCHANGED rows, Exclusive', Checked(p)',
           NEW h \in SUBSET Locks, held' = [held EXCEPT ![p] = h],
           NEW next \in PC, pc' = [pc EXCEPT ![p] = next],
           NEW r \in Request, req' = [req EXCEPT ![p] = r],
           NEW s \in [owner : User \cup {NoUser}, score : Int, final : [User -> Int]],
           seen' = [seen EXCEPT ![p] = s]
    PROVE  Inv'
<1>1. TypeOK
  BY DEF Inv
<1>2. TypeOK'
  BY <1>1 DEF TypeOK, rows
<1>3. \A q \in Proc : q # p =>
         pc'[q] = pc[q] /\ req'[q] = req[q] /\ held'[q] = held[q] /\ seen'[q] = seen[q]
  BY <1>1 DEF TypeOK
<1>4. QED
  BY <1>2, <1>3, RowsKept, StepKeepsInv

-----------------------------------------------------------------------------
(* The steps that write no row.                                            *)

\* The requests that are served are of the type of requests and name what
\* their kind needs.
LEMMA InputsType ==
    ASSUME NEW r \in Inputs
    PROVE  /\ r \in Request /\ r.kind \in AllKinds /\ r.user \in User
           /\ r.kind \in {"kick", "transfer"} => r.peer \in User /\ r.peer # r.user
           /\ r.kind = "transfer" => r.amount \in Amounts
           /\ r.kind \in Undoing => r.id \in 1 .. MaxTransfers
<1>1. r \in Requests /\ r.user # r.peer
  BY DEF Inputs
<1>2. CASE r \in {Ask(k, u, NoUser, 0, 0) :
                     k \in {"join", "leave", "chatOn", "chatOff", "chat"}, u \in User}
  BY <1>2, ConstantsAssumption DEF Ask, Request, AllKinds, Undoing
<1>3. CASE r \in {Ask("kick", u, v, 0, 0) : u \in User, v \in User}
  BY <1>1, <1>3, ConstantsAssumption DEF Ask, Request, AllKinds, Undoing
<1>4. CASE r \in {Ask("transfer", u, v, a, 0) : u \in User, v \in User, a \in Amounts}
  BY <1>1, <1>4, ConstantsAssumption DEF Ask, Request, AllKinds, Undoing
<1>5. CASE r \in {Ask(k, u, NoUser, 0, i) :
                     k \in {"rollback", "reject"}, u \in User, i \in 1 .. MaxTransfers}
  BY <1>5, ConstantsAssumption DEF Ask, Request, AllKinds, Undoing
<1>6. QED
  BY <1>1, <1>2, <1>3, <1>4, <1>5 DEF Requests

\* A new request keeps the invariant.
LEMMA StartKeepsInv ==
    ASSUME Inv, NEW p \in Proc, NEW r \in Inputs, Start(p, r)
    PROVE  Inv'
<1>1. TypeOK
  BY DEF Inv
<1> DEFINE next == IF r.kind \in LocksRoom THEN "room" ELSE "read"
<1>2. /\ req' = [req EXCEPT ![p] = r] /\ pc' = [pc EXCEPT ![p] = next]
      /\ held' = held /\ seen' = seen /\ UNCHANGED rows
  BY DEF Start
<1>3. /\ held' = [held EXCEPT ![p] = held[p]] /\ seen' = [seen EXCEPT ![p] = seen[p]]
      /\ held[p] \in SUBSET Locks
      /\ seen[p] \in [owner : User \cup {NoUser}, score : Int, final : [User -> Int]]
  BY <1>1, <1>2 DEF TypeOK
<1>4. Exclusive'
  BY <1>2 DEF Inv, Exclusive
<1>5. Checked(p)'
  <2>1. pc'[p] \in {"room", "read"} /\ req'[p] = r
    BY <1>1, <1>2 DEF TypeOK
  <2>2. r.kind \in LocksRoom <=> pc'[p] = "room"
    BY <1>1, <1>2 DEF TypeOK
  <2>3. RequestKept(p)'
    BY <2>1, InputsType DEF RequestKept
  <2>4. InOrder(p)'
    BY <2>1, <2>2, InputsType DEF InOrder, AllKinds, LocksRoom, Undoing
  <2>5. QED
    BY <2>1, <2>3, <2>4 DEF Checked, RoomGuard, LeaveGuard, UndoGuard, ChatGuard, KeyGuard
<1>6. next \in PC /\ r \in Request
  BY InputsType DEF PC
<1>7. QED
  BY <1>2, <1>3, <1>4, <1>5, <1>6, SilentStepKeepsInv

\* Reading the rooms row without a lock keeps the invariant.
LEMMA ReadRoomKeepsInv == ASSUME Inv, NEW p \in Proc, ReadRoom(p) PROVE Inv'
<1>1. TypeOK /\ Checked(p)
  BY DEF Inv
<1>2. CASE Refuse(p)
  BY <1>2, RefuseKeepsInv
<1>3. CASE ~Refuse(p)
  <2> DEFINE next == IF req[p].kind = "chat" THEN "member" ELSE "transfer"
             s == [seen[p] EXCEPT !.owner = owner]
  <2>1. /\ pc[p] = "read" /\ pc' = [pc EXCEPT ![p] = next] /\ seen' = [seen EXCEPT ![p] = s]
        /\ held' = held /\ req' = req /\ UNCHANGED rows
    BY <1>3 DEF ReadRoom
  <2>2. /\ held' = [held EXCEPT ![p] = held[p]] /\ req' = [req EXCEPT ![p] = req[p]]
        /\ held[p] \in SUBSET Locks /\ req[p] \in Request
    BY <1>1, <2>1 DEF TypeOK
  <2>3. s \in [owner : User \cup {NoUser}, score : Int, final : [User -> Int]]
    BY <1>1 DEF TypeOK
  <2>4. Exclusive'
    BY <2>1 DEF Inv, Exclusive
  <2>5. Checked(p)'
    <3>1. pc'[p] = next /\ req'[p] = req[p] /\ req[p].kind \in Undoing \cup {"chat"}
      BY <1>1, <2>1 DEF TypeOK, Checked, InOrder
    <3>2. QED
      BY <1>1, <2>1, <3>1 DEF Checked, RequestKept, InOrder, RoomGuard, LeaveGuard,
         UndoGuard, ChatGuard, KeyGuard, Undoing, LocksRoom, Leaving
  <2>6. QED
    BY <2>1, <2>2, <2>3, <2>4, <2>5, SilentStepKeepsInv DEF PC
<1>4. QED
  BY <1>2, <1>3

\* A step that takes a lock keeps the invariant if it keeps what the handler
\* itself relies on.
LEMMA LockStepKeepsInv ==
    ASSUME Inv, NEW p \in Proc, NEW l \in Locks, NEW next \in PC, Lock(p, l, next),
           req' = req, UNCHANGED rows, Checked(p)',
           NEW s \in [owner : User \cup {NoUser}, score : Int, final : [User -> Int]],
           seen' = [seen EXCEPT ![p] = s]
    PROVE  Inv'
<1>1. TypeOK /\ Exclusive
  BY DEF Inv
<1>2. Exclusive'
  BY <1>1, LockKeepsExclusive
<1>3. /\ held' = [held EXCEPT ![p] = held[p] \cup {l}]
      /\ held[p] \cup {l} \in SUBSET Locks
      /\ pc' = [pc EXCEPT ![p] = next]
      /\ req' = [req EXCEPT ![p] = req[p]] /\ req[p] \in Request
  BY <1>1 DEF Lock, TypeOK
<1>4. QED
  BY <1>2, <1>3, SilentStepKeepsInv

\* The local state of a handler that has taken a lock and written nothing.
LEMMA Locked ==
    ASSUME Inv, NEW p \in Proc, NEW l, NEW next, Lock(p, l, next),
           UNCHANGED rows
    PROVE  /\ TypeOK /\ Checked(p) /\ pc'[p] = next /\ held'[p] = held[p] \cup {l}
           /\ UNCHANGED <<status, owner, present, score, transfers>>
BY DEF Inv, TypeOK, Lock, rows

\* A handler that reads nothing keeps what it has seen.
LEMMA SeenKept ==
    ASSUME TypeOK, NEW p \in Proc
    PROVE  /\ seen = [seen EXCEPT ![p] = seen[p]]
           /\ seen[p] \in [owner : User \cup {NoUser}, score : Int, final : [User -> Int]]
BY DEF TypeOK

\* Locking the rooms row, or being refused then, keeps the invariant.
LEMMA LockRoomKeepsInv == ASSUME Inv, NEW p \in Proc, LockRoom(p) PROVE Inv'
<1>1. CASE Refuse(p)
  BY <1>1, RefuseKeepsInv
<1>2. CASE ~Refuse(p)
  <2> DEFINE next == IF req[p].kind \in {"chatOn", "chatOff"} THEN "commit" ELSE "member"
  <2>1. /\ pc[p] = "room" /\ MayProceed(p) /\ Lock(p, RoomLock, next)
        /\ req' = req /\ seen' = seen /\ UNCHANGED rows
    BY <1>2 DEF LockRoom, RoomLock
  <2>2. /\ TypeOK /\ Checked(p) /\ pc'[p] = next /\ held'[p] = held[p] \cup {RoomLock}
        /\ UNCHANGED <<status, owner, present, score, transfers>>
    BY <2>1, Locked
  <2>3. req[p].kind \in LocksRoom
    BY <2>1, <2>2 DEF Checked, InOrder
  <2>4. RequestKept(p)' /\ InOrder(p)'
    BY <2>1, <2>2, <2>3 DEF Checked, RequestKept, InOrder
  <2>5. RoomGuard(p)'
    BY <2>1, <2>2, <2>3 DEF RoomGuard, MayProceed
  <2>6. LeaveGuard(p)' /\ UndoGuard(p)' /\ ChatGuard(p)' /\ KeyGuard(p)'
    BY <2>1, <2>2, <2>3 DEF LeaveGuard, UndoGuard, ChatGuard, KeyGuard, LocksRoom,
                            Undoing, Leaving
  <2>7. QED
    BY <2>1, <2>2, <2>4, <2>5, <2>6, SeenKept, LocksType, LockStepKeepsInv DEF Checked, PC
<1>3. QED
  BY <1>1, <1>2

\* Locking a transfer, or being refused then, keeps the invariant.
LEMMA LockTransferKeepsInv == ASSUME Inv, NEW p \in Proc, LockTransfer(p) PROVE Inv'
<1>1. CASE Refuse(p)
  BY <1>1, RefuseKeepsInv
<1>2. CASE ~Refuse(p)
  <2> DEFINE i == req[p].id
             l == ForUpdate(TransferRow(i))
  <2>1. /\ pc[p] = "transfer" /\ i \in DOMAIN transfers /\ transfers[i].status = "pending"
        /\ Lock(p, l, "member")
        /\ req' = req /\ seen' = seen /\ UNCHANGED rows
    BY <1>2 DEF LockTransfer
  <2>2. /\ TypeOK /\ Checked(p) /\ pc'[p] = "member" /\ held'[p] = held[p] \cup {l}
        /\ UNCHANGED <<status, owner, present, score, transfers>>
    BY <2>1, Locked
  <2>3. req[p].kind \in Undoing /\ i \in 0 .. MaxTransfers
    BY <2>1, <2>2, ConstantsAssumption DEF Checked, InOrder, RequestKept
  <2>4. RequestKept(p)' /\ InOrder(p)'
    BY <2>1, <2>2, <2>3 DEF Checked, RequestKept, InOrder
  <2>5. UndoGuard(p)'
    BY <2>1, <2>2, <2>3 DEF UndoGuard
  <2>6. RoomGuard(p)' /\ LeaveGuard(p)' /\ ChatGuard(p)' /\ KeyGuard(p)'
    BY <2>1, <2>2, <2>3 DEF RoomGuard, LeaveGuard, ChatGuard, KeyGuard, LocksRoom, Undoing,
                            Leaving
  <2>7. l \in Locks
    BY <2>3, LocksType
  <2>8. QED
    BY <2>1, <2>2, <2>4, <2>5, <2>6, <2>7, SeenKept, LockStepKeepsInv DEF Checked, PC
<1>3. QED
  BY <1>1, <1>2

\* The foreign key check of a message keeps the invariant.
LEMMA ShareRoomKeyKeepsInv == ASSUME Inv, NEW p \in Proc, ShareRoomKey(p) PROVE Inv'
<1> DEFINE l == KeyShare(RoomRow)
<1>1. /\ pc[p] = "key" /\ Lock(p, l, "commit")
      /\ req' = req /\ seen' = seen /\ UNCHANGED rows
  BY DEF ShareRoomKey
<1>2. /\ TypeOK /\ Checked(p) /\ pc'[p] = "commit" /\ held'[p] = held[p] \cup {l}
      /\ UNCHANGED <<status, owner, present, score, transfers>>
  BY <1>1, Locked
<1>3. req[p].kind \in Undoing \cup {"chat"}
  BY <1>1, <1>2 DEF Checked, InOrder
<1>4. RequestKept(p)' /\ InOrder(p)'
  BY <1>1, <1>2, <1>3 DEF Checked, RequestKept, InOrder
<1>5. UndoGuard(p)' /\ ChatGuard(p)' /\ KeyGuard(p)'
  BY <1>1, <1>2, <1>3 DEF Checked, UndoGuard, ChatGuard, KeyGuard
<1>6. RoomGuard(p)' /\ LeaveGuard(p)'
  BY <1>1, <1>3 DEF RoomGuard, LeaveGuard, LocksRoom, Undoing, Leaving
<1>7. QED
  BY <1>1, <1>2, <1>4, <1>5, <1>6, SeenKept, LocksType, LockStepKeepsInv DEF Checked, PC

\* Whose member row a request locks, by its kind.
LEMMA SubjectCases ==
    ASSUME NEW p \in Proc
    PROVE  /\ req[p].kind = "kick" => Subject(p) = req[p].peer
           /\ req[p].kind \in Undoing => Subject(p) = transfers[req[p].id].from
           /\ req[p].kind \notin Undoing \cup {"kick"} => Subject(p) = req[p].user
BY DEF Subject, Undoing

\* The statement that follows, by the kind of the request.
LEMMA AfterMemberCases ==
    ASSUME NEW p \in Proc
    PROVE  /\ req[p].kind \in Leaving =>
                 AfterMember(p) = IF present \subseteq {Subject(p)} THEN "settle" ELSE "commit"
           /\ req[p].kind \in Undoing \cup {"transfer"} => AfterMember(p) = "other"
           /\ req[p].kind = "chat" => AfterMember(p) = "key"
           /\ req[p].kind \notin Leaving \cup Undoing \cup {"transfer", "chat"} =>
                 AfterMember(p) = "commit"
BY DEF AfterMember, Leaving, Undoing

\* Only a user's row is ever found.
LEMMA MatchesUser ==
    ASSUME TypeOK, NEW p \in Proc, NEW u, Matches(p, u)
    PROVE  u \in User
BY DEF TypeOK, Matches, HasRow

\* Locking the first member row, or not finding it, keeps the invariant.
LEMMA LockMemberKeepsInv == ASSUME Inv, NEW p \in Proc, LockMember(p) PROVE Inv'
<1> DEFINE u == Subject(p)
           l == ForUpdate(MemberRow(u))
           next == AfterMember(p)
           s == [seen[p] EXCEPT !.score = score[u]]
<1>1. TypeOK /\ Exclusive /\ Checked(p) /\ pc[p] = "member"
  BY DEF Inv, LockMember
<1>2. CASE Refuse(p)
  BY <1>2, RefuseKeepsInv
<1>3. CASE /\ Matches(p, u) /\ Lock(p, l, next)
           /\ seen' = [seen EXCEPT ![p].score = score[u]] /\ req' = req /\ UNCHANGED rows
  <2>1. /\ pc'[p] = next /\ held'[p] = held[p] \cup {l}
        /\ UNCHANGED <<status, owner, present, score, transfers>>
    BY <1>3, Locked
  <2>2. u \in User
    BY <1>1, <1>3, MatchesUser
  <2>3. /\ seen' = [seen EXCEPT ![p] = s] /\ seen'[p].score = score[u]
        /\ s \in [owner : User \cup {NoUser}, score : Int, final : [User -> Int]]
    BY <1>1, <1>3, <2>2 DEF TypeOK
  <2>4. next \in PC
    BY <1>1, AfterMemberCases DEF PC
  <2>5. RequestKept(p)'
    BY <1>1, <1>3 DEF Checked, RequestKept
  <2>6. InOrder(p)'
    BY <1>1, <1>3, <2>1, AfterMemberCases DEF InOrder, Leaving, Undoing
  <2>7. RoomGuard(p)'
    BY <1>1, <1>3, <2>1 DEF Checked, RoomGuard
  <2>8. LeaveGuard(p)'
    <3>1. SUFFICES ASSUME req[p].kind \in Leaving
                   PROVE  /\ u \in present
                          /\ next = "commit" => ~(present \subseteq {u})
                          /\ Subject(p)' = u
      BY <1>3, <2>1, <2>3 DEF LeaveGuard
    <3>2. u \in present
      BY <1>3, <3>1 DEF Matches, Leaving, Undoing
    <3>3. Subject(p)' = u
      BY <1>3, <3>1 DEF Subject, Leaving, Undoing
    <3>4. QED
      BY <3>1, <3>2, <3>3, AfterMemberCases
  <2>9. UndoGuard(p)'
    BY <1>1, <1>3, <2>1 DEF Checked, UndoGuard
  <2>10. ChatGuard(p)'
    BY <1>1, <1>3, <2>1, SubjectCases DEF ChatGuard, Matches, Undoing
  <2>11. KeyGuard(p)'
    BY <1>3, <2>1, AfterMemberCases DEF KeyGuard, Undoing
  <2>12. l \in Locks
    BY <2>2, LocksType
  <2>13. QED
    BY <1>3, <2>3, <2>4, <2>5, <2>6, <2>7, <2>8, <2>9, <2>10, <2>11, <2>12,
       LockStepKeepsInv DEF Checked
<1>4. CASE /\ req[p].kind = "join" /\ pc' = [pc EXCEPT ![p] = "commit"]
           /\ UNCHANGED <<held, req, seen>> /\ UNCHANGED rows
  <2>1. pc'[p] = "commit" /\ req'[p] = req[p] /\ held'[p] = held[p]
    BY <1>1, <1>4 DEF TypeOK
  <2>2. UNCHANGED <<status, owner>>
    BY <1>4 DEF rows
  <2>3. Checked(p)'
    BY <1>1, <1>4, <2>1, <2>2 DEF Checked, RequestKept, InOrder, RoomGuard, LeaveGuard,
       UndoGuard, ChatGuard, KeyGuard, Undoing, Leaving
  <2>4. Exclusive'
    BY <1>1, <1>4 DEF Exclusive
  <2>5. /\ held' = [held EXCEPT ![p] = held[p]] /\ req' = [req EXCEPT ![p] = req[p]]
        /\ held[p] \in SUBSET Locks /\ req[p] \in Request
    BY <1>1, <1>4 DEF TypeOK
  <2>6. QED
    BY <1>1, <1>4, <2>3, <2>4, <2>5, SeenKept, SilentStepKeepsInv DEF PC
<1>5. QED
  BY <1>2, <1>3, <1>4 DEF LockMember

\* Locking the second member row, or not finding it, keeps the invariant.
LEMMA LockOtherKeepsInv == ASSUME Inv, NEW p \in Proc, LockOther(p) PROVE Inv'
<1>1. CASE Refuse(p)
  BY <1>1, RefuseKeepsInv
<1>2. CASE ~Refuse(p)
  <2> DEFINE u == Other(p)
             l == ForUpdate(MemberRow(u))
             next == IF req[p].kind = "transfer" THEN "commit" ELSE "key"
  <2>1. /\ pc[p] = "other" /\ Matches(p, u) /\ Lock(p, l, next)
        /\ req' = req /\ seen' = seen /\ UNCHANGED rows
    BY <1>2 DEF LockOther
  <2>2. /\ TypeOK /\ Checked(p) /\ pc'[p] = next /\ held'[p] = held[p] \cup {l}
        /\ UNCHANGED <<status, owner, present, score, transfers>>
    BY <2>1, Locked
  <2>3. req[p].kind \in Undoing \cup {"transfer"}
    BY <2>1, <2>2 DEF Checked, InOrder
  <2>4. RequestKept(p)' /\ InOrder(p)'
    BY <2>1, <2>2, <2>3 DEF Checked, RequestKept, InOrder
  <2>5. RoomGuard(p)' /\ UndoGuard(p)'
    BY <2>1, <2>2, <2>3 DEF Checked, RoomGuard, UndoGuard
  <2>6. LeaveGuard(p)' /\ ChatGuard(p)' /\ KeyGuard(p)'
    BY <2>1, <2>2, <2>3 DEF LeaveGuard, ChatGuard, KeyGuard, Undoing, Leaving
  <2>7. l \in Locks
    BY <2>1, <2>2, MatchesUser, LocksType
  <2>8. QED
    BY <2>1, <2>2, <2>4, <2>5, <2>6, <2>7, SeenKept, LockStepKeepsInv DEF Checked, PC
<1>3. QED
  BY <1>1, <1>2

\* The unlocked read of the scores for the record keeps the invariant: the
\* scores it sees are the current ones, as no other handler can commit a change
\* of a score while this one holds the rooms row.
LEMMA ReadScoresKeepsInv == ASSUME Inv, NEW p \in Proc, ReadScores(p) PROVE Inv'
<1> DEFINE final == [score EXCEPT ![Subject(p)] = seen[p].score]
           s == [seen[p] EXCEPT !.final = final]
<1>1. TypeOK /\ Exclusive /\ Checked(p)
  BY DEF Inv
<1>2. /\ pc[p] = "settle" /\ pc' = [pc EXCEPT ![p] = "commit"]
      /\ seen' = [seen EXCEPT ![p].final = final]
      /\ UNCHANGED <<held, req>> /\ UNCHANGED rows
  BY DEF ReadScores
<1>3. /\ pc'[p] = "commit" /\ req'[p] = req[p] /\ held'[p] = held[p]
      /\ UNCHANGED <<status, owner, present, score, transfers>>
  BY <1>1, <1>2 DEF TypeOK, rows
<1>4. req[p].kind \in Leaving
  BY <1>1, <1>2 DEF Checked, InOrder
<1>5. /\ Subject(p) \in present /\ ForUpdate(MemberRow(Subject(p))) \in held[p]
      /\ seen[p].score = score[Subject(p)]
  BY <1>1, <1>2, <1>4 DEF Checked, LeaveGuard
<1>6. final = score
  BY <1>1, <1>5 DEF TypeOK
<1>7. /\ seen' = [seen EXCEPT ![p] = s] /\ seen'[p].score = score[Subject(p)]
      /\ seen'[p].final = score
      /\ s \in [owner : User \cup {NoUser}, score : Int, final : [User -> Int]]
  <2>1. seen' = [seen EXCEPT ![p].final = score] /\ s = [seen[p] EXCEPT !.final = score]
    BY <1>2, <1>6
  <2>2. /\ seen' = [seen EXCEPT ![p] = s]
        /\ s.score = seen[p].score /\ s.final = score
        /\ s \in [owner : User \cup {NoUser}, score : Int, final : [User -> Int]]
    BY <1>1, <2>1 DEF TypeOK
  <2>3. seen'[p] = s
    BY <1>1, <2>2 DEF TypeOK
  <2>4. QED
    BY <1>5, <2>2, <2>3
<1>8. Subject(p)' = Subject(p)
  BY <1>3, <1>4 DEF Subject, Leaving, Undoing
<1>9. LeaveGuard(p)'
  BY <1>3, <1>5, <1>7, <1>8 DEF LeaveGuard
<1>10. RoomGuard(p)'
  BY <1>1, <1>2, <1>3 DEF Checked, RoomGuard
<1>11. RequestKept(p)' /\ InOrder(p)' /\ UndoGuard(p)' /\ ChatGuard(p)' /\ KeyGuard(p)'
  BY <1>1, <1>2, <1>3, <1>4 DEF Checked, RequestKept, InOrder, UndoGuard, ChatGuard,
     KeyGuard, Undoing, Leaving
<1>12. Exclusive'
  BY <1>1, <1>2 DEF Exclusive
<1>13. /\ held' = [held EXCEPT ![p] = held[p]] /\ req' = [req EXCEPT ![p] = req[p]]
       /\ held[p] \in SUBSET Locks /\ req[p] \in Request
  BY <1>1, <1>2 DEF TypeOK
<1>14. QED
  BY <1>2, <1>7, <1>9, <1>10, <1>11, <1>12, <1>13, SilentStepKeepsInv DEF Checked, PC

-----------------------------------------------------------------------------
(* The steps that commit.                                                  *)

\* A set of natural numbers that is not empty has a least element.
LEMMA LeastIndex ==
    ASSUME NEW T \in SUBSET Nat, T # {}
    PROVE  \E i \in T : \A j \in T : i <= j
<1> DEFINE less == OpToRel(<, Nat)
<1>1. IsWellFoundedOn(less, Nat)
  BY NatLessThanWellFounded
<1> HIDE DEF less
<1>2. PICK i \in T : \A j \in T : ~ (<<j, i>> \in less)
  BY <1>1, WFMin
<1>3. ASSUME NEW j \in T PROVE i <= j
  <2>1. j < i => <<j, i>> \in less
    BY DEF less, OpToRel
  <2>2. QED
    BY <1>2, <2>1
<1>4. QED
  BY <1>3

\* The part of TypeOK that is about the columns.
RowsTypeOK ==
    /\ status \in {"none", "active", "settled"}
    /\ owner \in User \cup {NoUser}
    /\ owners \subseteq User
    /\ chatEnabled \in BOOLEAN
    /\ joined \in Seq(User)
    /\ present \subseteq User
    /\ score \in [User -> Int]
    /\ transfers \in Seq(Transfers)
    /\ chats \in [User -> Nat]
    /\ recorded \subseteq User
    /\ finalScore \in [User -> Int]

\* What is left to show of the commit of a transaction.
LEMMA CommitKeepsInv ==
    ASSUME Inv, NEW p \in Proc, Finish(p), Guarded(p), RowsTypeOK', MembersHaveRows',
           OwnerIsPresent'
    PROVE  Inv'
<1>1. TypeOK /\ Exclusive
  BY DEF Inv
<1>2. TypeOK'
  BY <1>1, FinishedIsChecked DEF TypeOK, RowsTypeOK
<1>3. Exclusive' /\ Checked(p)'
  BY <1>1, FinishKeepsExclusive, FinishedIsChecked
<1>4. \A q \in Proc : q # p =>
         pc'[q] = pc[q] /\ req'[q] = req[q] /\ held'[q] = held[q] /\ seen'[q] = seen[q]
  BY <1>1 DEF TypeOK, Finish
<1>5. QED
  BY <1>2, <1>3, <1>4, StepKeepsInv

\* The columns have their types in every state of the invariant.
LEMMA RowsTyped == ASSUME Inv PROVE RowsTypeOK
BY DEF Inv, TypeOK, RowsTypeOK

\* A first join adds one member row and keeps the others.
LEMMA AppendMember ==
    ASSUME TypeOK, NEW u \in User
    PROVE  /\ Append(joined, u) \in Seq(User)
           /\ joined' = Append(joined, u) =>
                 \A v : HasRow(v)' <=> HasRow(v) \/ v = u
<1>1. joined \in Seq(User)
  BY DEF TypeOK
<1>2. Append(joined, u) \in Seq(User)
  BY <1>1
<1>3. ASSUME joined' = Append(joined, u), NEW v
      PROVE  HasRow(v)' <=> HasRow(v) \/ v = u
  <2>1. /\ Len(joined') = Len(joined) + 1 /\ Len(joined) \in Nat
        /\ DOMAIN joined = 1 .. Len(joined) /\ DOMAIN joined' = 1 .. Len(joined) + 1
        /\ joined'[Len(joined) + 1] = u
        /\ \A i \in 1 .. Len(joined) : joined'[i] = joined[i]
    BY <1>1, <1>3
  <2>2. QED
    BY <2>1 DEF HasRow
<1>4. QED
  BY <1>2, <1>3

\* The commit of a join keeps the invariant.
LEMMA CommitJoinKeepsInv ==
    ASSUME Inv, NEW p \in Proc, CommitJoin(p)
    PROVE  Inv' /\ Guarded(p)
<1>1. TypeOK /\ Checked(p) /\ MembersHaveRows /\ OwnerIsPresent
  BY DEF Inv
<1>2. PICK u \in User : u = req[p].user
  BY <1>1 DEF Checked, RequestKept, CommitJoin
<1>3. /\ pc[p] = "commit" /\ req[p].kind = "join"
      /\ present' = present \cup {u}
      /\ joined' = IF HasRow(u) THEN joined ELSE Append(joined, u)
      /\ score' = [score EXCEPT ![u] = IF HasRow(u) THEN seen[p].score ELSE 0]
      /\ Finish(p)
      /\ UNCHANGED <<status, owner, owners, chatEnabled, transfers, chats,
                     recorded, finalScore>>
  BY <1>2 DEF CommitJoin
<1>4. RoomLock \in held[p] /\ status = "active"
  BY <1>1, <1>3 DEF Checked, RoomGuard, LocksRoom
<1>5. Guarded(p)
  BY <1>1, <1>3, <1>4 DEF Guarded
<1>6. /\ joined' \in Seq(User) /\ HasRow(u)'
      /\ \A v \in present : HasRow(v)'
  <2>1. CASE HasRow(u)
    BY <1>1, <1>3, <2>1 DEF TypeOK, HasRow, MembersHaveRows
  <2>2. CASE ~HasRow(u)
    BY <1>1, <1>3, <1>2, <2>2, AppendMember DEF MembersHaveRows
  <2>3. QED
    BY <2>1, <2>2
<1>7. RowsTypeOK'
  <2>1. score' \in [User -> Int]
    BY <1>1, <1>3, <1>2 DEF TypeOK
  <2>2. QED
    BY <1>3, <1>2, <1>6, <2>1, RowsTyped DEF RowsTypeOK
<1>8. MembersHaveRows'
  BY <1>3, <1>4, <1>6 DEF MembersHaveRows
<1>9. OwnerIsPresent'
  BY <1>1, <1>3, <1>4 DEF OwnerIsPresent
<1>10. QED
  BY <1>3, <1>5, <1>7, <1>8, <1>9, CommitKeepsInv

\* Among members who stay there is one with the smallest join_seq.
LEMMA SuccessorExists ==
    ASSUME TypeOK, MembersHaveRows, NEW S \in SUBSET present, S # {}
    PROVE  /\ \E v \in User : Longest(v, S)
           /\ \A v : Longest(v, S) => v \in S
<1>1. /\ \A u \in S : HasRow(u)
      /\ Len(joined) \in Nat /\ DOMAIN joined = 1 .. Len(joined)
      /\ \A i \in DOMAIN joined : joined[i] \in User
  BY DEF TypeOK, MembersHaveRows
<1> DEFINE T == {i \in DOMAIN joined : joined[i] \in S}
<1>2. T \in SUBSET Nat /\ T # {}
  BY <1>1 DEF HasRow
<1>3. PICK i \in T : \A j \in T : i <= j
  BY <1>2, LeastIndex
<1>4. \A j \in 1 .. i - 1 : joined[j] \notin S
  BY <1>1, <1>2, <1>3
<1>5. Longest(joined[i], S)
  BY <1>3, <1>4 DEF Longest
<1>6. QED
  BY <1>1, <1>3, <1>5 DEF Longest

\* The commit of a leave or a kick keeps the invariant: an owner who leaves
\* others behind has a successor among them, a kick never hits the owner, and
\* the room is settled when nobody is left.
LEMMA CommitLeaveKeepsInv ==
    ASSUME Inv, NEW p \in Proc, CommitLeave(p)
    PROVE  Inv' /\ Guarded(p)
<1> DEFINE u == Subject(p)
           staying == present \ {u}
<1>1. TypeOK /\ Checked(p) /\ MembersHaveRows /\ OwnerIsPresent
  BY DEF Inv
<1>2. /\ pc[p] = "commit" /\ req[p].kind \in Leaving
      /\ present' = staying
      /\ score' = [score EXCEPT ![u] = seen[p].score]
      /\ HandOver(p) /\ SettleRoom(p) /\ Finish(p)
      /\ UNCHANGED <<chatEnabled, joined, transfers, chats>>
  BY DEF CommitLeave, Leaving
<1>3. /\ RoomLock \in held[p] /\ status = "active" /\ owner \in present
      /\ req[p].kind = "kick" => req[p].user = owner
  BY <1>1, <1>2 DEF Checked, RoomGuard, Leaving, LocksRoom, OwnerIsPresent
<1>4. /\ u \in present /\ ForUpdate(MemberRow(u)) \in held[p]
      /\ seen[p].score = score[u]
      /\ present \subseteq {u} => seen[p].final = score
  BY <1>1, <1>2 DEF Checked, LeaveGuard
<1>5. u \in User /\ score' = score
  BY <1>1, <1>2, <1>4 DEF TypeOK
<1>6. Guarded(p)
  BY <1>2, <1>3, <1>4, <1>5 DEF Guarded
<1>7. CASE present \subseteq {u}
  <2>1. /\ status' = "settled" /\ present' = {}
        /\ recorded' = {joined[i] : i \in DOMAIN joined} /\ finalScore' = score
    BY <1>2, <1>4, <1>7 DEF SettleRoom
  <2>2. ~\E v \in User : Longest(v, staying)
    BY <1>7 DEF Longest
  <2>3. owner' = owner /\ owners' = owners \cup {owner'}
    BY <1>2, <2>2 DEF HandOver
  <2>4. recorded' \subseteq User
    BY <1>1, <2>1 DEF TypeOK
  <2>5. RowsTypeOK'
    BY <1>1, <1>2, <1>3, <1>5, <2>1, <2>3, <2>4, RowsTyped DEF RowsTypeOK
  <2>6. MembersHaveRows' /\ OwnerIsPresent'
    BY <2>1 DEF MembersHaveRows, OwnerIsPresent
  <2>7. QED
    BY <1>2, <1>6, <2>5, <2>6, CommitKeepsInv
<1>8. CASE ~(present \subseteq {u})
  <2>1. UNCHANGED <<status, recorded, finalScore>>
    BY <1>2, <1>8 DEF SettleRoom
  <2>2. /\ \E v \in User : Longest(v, staying)
        /\ \A v : Longest(v, staying) => v \in staying
    <3>1. staying \in SUBSET present /\ staying # {}
      BY <1>8
    <3>2. QED
      BY <1>1, <3>1, SuccessorExists
  <2>3. owner' \in staying /\ owners' = owners \cup {owner'}
    <3>1. CASE req[p].kind = "leave" /\ owner = u
      BY <1>2, <2>2, <3>1 DEF HandOver
    <3>2. CASE req[p].kind = "leave" /\ owner # u
      BY <1>2, <1>3, <3>2 DEF HandOver
    <3>3. CASE req[p].kind = "kick"
      <4>1. u = req[p].peer /\ req[p].peer # req[p].user
        BY <1>1, <1>2, <3>3, SubjectCases DEF Checked, RequestKept
      <4>2. QED
        BY <1>2, <1>3, <3>3, <4>1 DEF HandOver
    <3>4. QED
      BY <1>2, <3>1, <3>2, <3>3 DEF Leaving
  <2>4. RowsTypeOK'
    BY <1>1, <1>2, <1>5, <2>1, <2>3, RowsTyped DEF RowsTypeOK
  <2>5. MembersHaveRows'
    BY <1>1, <1>2, <1>3, <2>1 DEF MembersHaveRows, HasRow
  <2>6. OwnerIsPresent'
    BY <1>2, <1>3, <2>1, <2>3 DEF OwnerIsPresent
  <2>7. QED
    BY <1>2, <1>6, <2>4, <2>5, <2>6, CommitKeepsInv
<1>9. QED
  BY <1>7, <1>8

\* The commit of a chat toggle keeps the invariant.
LEMMA CommitToggleKeepsInv ==
    ASSUME Inv, NEW p \in Proc, CommitToggle(p)
    PROVE  Inv' /\ Guarded(p)
<1>1. /\ chatEnabled' \in BOOLEAN /\ Finish(p)
      /\ UNCHANGED <<status, owner, owners, joined, present, score, transfers, chats,
                     recorded, finalScore>>
  BY DEF CommitToggle
<1>2. Guarded(p)
  BY <1>1 DEF Guarded
<1>3. RowsTypeOK'
  BY <1>1, RowsTyped DEF RowsTypeOK
<1>4. MembersHaveRows' /\ OwnerIsPresent'
  BY <1>1 DEF Inv, MembersHaveRows, OwnerIsPresent, HasRow
<1>5. QED
  BY <1>1, <1>2, <1>3, <1>4, CommitKeepsInv

\* The commit of a message keeps the invariant.
LEMMA CommitChatKeepsInv ==
    ASSUME Inv, NEW p \in Proc, CommitChat(p)
    PROVE  Inv' /\ Guarded(p)
<1>1. /\ pc[p] = "commit" /\ chats' = [chats EXCEPT ![req[p].user] = @ + 1]
      /\ Finish(p)
      /\ UNCHANGED <<status, owner, owners, chatEnabled, joined, present, score,
                     transfers, recorded, finalScore>>
  BY DEF CommitChat
<1>2. req[p].user \in User /\ chats \in [User -> Nat]
  BY <1>1 DEF Inv, TypeOK, Checked, RequestKept
<1>3. chats' \in [User -> Nat]
  BY <1>1, <1>2
<1>4. Guarded(p)
  BY <1>1 DEF Guarded
<1>5. RowsTypeOK'
  BY <1>1, <1>3, RowsTyped DEF RowsTypeOK
<1>6. MembersHaveRows' /\ OwnerIsPresent'
  BY <1>1 DEF Inv, MembersHaveRows, OwnerIsPresent, HasRow
<1>7. QED
  BY <1>1, <1>4, <1>5, <1>6, CommitKeepsInv

\* Moving points keeps the type of the scores and touches nothing else.
LEMMA MoveType ==
    ASSUME TypeOK, NEW p \in Proc, NEW u \in User, NEW v \in User, NEW a \in Int,
           Move(p, u, v, a)
    PROVE  /\ score' \in [User -> Int] /\ Finish(p)
           /\ UNCHANGED <<status, owner, owners, chatEnabled, joined, present, chats,
                          recorded, finalScore>>
BY DEF TypeOK, Move

\* The commit of a transfer keeps the invariant.
LEMMA CommitTransferKeepsInv ==
    ASSUME Inv, NEW p \in Proc, CommitTransfer(p)
    PROVE  Inv' /\ Guarded(p)
<1> DEFINE r == req[p]
           t == [from |-> r.user, to |-> r.peer, amount |-> r.amount,
                 status |-> "pending", by |-> NoUser]
<1>1. TypeOK /\ Checked(p)
  BY DEF Inv
<1>2. CASE Refuse(p)
  BY <1>2, RefuseKeepsInv
<1>3. CASE ~Refuse(p)
  <2>1. /\ pc[p] = "commit" /\ r.kind = "transfer"
        /\ Move(p, r.user, r.peer, r.amount) /\ transfers' = Append(transfers, t)
    BY <1>3 DEF CommitTransfer, OutOfRange
  <2>2. r.user \in User /\ r.peer \in User /\ r.amount \in Amounts /\ r.amount \in Int
    BY <1>1, <2>1, ConstantsAssumption DEF Checked, RequestKept
  <2>3. /\ score' \in [User -> Int] /\ Finish(p)
        /\ UNCHANGED <<status, owner, owners, chatEnabled, joined, present, chats,
                       recorded, finalScore>>
    BY <1>1, <2>1, <2>2, MoveType
  <2>4. RoomLock \in held[p]
    BY <1>1, <2>1 DEF Checked, RoomGuard, LocksRoom
  <2>5. t \in Transfers /\ transfers \in Seq(Transfers)
    BY <1>1, <2>2 DEF TypeOK, Transfers
  <2> HIDE DEF t
  <2>6. /\ transfers' \in Seq(Transfers) /\ DOMAIN transfers = 1 .. Len(transfers)
        /\ DOMAIN transfers' = 1 .. Len(transfers) + 1 /\ Len(transfers) \in Nat
        /\ \A i \in DOMAIN transfers : transfers'[i] = transfers[i]
    BY <2>1, <2>5
  <2>7. Guarded(p)
    BY <2>3, <2>4, <2>6 DEF Guarded
  <2>8. RowsTypeOK'
    BY <2>3, <2>6, RowsTyped DEF RowsTypeOK
  <2>9. MembersHaveRows' /\ OwnerIsPresent'
    BY <2>3 DEF Inv, MembersHaveRows, OwnerIsPresent, HasRow
  <2>10. QED
    BY <2>3, <2>7, <2>8, <2>9, CommitKeepsInv
<1>4. QED
  BY <1>2, <1>3

\* What the commit of an undo does to the transfer it has locked.
LEMMA UndoStep ==
    ASSUME Inv, NEW p \in Proc, CommitUndo(p), ~Refuse(p)
    PROVE  \E i \in DOMAIN transfers, n \in Transfers :
              LET t == transfers[i]
              IN  /\ t.status = "pending" /\ t \in Transfers
                  /\ ForUpdate(TransferRow(i)) \in held[p]
                  /\ KeyShare(RoomRow) \in held[p]
                  /\ Move(p, t.to, t.from, t.amount)
                  /\ n.from = t.from /\ n.to = t.to /\ n.amount = t.amount
                  /\ n.status \in {"rolled_back", "rejected"}
                  /\ transfers' = [transfers EXCEPT ![i] = n]
<1> DEFINE i == req[p].id
           t == transfers[i]
           n == Resolved(t, Undone(req[p].kind), req[p].user)
<1>1. TypeOK /\ Checked(p)
  BY DEF Inv
<1>2. /\ pc[p] = "commit" /\ req[p].kind \in Undoing
      /\ Move(p, t.to, t.from, t.amount)
      /\ transfers' = [transfers EXCEPT ![i] = n]
  BY DEF CommitUndo, OutOfRange
<1>3. /\ i \in DOMAIN transfers /\ t.status = "pending"
      /\ ForUpdate(TransferRow(i)) \in held[p] /\ KeyShare(RoomRow) \in held[p]
  BY <1>1, <1>2 DEF Checked, UndoGuard, KeyGuard
<1>4. t \in Transfers
  BY <1>1, <1>3 DEF TypeOK
<1>5. req[p].user \in User
  BY <1>1, <1>2 DEF Checked, RequestKept
<1>6. /\ n \in Transfers /\ n.from = t.from /\ n.to = t.to /\ n.amount = t.amount
      /\ n.status \in {"rolled_back", "rejected"}
  BY <1>4, <1>5 DEF Resolved, Undone, Transfers
<1>7. QED
  BY <1>2, <1>3, <1>4, <1>6

\* The commit of a rollback or a rejection keeps the invariant.
LEMMA CommitUndoKeepsInv ==
    ASSUME Inv, NEW p \in Proc, CommitUndo(p)
    PROVE  Inv' /\ Guarded(p)
<1>1. TypeOK /\ Checked(p)
  BY DEF Inv
<1>2. CASE Refuse(p)
  BY <1>2, RefuseKeepsInv
<1>3. CASE ~Refuse(p)
  <2>1. PICK i \in DOMAIN transfers, t \in Transfers, n \in Transfers :
           /\ ForUpdate(TransferRow(i)) \in held[p]
           /\ KeyShare(RoomRow) \in held[p]
           /\ Move(p, t.to, t.from, t.amount)
           /\ transfers' = [transfers EXCEPT ![i] = n]
    BY <1>3, UndoStep
  <2>2. t.to \in User /\ t.from \in User /\ t.amount \in Int
    BY ConstantsAssumption DEF Transfers
  <2>3. /\ score' \in [User -> Int] /\ Finish(p)
        /\ UNCHANGED <<status, owner, owners, chatEnabled, joined, present, chats,
                       recorded, finalScore>>
    BY <1>1, <2>1, <2>2, MoveType
  <2>4. /\ transfers' \in Seq(Transfers) /\ DOMAIN transfers' = DOMAIN transfers
        /\ \A j \in DOMAIN transfers : j # i => transfers'[j] = transfers[j]
    <3>1. transfers \in Seq(Transfers)
      BY <1>1 DEF TypeOK
    <3>2. QED
      BY <2>1, <3>1
  <2>5. Guarded(p)
    BY <2>1, <2>3, <2>4 DEF Guarded
  <2>6. RowsTypeOK'
    BY <2>3, <2>4, RowsTyped DEF RowsTypeOK
  <2>7. MembersHaveRows' /\ OwnerIsPresent'
    BY <2>3 DEF Inv, MembersHaveRows, OwnerIsPresent, HasRow
  <2>8. QED
    BY <2>3, <2>5, <2>6, <2>7, CommitKeepsInv
<1>4. QED
  BY <1>2, <1>3

\* The creation of the room keeps the invariant.
LEMMA CreateRoomKeepsInv == ASSUME Inv, NEW u \in User, CreateRoom(u) PROVE Inv'
<1>1. TypeOK /\ Exclusive /\ MembersHaveRows
  BY DEF Inv
<1>2. /\ status = "none" /\ status' = "active" /\ owner' = u
      /\ owners' = owners \cup {u} /\ joined' = Append(joined, u)
      /\ present' = present \cup {u}
      /\ UNCHANGED <<chatEnabled, score, transfers, chats, recorded, finalScore>>
      /\ UNCHANGED <<held, pc, req, seen>>
  BY DEF CreateRoom, local
<1>3. joined' \in Seq(User) /\ \A v : HasRow(v)' <=> HasRow(v) \/ v = u
  BY <1>1, <1>2, AppendMember
<1>4. TypeOK'
  BY <1>1, <1>2, <1>3 DEF TypeOK
<1>5. Exclusive' /\ MembersHaveRows' /\ OwnerIsPresent'
  BY <1>1, <1>2, <1>3 DEF Exclusive, MembersHaveRows, OwnerIsPresent
<1>6. ASSUME NEW p \in Proc PROVE Checked(p)'
  <2>1. Checked(p)
    BY DEF Inv
  <2>2. ~(pc[p] \in {"member", "other", "settle", "commit"} /\ req[p].kind \in LocksRoom)
    BY <1>2, <2>1 DEF Checked, RoomGuard
  <2>3. RoomGuard(p)' /\ LeaveGuard(p)'
    BY <1>2, <2>2 DEF RoomGuard, LeaveGuard, Leaving, LocksRoom
  <2>4. QED
    BY <1>2, <2>1, <2>3 DEF Checked, RequestKept, InOrder, UndoGuard, ChatGuard, KeyGuard
<1>7. QED
  BY <1>4, <1>5, <1>6 DEF Inv

-----------------------------------------------------------------------------
(* Theorems.                                                               *)

\* The invariant holds before the room exists.
LEMMA InitInv == Init => Inv
<1> SUFFICES ASSUME Init PROVE Inv
  OBVIOUS
<1>1. NoRequest \in Request
  BY ConstantsAssumption DEF NoRequest, Ask, Request
<1>2. Blank \in [owner : User \cup {NoUser}, score : Int, final : [User -> Int]]
  BY DEF Blank
<1>3. TypeOK
  <2>1. joined \in Seq(User) /\ transfers \in Seq(Transfers)
    BY DEF Init
  <2>2. /\ score \in [User -> Int] /\ chats \in [User -> Nat] /\ finalScore \in [User -> Int]
        /\ owners \subseteq User /\ present \subseteq User /\ recorded \subseteq User
    BY DEF Init
  <2>3. /\ held \in [Proc -> SUBSET Locks] /\ pc \in [Proc -> PC]
        /\ req \in [Proc -> Request]
        /\ seen \in [Proc -> [owner : User \cup {NoUser}, score : Int,
                              final : [User -> Int]]]
    BY <1>1, <1>2 DEF Init, PC
  <2>4. QED
    BY <2>1, <2>2, <2>3 DEF Init, TypeOK
<1>4. Exclusive /\ MembersHaveRows /\ OwnerIsPresent
  BY DEF Init, Exclusive, MembersHaveRows, OwnerIsPresent
<1>5. \A p \in Proc : Checked(p)
  BY DEF Init, Checked, RequestKept, InOrder, RoomGuard, LeaveGuard, UndoGuard,
         ChatGuard, KeyGuard
<1>6. QED
  BY <1>3, <1>4, <1>5 DEF Inv

\* Every step keeps the invariant.
LEMMA NextKeepsInv == Inv /\ [Next]_vars => Inv'
<1> SUFFICES ASSUME Inv, [Next]_vars PROVE Inv'
  OBVIOUS
<1>1. CASE UNCHANGED vars
  <2>1. UNCHANGED <<status, owner, owners, chatEnabled, joined, present, score,
                    transfers, chats, recorded, finalScore, held, pc, req, seen>>
    BY <1>1 DEF vars
  <2>2. TypeOK'
    BY <2>1 DEF Inv, TypeOK
  <2>3. Exclusive' /\ MembersHaveRows' /\ OwnerIsPresent'
    BY <2>1 DEF Inv, Exclusive, MembersHaveRows, OwnerIsPresent, HasRow
  <2>4. ASSUME NEW p \in Proc PROVE Checked(p)'
    <3>1. Subject(p)' = Subject(p)
      BY <2>1 DEF Subject
    <3>2. QED
      BY <2>1, <3>1 DEF Inv, Checked, RequestKept, InOrder, RoomGuard, LeaveGuard,
                        UndoGuard, ChatGuard, KeyGuard
  <2>5. QED
    BY <2>2, <2>3, <2>4 DEF Inv
<1>2. ASSUME NEW u \in User, CreateRoom(u) PROVE Inv'
  BY <1>2, CreateRoomKeepsInv
<1>3. ASSUME NEW p \in Proc, NEW r \in Inputs, Start(p, r) PROVE Inv'
  BY <1>3, StartKeepsInv
<1>4. ASSUME NEW p \in Proc, Advance(p) PROVE Inv'
  BY <1>4, ReadRoomKeepsInv, LockRoomKeepsInv, LockTransferKeepsInv, LockMemberKeepsInv,
     LockOtherKeepsInv, ReadScoresKeepsInv, ShareRoomKeyKeepsInv, CommitJoinKeepsInv,
     CommitLeaveKeepsInv, CommitToggleKeepsInv, CommitTransferKeepsInv,
     CommitUndoKeepsInv, CommitChatKeepsInv DEF Advance
<1>5. ASSUME NEW p \in Proc, Cancel(p) \/ AbortVictim(p) PROVE Inv'
  BY <1>5, RefuseKeepsInv DEF Cancel, AbortVictim
<1>6. QED
  BY <1>1, <1>2, <1>3, <1>4, <1>5 DEF Next

\* The invariant always holds.
THEOREM Invariance == Spec => []Inv
BY InitInv, NextKeepsInv, PTL DEF Spec

\* Every column and every handler's local state always has its type.
THEOREM TypeCorrect == Spec => []TypeOK
<1>1. Inv => TypeOK
  BY DEF Inv
<1>2. QED
  BY <1>1, Invariance, PTL

\* However many handlers join, leave, kick, and hand the room over at the same
\* time, an active room belongs to a member who is in it, and a settled room is
\* empty.
THEOREM OwnerAlwaysPresent == Spec => []OwnerIsPresent
<1>1. Inv => OwnerIsPresent
  BY DEF Inv
<1>2. QED
  BY <1>1, Invariance, PTL

\* The columns that each step of a handler can change.
LEMMA StepsWrite ==
    ASSUME [Next]_vars
    PROVE  \/ UNCHANGED <<status, transfers, chats, recorded, finalScore>>
           \/ \E u \in User : CreateRoom(u)
           \/ \E p \in Proc : \/ CommitLeave(p)
                              \/ CommitTransfer(p) /\ ~Refuse(p)
                              \/ CommitUndo(p) /\ ~Refuse(p)
                              \/ CommitChat(p)
<1>1. CASE UNCHANGED vars
  BY <1>1 DEF vars
<1>2. ASSUME NEW p \in Proc, NEW r \in Inputs, Start(p, r)
      PROVE  UNCHANGED <<status, transfers, chats, recorded, finalScore>>
  BY <1>2 DEF Start, rows
<1>3. ASSUME NEW p \in Proc, Refuse(p)
      PROVE  UNCHANGED <<status, transfers, chats, recorded, finalScore>>
  BY <1>3 DEF Refuse, rows
<1>4. ASSUME NEW p \in Proc, Advance(p)
      PROVE  \/ UNCHANGED <<status, transfers, chats, recorded, finalScore>>
             \/ CommitLeave(p)
             \/ CommitTransfer(p) /\ ~Refuse(p)
             \/ CommitUndo(p) /\ ~Refuse(p)
             \/ CommitChat(p)
  <2>1. CASE Refuse(p)
    BY <1>3, <2>1
  <2>2. ASSUME ~Refuse(p),
               ReadRoom(p) \/ LockRoom(p) \/ LockTransfer(p) \/ LockMember(p)
                  \/ LockOther(p) \/ ReadScores(p) \/ ShareRoomKey(p)
        PROVE  UNCHANGED rows
    BY <2>2 DEF ReadRoom, LockRoom, LockTransfer, LockMember, LockOther, ReadScores,
                ShareRoomKey
  <2>3. ASSUME CommitJoin(p) \/ CommitToggle(p)
        PROVE  UNCHANGED <<status, transfers, chats, recorded, finalScore>>
    BY <2>3 DEF CommitJoin, CommitToggle
  <2>4. QED
    BY <1>4, <2>1, <2>2, <2>3 DEF Advance, rows
<1>5. QED
  BY <1>1, <1>2, <1>3, <1>4 DEF Next, Cancel, AbortVictim

\* A step changes a transfer only from pending to undone, and not its effect.
LEMMA UndoneOnceStep ==
    ASSUME Inv, [Next]_vars
    PROVE  /\ Len(transfers) <= Len(transfers')
           /\ \A i \in DOMAIN transfers :
                 transfers'[i] # transfers[i] =>
                    /\ transfers[i].status = "pending"
                    /\ transfers'[i].status # "pending"
                    /\ \A u \in User : Effect(transfers'[i], u) = Effect(transfers[i], u)
<1>1. /\ transfers \in Seq(Transfers) /\ Len(transfers) \in Nat
      /\ DOMAIN transfers = 1 .. Len(transfers)
  BY DEF Inv, TypeOK
<1>2. CASE UNCHANGED transfers
  BY <1>1, <1>2
<1>3. ASSUME NEW p \in Proc, CommitTransfer(p), ~Refuse(p)
      PROVE  /\ Len(transfers') = Len(transfers) + 1
             /\ \A i \in DOMAIN transfers : transfers'[i] = transfers[i]
  <2> DEFINE t == [from |-> req[p].user, to |-> req[p].peer, amount |-> req[p].amount,
                   status |-> "pending", by |-> NoUser]
  <2>1. transfers' = Append(transfers, t)
    BY <1>3 DEF CommitTransfer, OutOfRange
  <2> HIDE DEF t
  <2>2. QED
    BY <1>1, <2>1
<1>4. ASSUME NEW p \in Proc, CommitUndo(p), ~Refuse(p)
      PROVE  /\ Len(transfers') = Len(transfers)
             /\ \A i \in DOMAIN transfers :
                   transfers'[i] # transfers[i] =>
                      /\ transfers[i].status = "pending"
                      /\ transfers'[i].status # "pending"
                      /\ \A u \in User : Effect(transfers'[i], u) = Effect(transfers[i], u)
  <2>1. PICK i \in DOMAIN transfers, n \in Transfers :
           LET t == transfers[i]
           IN  /\ t.status = "pending"
               /\ n.from = t.from /\ n.to = t.to /\ n.amount = t.amount
               /\ n.status \in {"rolled_back", "rejected"}
               /\ transfers' = [transfers EXCEPT ![i] = n]
    BY <1>4, UndoStep
  <2>2. /\ Len(transfers') = Len(transfers) /\ transfers'[i] = n
        /\ \A j \in DOMAIN transfers : j # i => transfers'[j] = transfers[j]
    BY <1>1, <2>1
  <2>3. \A u \in User : Effect(n, u) = Effect(transfers[i], u)
    BY <2>1 DEF Effect
  <2>4. QED
    BY <2>1, <2>2, <2>3
<1>5. ASSUME NEW p \in Proc, CommitLeave(p) \/ CommitChat(p) PROVE UNCHANGED transfers
  BY <1>5 DEF CommitLeave, CommitChat
<1>6. ASSUME NEW u \in User, CreateRoom(u) PROVE UNCHANGED transfers
  BY <1>6 DEF CreateRoom
<1>7. QED
  BY <1>1, <1>2, <1>3, <1>4, <1>5, <1>6, StepsWrite

\* Of any number of handlers that roll back or reject the same transfer at most
\* one succeeds.
THEOREM UndoneAtMostOnce == Spec => UndoneOnce
BY UndoneOnceStep, Invariance, PTL DEF Spec, UndoneOnce

\* A step that commits a message finds its sender in the active room.
LEMMA ChatFromMemberStep ==
    ASSUME Inv, [Next]_vars
    PROVE  \A u \in User : chats'[u] # chats[u] => status = "active" /\ u \in present
<1>1. ASSUME NEW p \in Proc, CommitChat(p)
      PROVE  \A u \in User : chats'[u] # chats[u] => status = "active" /\ u \in present
  <2>1. /\ pc[p] = "commit" /\ req[p].kind = "chat" /\ chats \in [User -> Nat]
        /\ chats' = [chats EXCEPT ![req[p].user] = @ + 1]
    BY <1>1 DEF CommitChat, Inv, TypeOK
  <2>2. req[p].user \in present
    BY <2>1 DEF Inv, Checked, ChatGuard
  <2>3. status = "active"
    BY <2>2 DEF Inv, TypeOK, MembersHaveRows, OwnerIsPresent
  <2>4. QED
    BY <2>1, <2>2, <2>3
<1>2. ASSUME NEW p \in Proc,
             \/ CommitLeave(p)
             \/ CommitTransfer(p) /\ ~Refuse(p)
             \/ CommitUndo(p) /\ ~Refuse(p)
      PROVE  UNCHANGED chats
  BY <1>2 DEF CommitLeave, CommitTransfer, CommitUndo, Move, OutOfRange
<1>3. ASSUME NEW u \in User, CreateRoom(u) PROVE UNCHANGED chats
  BY <1>3 DEF CreateRoom
<1>4. QED
  BY <1>1, <1>2, <1>3, StepsWrite

\* A message is only ever committed while its sender is in the active room,
\* although SendMessage never locks the room.
THEOREM MessagesAreFromMembers == Spec => ChatFromMember
BY ChatFromMemberStep, Invariance, PTL DEF Spec, ChatFromMember

\* A step writes the match record only when it settles the room, with the
\* scores of the state before.
LEMMA RecordIsSnapshotStep ==
    ASSUME Inv, [Next]_vars
    PROVE  IF status = "active" /\ status' = "settled"
           THEN /\ recorded' = {u \in User : HasRow(u)}
                /\ \A u \in recorded' : finalScore'[u] = score[u]
           ELSE UNCHANGED <<recorded, finalScore>>
<1>1. ASSUME NEW p \in Proc, CommitLeave(p)
      PROVE  IF status = "active" /\ status' = "settled"
             THEN /\ recorded' = {u \in User : HasRow(u)}
                  /\ \A u \in recorded' : finalScore'[u] = score[u]
             ELSE UNCHANGED <<recorded, finalScore>>
  <2>1. pc[p] = "commit" /\ req[p].kind \in Leaving /\ SettleRoom(p)
    BY <1>1 DEF CommitLeave, Leaving
  <2>2. status = "active"
    BY <2>1 DEF Inv, Checked, RoomGuard, Leaving, LocksRoom
  <2>3. present \subseteq {Subject(p)} => seen[p].final = score
    BY <2>1 DEF Inv, Checked, LeaveGuard
  <2>4. {joined[i] : i \in DOMAIN joined} = {u \in User : HasRow(u)}
    BY DEF Inv, TypeOK, HasRow
  <2>5. QED
    BY <2>1, <2>2, <2>3, <2>4 DEF SettleRoom
<1>2. ASSUME NEW p \in Proc,
             \/ CommitTransfer(p) /\ ~Refuse(p)
             \/ CommitUndo(p) /\ ~Refuse(p)
             \/ CommitChat(p)
      PROVE  UNCHANGED <<status, recorded, finalScore>>
  BY <1>2 DEF CommitChat, CommitTransfer, CommitUndo, Move, OutOfRange
<1>3. ASSUME NEW u \in User, CreateRoom(u)
      PROVE  status = "none" /\ UNCHANGED <<recorded, finalScore>>
  BY <1>3 DEF CreateRoom
<1>4. QED
  BY <1>1, <1>2, <1>3, StepsWrite

\* The match record is a snapshot of the scores at the moment of the settlement,
\* although settleRoomTx reads them without locks.
THEOREM RecordIsTakenAtOnce == Spec => RecordIsSnapshot
BY RecordIsSnapshotStep, Invariance, PTL DEF Spec, RecordIsSnapshot
=============================================================================
