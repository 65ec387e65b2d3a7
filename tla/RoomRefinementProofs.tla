------------------------ MODULE RoomRefinementProofs ------------------------
(***************************************************************************)
(* The proof that RoomTransactions implements Room: the commit of each     *)
(* handler is one step of the abstract room, every other step changes no   *)
(* row.  Beside the invariant of RoomTransactionsProofs it needs to know   *)
(* that what handlers have read for their commit is current, and a little  *)
(* about the history of the room.                                          *)
(*                                                                         *)
(* At the end, the proof that scores are the sum of the transfers that     *)
(* count.  Its two halves:                                                 *)
(*                                                                         *)
(*   what the recursive sum Net becomes when a transfer is appended or one *)
(*   that counted no longer does (no induction is needed beyond the        *)
(*   existence of the running balance, by the least index that has none);  *)
(*                                                                         *)
(*   the steps of the abstract room keep the ledger, and by the refinement *)
(*   the statement-by-statement handlers take no other steps.              *)
(***************************************************************************)
EXTENDS RoomTransactionsProofs

\* The whole row that a later join writes back is current.
JoinGuard(p) ==
    pc[p] = "commit" /\ req[p].kind = "join" /\ HasRow(req[p].user) =>
        seen[p].score = score[req[p].user]

\* The parties of a transfer are in the room.
PartiesGuard(p) ==
    req[p].kind = "transfer" =>
        /\ pc[p] \in {"other", "commit"} => req[p].user \in present
        /\ pc[p] = "commit" => req[p].peer \in present

\* Who undoes a transfer owns the room, has owned it, or is the right party.
EntitledGuard(p) ==
    req[p].kind \in Undoing =>
        /\ pc[p] = "transfer" => seen[p].owner \in owners
        /\ pc[p] \in {"member", "other", "key", "commit"} =>
              \/ req[p].user \in owners
              \/ /\ req[p].kind = "rollback"
                 /\ req[p].user = transfers[req[p].id].from
              \/ /\ req[p].kind = "reject"
                 /\ req[p].user = transfers[req[p].id].to

Entered(p) == JoinGuard(p) /\ PartiesGuard(p) /\ EntitledGuard(p)

\* Before the room exists it has no rows; its owner is one of its owners;
\* points are only ever moved between two different members.
History ==
    /\ status = "none" => joined = <<>> /\ owners = {}
    /\ status # "none" => owner \in owners
    /\ \A u \in User : ~HasRow(u) => score[u] = 0
    /\ \A i \in DOMAIN transfers :
          /\ transfers[i].from # transfers[i].to
          /\ HasRow(transfers[i].from) /\ HasRow(transfers[i].to)

RefInv == Inv /\ History /\ \A p \in Proc : Entered(p)

\* What p's step leaves to the others, beside Guarded: member rows come under
\* the lock of the rooms row, the past owners stay, an undone transfer keeps
\* its parties.
Kept(p) ==
    /\ RoomLock \notin held[p] => joined' = joined
    /\ owners \subseteq owners'
    /\ \A i \in DOMAIN transfers :
          transfers'[i].from = transfers[i].from /\ transfers'[i].to = transfers[i].to

\* What q relies on stays so when p only changes rows that p has locked.
LEMMA OthersStayEntered ==
    ASSUME RefInv, NEW p \in Proc, NEW q \in Proc, p # q,
           pc'[q] = pc[q], req'[q] = req[q], held'[q] = held[q], seen'[q] = seen[q],
           Guarded(p), Kept(p)
    PROVE  Entered(q)'
<1>1. TypeOK /\ Exclusive /\ Checked(q) /\ Entered(q)
  BY DEF RefInv, Inv
<1>2. RoomLock \in held[q] =>
         joined' = joined /\ score' = score /\ present' = present
  BY <1>1, ExclusiveIsMutual DEF Guarded, Kept
<1>3. JoinGuard(q)'
  BY <1>1, <1>2 DEF Entered, JoinGuard, HasRow, Checked, RoomGuard, LocksRoom
<1>4. PartiesGuard(q)'
  BY <1>1, <1>2 DEF Entered, PartiesGuard, Checked, RoomGuard, LocksRoom
<1>5. EntitledGuard(q)'
  <2>1. SUFFICES ASSUME req[q].kind \in Undoing PROVE EntitledGuard(q)'
    BY DEF EntitledGuard
  <2>2. pc[q] = "transfer" => seen'[q].owner \in owners'
    BY <1>1, <2>1 DEF Entered, EntitledGuard, Kept
  <2>3. ASSUME pc[q] \in {"member", "other", "key", "commit"}
        PROVE  \/ req[q].user \in owners'
               \/ /\ req[q].kind = "rollback"
                  /\ req[q].user = transfers'[req[q].id].from
               \/ /\ req[q].kind = "reject"
                  /\ req[q].user = transfers'[req[q].id].to
    <3>1. req[q].id \in DOMAIN transfers
      BY <1>1, <2>1, <2>3 DEF Checked, UndoGuard
    <3>2. QED
      BY <1>1, <2>1, <2>3, <3>1 DEF Entered, EntitledGuard, Kept
  <2>4. QED
    BY <2>2, <2>3 DEF EntitledGuard
<1>6. QED
  BY <1>3, <1>4, <1>5 DEF Entered

\* What is left to show of a step of p that changes no other handler.
LEMMA StepKeepsRefInv ==
    ASSUME RefInv, NEW p \in Proc, Inv', Guarded(p), Kept(p), History', Entered(p)',
           \A q \in Proc : q # p =>
              pc'[q] = pc[q] /\ req'[q] = req[q] /\ held'[q] = held[q] /\ seen'[q] = seen[q]
    PROVE  RefInv'
<1>1. ASSUME NEW q \in Proc PROVE Entered(q)'
  BY OthersStayEntered
<1>2. QED
  BY <1>1 DEF RefInv

\* A step that writes no row.
LEMMA SilentStepKeepsRefInv ==
    ASSUME RefInv, NEW p \in Proc, Inv', UNCHANGED rows, Entered(p)',
           \A q \in Proc : q # p =>
              pc'[q] = pc[q] /\ req'[q] = req[q] /\ held'[q] = held[q] /\ seen'[q] = seen[q]
    PROVE  RefInv'
<1>1. Guarded(p)
  BY RowsKept DEF RefInv
<1>2. Kept(p) /\ History'
  BY DEF RefInv, Kept, History, HasRow, rows
<1>3. QED
  BY <1>1, <1>2, StepKeepsRefInv

\* A handler that has answered relies on nothing.
LEMMA FinishedHasEntered ==
    ASSUME TypeOK, NEW p \in Proc, Finish(p)
    PROVE  /\ Entered(p)'
           /\ \A q \in Proc : q # p =>
                 /\ pc'[q] = pc[q] /\ req'[q] = req[q]
                 /\ held'[q] = held[q] /\ seen'[q] = seen[q]
<1>1. pc'[p] = "idle"
  BY DEF Finish, TypeOK
<1>2. Entered(p)'
  BY <1>1 DEF Entered, JoinGuard, PartiesGuard, EntitledGuard
<1>3. QED
  BY <1>2 DEF Finish, TypeOK

\* The same of the commit of a transaction.
LEMMA CommitKeepsRefInv ==
    ASSUME RefInv, NEW p \in Proc, Inv', Guarded(p), Finish(p), Kept(p), History'
    PROVE  RefInv'
<1>1. TypeOK
  BY DEF RefInv, Inv
<1>2. QED
  BY <1>1, FinishedHasEntered, StepKeepsRefInv

\* A handler that is refused, cancelled or aborted.
LEMMA RefuseKeepsRefInv == ASSUME RefInv, NEW p \in Proc, Refuse(p) PROVE RefInv'
<1>1. Inv' /\ Finish(p) /\ UNCHANGED rows /\ TypeOK
  BY RefuseKeepsInv DEF RefInv, Inv, Refuse
<1>2. QED
  BY <1>1, FinishedHasEntered, SilentStepKeepsRefInv
-----------------------------------------------------------------------------
(* The steps that write no row.                                            *)

\* A new request.
LEMMA StartKeepsRefInv ==
    ASSUME RefInv, NEW p \in Proc, NEW r \in Inputs, Start(p, r)
    PROVE  RefInv'
<1>1. TypeOK /\ Inv'
  BY StartKeepsInv DEF RefInv, Inv
<1>2. /\ pc' = [pc EXCEPT ![p] = IF r.kind \in LocksRoom THEN "room" ELSE "read"]
      /\ req' = [req EXCEPT ![p] = r] /\ UNCHANGED <<held, seen>> /\ UNCHANGED rows
  BY DEF Start
<1>3. pc'[p] \in {"room", "read"}
  BY <1>1, <1>2 DEF TypeOK
<1>4. Entered(p)'
  BY <1>3 DEF Entered, JoinGuard, PartiesGuard, EntitledGuard
<1>5. QED
  BY <1>1, <1>2, <1>4, SilentStepKeepsRefInv DEF TypeOK

\* Reading the rooms row without a lock.
LEMMA ReadRoomKeepsRefInv == ASSUME RefInv, NEW p \in Proc, ReadRoom(p) PROVE RefInv'
<1>1. CASE Refuse(p)
  BY <1>1, RefuseKeepsRefInv
<1>2. CASE ~Refuse(p)
  <2>1. TypeOK /\ Inv' /\ History
    BY ReadRoomKeepsInv DEF RefInv, Inv
  <2>2. /\ status # "none"
        /\ seen' = [seen EXCEPT ![p].owner = owner]
        /\ pc' = [pc EXCEPT ![p] = IF req[p].kind = "chat" THEN "member" ELSE "transfer"]
        /\ UNCHANGED <<held, req>> /\ UNCHANGED rows
    BY <1>2 DEF ReadRoom
  <2>3. /\ pc'[p] = IF req[p].kind = "chat" THEN "member" ELSE "transfer"
        /\ seen'[p].owner = owner /\ req'[p] = req[p] /\ owners' = owners
    BY <2>1, <2>2 DEF TypeOK, rows
  <2>4. Entered(p)'
    BY <2>1, <2>2, <2>3 DEF Entered, JoinGuard, PartiesGuard, EntitledGuard, History,
                            Undoing
  <2>5. QED
    BY <2>1, <2>2, <2>4, SilentStepKeepsRefInv DEF TypeOK
<1>3. QED
  BY <1>1, <1>2

\* Locking the rooms row.
LEMMA LockRoomKeepsRefInv == ASSUME RefInv, NEW p \in Proc, LockRoom(p) PROVE RefInv'
<1>1. CASE Refuse(p)
  BY <1>1, RefuseKeepsRefInv
<1>2. CASE ~Refuse(p)
  <2> DEFINE next == IF req[p].kind \in {"chatOn", "chatOff"} THEN "commit" ELSE "member"
  <2>1. TypeOK /\ Inv' /\ Checked(p) /\ pc[p] = "room"
    BY LockRoomKeepsInv DEF RefInv, Inv, LockRoom
  <2>2. Lock(p, RoomLock, next) /\ UNCHANGED <<req, seen>> /\ UNCHANGED rows
    BY <1>2 DEF LockRoom, RoomLock
  <2>3. pc'[p] = next /\ req'[p] = req[p] /\ req[p].kind \in LocksRoom
    BY <2>1, <2>2 DEF TypeOK, Lock, Checked, InOrder
  <2>4. Entered(p)'
    BY <2>3 DEF Entered, JoinGuard, PartiesGuard, EntitledGuard, Undoing, LocksRoom
  <2>5. QED
    BY <2>1, <2>2, <2>4, SilentStepKeepsRefInv DEF TypeOK, Lock
<1>3. QED
  BY <1>1, <1>2

\* Locking a transfer, by someone entitled to undo it.
LEMMA LockTransferKeepsRefInv ==
    ASSUME RefInv, NEW p \in Proc, LockTransfer(p)
    PROVE  RefInv'
<1>1. CASE Refuse(p)
  BY <1>1, RefuseKeepsRefInv
<1>2. CASE ~Refuse(p)
  <2> DEFINE i == req[p].id
  <2>1. TypeOK /\ Inv' /\ Checked(p) /\ Entered(p) /\ pc[p] = "transfer"
    BY LockTransferKeepsInv DEF RefInv, Inv, LockTransfer
  <2>2. /\ Entitled(p, transfers[i])
        /\ Lock(p, ForUpdate(TransferRow(i)), "member")
        /\ UNCHANGED <<req, seen>> /\ UNCHANGED rows
    BY <1>2 DEF LockTransfer
  <2>3. /\ pc'[p] = "member" /\ req'[p] = req[p] /\ req[p].kind \in Undoing
        /\ transfers' = transfers /\ owners' = owners
    BY <2>1, <2>2 DEF TypeOK, Lock, Checked, InOrder, rows
  <2>4. Entered(p)'
    BY <2>1, <2>2, <2>3 DEF Entered, JoinGuard, PartiesGuard, EntitledGuard, Entitled,
                            Undoing
  <2>5. QED
    BY <2>1, <2>2, <2>4, SilentStepKeepsRefInv DEF TypeOK, Lock
<1>3. QED
  BY <1>1, <1>2

\* Locking the first member row.
LEMMA LockMemberKeepsRefInv ==
    ASSUME RefInv, NEW p \in Proc, LockMember(p)
    PROVE  RefInv'
<1> DEFINE u == Subject(p)
<1>1. TypeOK /\ Inv' /\ Checked(p) /\ Entered(p) /\ pc[p] = "member"
  BY LockMemberKeepsInv DEF RefInv, Inv, LockMember
<1>2. CASE Refuse(p)
  BY <1>2, RefuseKeepsRefInv
<1>3. CASE /\ Matches(p, u) /\ Lock(p, ForUpdate(MemberRow(u)), AfterMember(p))
           /\ seen' = [seen EXCEPT ![p].score = score[u]] /\ req' = req /\ UNCHANGED rows
  <2>1. /\ pc'[p] = AfterMember(p) /\ seen'[p].score = score[u]
        /\ UNCHANGED <<status, owners, joined, present, score, transfers>>
    BY <1>1, <1>3 DEF TypeOK, Lock, rows
  <2>2. JoinGuard(p)'
    BY <1>3, <2>1, SubjectCases DEF JoinGuard, Undoing
  <2>3. PartiesGuard(p)'
    BY <1>3, <2>1, SubjectCases, AfterMemberCases DEF PartiesGuard, Matches, Undoing
  <2>4. EntitledGuard(p)'
    BY <1>1, <1>3, <2>1, AfterMemberCases DEF Entered, EntitledGuard
  <2>5. QED
    BY <1>1, <1>3, <2>2, <2>3, <2>4, SilentStepKeepsRefInv DEF Entered, TypeOK, Lock
<1>4. CASE /\ ~Matches(p, u) /\ req[p].kind = "join" /\ pc' = [pc EXCEPT ![p] = "commit"]
           /\ UNCHANGED <<held, req, seen>> /\ UNCHANGED rows
  <2>1. ~HasRow(req[p].user)
    BY <1>4, SubjectCases DEF Matches, Undoing
  <2>2. Entered(p)'
    BY <1>4, <2>1 DEF Entered, JoinGuard, PartiesGuard, EntitledGuard, HasRow, Undoing,
                      rows
  <2>3. QED
    BY <1>1, <1>4, <2>2, SilentStepKeepsRefInv DEF TypeOK
<1>5. QED
  BY <1>2, <1>3, <1>4 DEF LockMember

\* Locking the second member row.
LEMMA LockOtherKeepsRefInv == ASSUME RefInv, NEW p \in Proc, LockOther(p) PROVE RefInv'
<1>1. CASE Refuse(p)
  BY <1>1, RefuseKeepsRefInv
<1>2. CASE ~Refuse(p)
  <2> DEFINE u == Other(p)
             next == IF req[p].kind = "transfer" THEN "commit" ELSE "key"
  <2>1. TypeOK /\ Inv' /\ Checked(p) /\ Entered(p) /\ pc[p] = "other"
    BY LockOtherKeepsInv DEF RefInv, Inv, LockOther
  <2>2. /\ Matches(p, u) /\ Lock(p, ForUpdate(MemberRow(u)), next)
        /\ UNCHANGED <<req, seen>> /\ UNCHANGED rows
    BY <1>2 DEF LockOther
  <2>3. /\ pc'[p] = next /\ req'[p] = req[p]
        /\ UNCHANGED <<owners, present, transfers>>
    BY <2>1, <2>2 DEF TypeOK, Lock, rows
  <2>4. JoinGuard(p)'
    BY <2>3 DEF JoinGuard
  <2>5. PartiesGuard(p)'
    BY <2>1, <2>2, <2>3 DEF Entered, PartiesGuard, Matches, Other, Undoing
  <2>6. EntitledGuard(p)'
    BY <2>1, <2>3 DEF Entered, EntitledGuard
  <2>7. QED
    BY <2>1, <2>2, <2>4, <2>5, <2>6, SilentStepKeepsRefInv DEF Entered, TypeOK, Lock
<1>3. QED
  BY <1>1, <1>2

\* Reading the scores for the record.
LEMMA ReadScoresKeepsRefInv ==
    ASSUME RefInv, NEW p \in Proc, ReadScores(p)
    PROVE  RefInv'
<1>1. TypeOK /\ Inv' /\ Checked(p)
  BY ReadScoresKeepsInv DEF RefInv, Inv
<1>2. /\ pc[p] = "settle" /\ pc' = [pc EXCEPT ![p] = "commit"]
      /\ seen' = [seen EXCEPT ![p].final = [score EXCEPT ![Subject(p)] = seen[p].score]]
      /\ UNCHANGED <<held, req>> /\ UNCHANGED rows
  BY DEF ReadScores
<1>3. req[p].kind \in Leaving
  BY <1>1, <1>2 DEF Checked, InOrder
<1>4. Entered(p)'
  BY <1>2, <1>3 DEF Entered, JoinGuard, PartiesGuard, EntitledGuard, Undoing, Leaving
<1>5. QED
  BY <1>1, <1>2, <1>4, SilentStepKeepsRefInv DEF TypeOK

\* The foreign key check of a message.
LEMMA ShareRoomKeyKeepsRefInv ==
    ASSUME RefInv, NEW p \in Proc, ShareRoomKey(p)
    PROVE  RefInv'
<1>1. TypeOK /\ Inv' /\ Checked(p) /\ Entered(p)
  BY ShareRoomKeyKeepsInv DEF RefInv, Inv
<1>2. /\ pc[p] = "key" /\ Lock(p, KeyShare(RoomRow), "commit")
      /\ UNCHANGED <<req, seen>> /\ UNCHANGED rows
  BY DEF ShareRoomKey
<1>3. /\ pc'[p] = "commit" /\ req'[p] = req[p] /\ UNCHANGED <<owners, transfers>>
      /\ req[p].kind \in Undoing \cup {"chat"}
  BY <1>1, <1>2 DEF TypeOK, Lock, Checked, InOrder, rows
<1>4. Entered(p)'
  BY <1>1, <1>2, <1>3 DEF Entered, JoinGuard, PartiesGuard, EntitledGuard, Undoing
<1>5. QED
  BY <1>1, <1>2, <1>4, SilentStepKeepsRefInv DEF TypeOK, Lock
-----------------------------------------------------------------------------
(* The commits, each of them one step of Room.                             *)

\* A commit that changes no transfer and no owner and, without the lock of the
\* rooms row, adds no member.
LEMMA KeptSimply ==
    ASSUME RefInv, NEW p \in Proc, transfers' = transfers, owners \subseteq owners',
           joined' = joined \/ RoomLock \in held[p]
    PROVE  Kept(p)
BY DEF Kept

\* The commit of a toggle.
LEMMA CommitToggleRefines ==
    ASSUME RefInv, NEW p \in Proc, CommitToggle(p)
    PROVE  RefInv' /\ Abstract!Next
<1>1. /\ pc[p] = "commit" /\ req[p].kind \in {"chatOn", "chatOff"}
      /\ chatEnabled' = (req[p].kind = "chatOn") /\ Finish(p)
      /\ UNCHANGED <<status, owner, owners, joined, present, score, transfers,
                     chats, recorded, finalScore>>
  BY DEF CommitToggle
<1>2. Inv' /\ Guarded(p) /\ Checked(p)
  BY CommitToggleKeepsInv DEF RefInv, Inv
<1>3. Kept(p) /\ History'
  BY <1>1, KeptSimply DEF RefInv, History, HasRow
<1>4. status = "active"
  BY <1>1, <1>2 DEF Checked, RoomGuard, LocksRoom
<1>5. PICK b \in BOOLEAN : chatEnabled' = b
  BY <1>1
<1>6. Abstract!SetChat(b)
  BY <1>1, <1>4, <1>5 DEF Abstract!SetChat
<1>7. QED
  BY <1>1, <1>2, <1>3, <1>6, CommitKeepsRefInv DEF Abstract!Next

\* The commit of a message.
LEMMA CommitChatRefines ==
    ASSUME RefInv, NEW p \in Proc, CommitChat(p)
    PROVE  RefInv' /\ Abstract!Next
<1>1. /\ pc[p] = "commit" /\ req[p].kind = "chat"
      /\ chats' = [chats EXCEPT ![req[p].user] = @ + 1] /\ Finish(p)
      /\ UNCHANGED <<status, owner, owners, chatEnabled, joined, present, score,
                     transfers, recorded, finalScore>>
  BY DEF CommitChat
<1>2. /\ Inv' /\ Guarded(p) /\ Checked(p) /\ TypeOK /\ MembersHaveRows
      /\ OwnerIsPresent
  BY CommitChatKeepsInv DEF RefInv, Inv
<1>3. Kept(p) /\ History'
  BY <1>1, KeptSimply DEF RefInv, History, HasRow
<1>4. req[p].user \in present
  BY <1>1, <1>2 DEF Checked, ChatGuard
<1>5. req[p].user \in User /\ status = "active"
  BY <1>2, <1>4 DEF TypeOK, MembersHaveRows, OwnerIsPresent
<1>6. Abstract!Chat(req[p].user)
  BY <1>1, <1>4, <1>5 DEF Abstract!Chat
<1>7. QED
  BY <1>1, <1>2, <1>3, <1>5, <1>6, CommitKeepsRefInv DEF Abstract!Next

\* The commit of a join: the score it writes is the one that is there.
LEMMA CommitJoinRefines ==
    ASSUME RefInv, NEW p \in Proc, CommitJoin(p)
    PROVE  RefInv' /\ Abstract!Next
<1>1. /\ Inv' /\ Guarded(p) /\ Checked(p) /\ TypeOK /\ History /\ Entered(p)
  BY CommitJoinKeepsInv DEF RefInv, Inv
<1>2. PICK u \in User : u = req[p].user
  BY <1>1 DEF Checked, RequestKept, CommitJoin
<1>3. /\ pc[p] = "commit" /\ req[p].kind = "join"
      /\ present' = present \cup {u}
      /\ joined' = IF HasRow(u) THEN joined ELSE Append(joined, u)
      /\ score' = [score EXCEPT ![u] = IF HasRow(u) THEN seen[p].score ELSE 0]
      /\ Finish(p)
      /\ UNCHANGED <<status, owner, owners, chatEnabled, transfers, chats,
                     recorded, finalScore>>
  BY <1>2 DEF CommitJoin
<1>4. RoomLock \in held[p] /\ status = "active"
  BY <1>1, <1>3 DEF Checked, RoomGuard, LocksRoom
<1>5. (IF HasRow(u) THEN seen[p].score ELSE 0) = score[u]
  BY <1>1, <1>2, <1>3 DEF Entered, JoinGuard, History
<1>6. score' = score
  BY <1>1, <1>3, <1>5 DEF TypeOK
<1>7. \A v : HasRow(v) => HasRow(v)'
  <2>1. CASE HasRow(u)
    BY <1>3, <2>1 DEF HasRow
  <2>2. CASE ~HasRow(u)
    BY <1>1, <1>3, <2>2, AppendMember
  <2>3. QED
    BY <2>1, <2>2
<1>8. Kept(p)
  BY <1>3, <1>4, KeptSimply
<1>9. History'
  BY <1>1, <1>3, <1>4, <1>6, <1>7 DEF History
<1>10. u \in Abstract!Rows <=> HasRow(u)
  BY DEF Abstract!Rows, HasRow
<1>11. Abstract!Join(u)
  BY <1>3, <1>4, <1>6, <1>10 DEF Abstract!Join
<1>12. QED
  BY <1>1, <1>3, <1>8, <1>9, <1>11, CommitKeepsRefInv DEF Abstract!Next

\* The commit of a leave or a kick, the settlement of an emptied room included.
LEMMA CommitLeaveRefines ==
    ASSUME RefInv, NEW p \in Proc, CommitLeave(p)
    PROVE  RefInv' /\ Abstract!Next
<1>1. /\ Inv' /\ Guarded(p) /\ Checked(p) /\ TypeOK /\ History /\ MembersHaveRows
      /\ OwnerIsPresent
  BY CommitLeaveKeepsInv DEF RefInv, Inv
<1>2. /\ pc[p] = "commit" /\ req[p].kind \in Leaving
      /\ HandOver(p) /\ SettleRoom(p) /\ Finish(p)
      /\ UNCHANGED <<chatEnabled, joined, transfers, chats>>
  BY DEF CommitLeave, Leaving
<1>3. /\ status = "active" /\ owner \in present /\ owner \in owners
      /\ req[p].kind = "kick" => req[p].user = owner
  BY <1>1, <1>2 DEF Checked, RoomGuard, Leaving, LocksRoom, OwnerIsPresent, History
<1>4. PICK u \in User : u = Subject(p)
  BY <1>1, <1>2 DEF Checked, LeaveGuard, TypeOK
<1>5. /\ u \in present /\ seen[p].score = score[u]
      /\ present \subseteq {u} => seen[p].final = score
  BY <1>1, <1>2, <1>4 DEF Checked, LeaveGuard
<1>6. present' = present \ {u} /\ score' = score
  BY <1>1, <1>4, <1>5 DEF CommitLeave, TypeOK
<1>7. owners \subseteq owners' /\ owner' \in owners'
  BY <1>2 DEF HandOver
<1>8. Kept(p)
  BY <1>2, <1>7, KeptSimply
<1>9. status' # "none"
  BY <1>2, <1>3 DEF SettleRoom
<1>10. History'
  BY <1>1, <1>2, <1>3, <1>6, <1>7, <1>9 DEF History, HasRow
<1>11. Abstract!Rows = {joined[i] : i \in DOMAIN joined}
  BY DEF Abstract!Rows
<1>12. ASSUME req[p].kind = "kick" PROVE Abstract!Next
  <2>1. u = req[p].peer /\ u # owner
    BY <1>1, <1>2, <1>3, <1>4, <1>12, SubjectCases DEF Checked, RequestKept
  <2>2. ~(present \subseteq {u})
    BY <1>3, <2>1
  <2>3. UNCHANGED <<status, recorded, finalScore, owner, owners>>
    BY <1>2, <1>3, <1>4, <1>12, <2>2 DEF SettleRoom, HandOver
  <2>4. Abstract!Kick(u)
    BY <1>2, <1>3, <1>5, <1>6, <2>1, <2>3 DEF Abstract!Kick
  <2>5. QED
    BY <2>4 DEF Abstract!Next
<1>13. ASSUME req[p].kind = "leave" /\ present \subseteq {u} PROVE Abstract!Next
  <2>1. present = {u}
    BY <1>5, <1>13
  <2>2. status' = "settled" /\ recorded' = Abstract!Rows /\ finalScore' = score
    BY <1>2, <1>4, <1>5, <1>11, <1>13 DEF SettleRoom
  <2>3. ~\E v \in User : Longest(v, present \ {u})
    BY <2>1 DEF Longest
  <2>4. owner' = owner /\ owners' = owners
    BY <1>2, <1>3, <1>4, <2>3 DEF HandOver
  <2>5. Abstract!Settle
    BY <2>2, <2>4 DEF Abstract!Settle
  <2>6. Abstract!Leave(u)
    BY <1>2, <1>3, <1>5, <1>6, <2>1, <2>5 DEF Abstract!Leave
  <2>7. QED
    BY <2>6 DEF Abstract!Next
<1>14. ASSUME req[p].kind = "leave" /\ ~(present \subseteq {u}) PROVE Abstract!Next
  <2>1. present # {u} /\ UNCHANGED <<status, recorded, finalScore>>
    BY <1>2, <1>4, <1>14 DEF SettleRoom
  <2>2. \E v \in User : Longest(v, present \ {u})
    <3>1. present \ {u} \in SUBSET present /\ present \ {u} # {}
      BY <1>14
    <3>2. QED
      BY <1>1, <3>1, SuccessorExists
  <2>3. \A v : Longest(v, present \ {u}) => Abstract!First(v, present \ {u})
    BY DEF Longest, Abstract!First
  <2>4. /\ IF owner = u THEN \E v \in User : Abstract!First(v, present') /\ owner' = v
                        ELSE owner' = owner
        /\ owners' = owners \cup {owner'}
    BY <1>2, <1>4, <1>6, <1>14, <2>2, <2>3 DEF HandOver
  <2>5. Abstract!Leave(u)
    BY <1>2, <1>3, <1>5, <1>6, <2>1, <2>4 DEF Abstract!Leave
  <2>6. QED
    BY <2>5 DEF Abstract!Next
<1>15. Abstract!Next
  BY <1>2, <1>12, <1>13, <1>14 DEF Leaving
<1>16. QED
  BY <1>1, <1>2, <1>8, <1>10, <1>15, CommitKeepsRefInv

\* Moving points between two members as Room does.
LEMMA MoveRefines ==
    ASSUME RefInv, NEW p \in Proc, NEW u \in User, NEW v \in User, NEW a \in Int,
           u # v, HasRow(u), HasRow(v), Move(p, u, v, a)
    PROVE  /\ Abstract!InRange(score[u] - a) /\ Abstract!InRange(score[v] + a)
           /\ score' = Abstract!Moved(u, v, a)
           /\ score'[u] = score[u] - a /\ score'[v] = score[v] + a
           /\ \A w \in User : ~HasRow(w) => score'[w] = 0
           /\ Finish(p)
           /\ UNCHANGED <<status, owner, owners, chatEnabled, joined, present, chats,
                          recorded, finalScore>>
<1>1. /\ score \in [User -> Int] /\ \A w \in User : ~HasRow(w) => score[w] = 0
  BY DEF RefInv, Inv, TypeOK, History
<1>2. /\ Fits(score[u] - a) /\ Fits(score[v] + a)
      /\ score' = [score EXCEPT ![u] = @ - a, ![v] = @ + a] /\ Finish(p)
      /\ UNCHANGED <<status, owner, owners, chatEnabled, joined, present, chats,
                     recorded, finalScore>>
  BY DEF Move
<1>3. Abstract!InRange(score[u] - a) /\ Abstract!InRange(score[v] + a)
  BY <1>2 DEF Fits, Abstract!InRange
<1>4. score' = Abstract!Moved(u, v, a)
  BY <1>2 DEF Abstract!Moved
<1>5. /\ score'[u] = score[u] - a /\ score'[v] = score[v] + a
      /\ \A w \in User : w # u /\ w # v => score'[w] = score[w]
  BY <1>1, <1>2
<1>6. \A w \in User : ~HasRow(w) => score'[w] = 0
  BY <1>1, <1>5
<1>7. QED
  BY <1>2, <1>3, <1>4, <1>5, <1>6

\* The commit of a transfer.
LEMMA CommitTransferRefines ==
    ASSUME RefInv, NEW p \in Proc, CommitTransfer(p)
    PROVE  RefInv' /\ (Abstract!Next \/ UNCHANGED rows)
<1> DEFINE r == req[p]
           t == [from |-> r.user, to |-> r.peer, amount |-> r.amount,
                 status |-> "pending", by |-> NoUser]
<1>1. CASE Refuse(p)
  BY <1>1, RefuseKeepsRefInv DEF Refuse
<1>2. CASE ~Refuse(p)
  <2>1. /\ Inv' /\ Guarded(p) /\ Checked(p) /\ TypeOK /\ History /\ MembersHaveRows
        /\ Entered(p)
    BY CommitTransferKeepsInv DEF RefInv, Inv
  <2>2. /\ pc[p] = "commit" /\ r.kind = "transfer"
        /\ Move(p, r.user, r.peer, r.amount) /\ transfers' = Append(transfers, t)
    BY <1>2 DEF CommitTransfer, OutOfRange
  <2>3. /\ r.user \in User /\ r.peer \in User /\ r.peer # r.user
        /\ r.amount \in Amounts /\ r.amount \in Int
    BY <2>1, <2>2, ConstantsAssumption DEF Checked, RequestKept
  <2>4. status = "active"
    BY <2>1, <2>2 DEF Checked, RoomGuard, LocksRoom
  <2>5. r.user \in present /\ r.peer \in present
    BY <2>1, <2>2 DEF Entered, PartiesGuard
  <2>6. HasRow(r.user) /\ HasRow(r.peer)
    BY <2>1, <2>5 DEF MembersHaveRows
  <2>7. /\ Abstract!InRange(score[r.user] - r.amount)
        /\ Abstract!InRange(score[r.peer] + r.amount)
        /\ score' = Abstract!Moved(r.user, r.peer, r.amount)
        /\ \A w \in User : ~HasRow(w) => score'[w] = 0
        /\ Finish(p)
        /\ UNCHANGED <<status, owner, owners, chatEnabled, joined, present, chats,
                       recorded, finalScore>>
    BY <2>2, <2>3, <2>6, MoveRefines
  <2>8. Abstract!Transfer(r.user, r.peer, r.amount)
    BY <2>2, <2>3, <2>4, <2>5, <2>7 DEF Abstract!Transfer
  <2>9. t.from = r.user /\ t.to = r.peer /\ t \in Transfers
    BY <2>3 DEF Transfers
  <2> HIDE DEF t
  <2>10. /\ DOMAIN transfers = 1 .. Len(transfers) /\ Len(transfers) \in Nat
         /\ DOMAIN transfers' = 1 .. Len(transfers) + 1
         /\ transfers'[Len(transfers) + 1] = t
         /\ \A i \in DOMAIN transfers : transfers'[i] = transfers[i]
    BY <2>1, <2>2, <2>9 DEF TypeOK
  <2>11. Kept(p)
    BY <2>7, <2>10 DEF Kept
  <2>12. History'
    <3>1. \A i \in DOMAIN transfers' :
             transfers'[i].from # transfers'[i].to
             /\ HasRow(transfers'[i].from) /\ HasRow(transfers'[i].to)
      BY <2>1, <2>3, <2>6, <2>9, <2>10 DEF History
    <3>2. QED
      BY <2>1, <2>7, <3>1 DEF History, HasRow
  <2>13. QED
    BY <2>1, <2>3, <2>7, <2>8, <2>11, <2>12, CommitKeepsRefInv DEF Abstract!Next
<1>3. QED
  BY <1>1, <1>2

\* The commit of a rollback or a rejection.
LEMMA CommitUndoRefines ==
    ASSUME RefInv, NEW p \in Proc, CommitUndo(p)
    PROVE  RefInv' /\ (Abstract!Next \/ UNCHANGED rows)
<1>1. CASE Refuse(p)
  BY <1>1, RefuseKeepsRefInv DEF Refuse
<1>2. CASE ~Refuse(p)
  <2>1. /\ Inv' /\ Guarded(p) /\ Checked(p) /\ TypeOK /\ History /\ Entered(p)
    BY CommitUndoKeepsInv DEF RefInv, Inv
  <2>2. pc[p] = "commit" /\ req[p].kind \in Undoing
    BY DEF CommitUndo
  <2>3. PICK i \in DOMAIN transfers, u \in User :
           /\ i = req[p].id /\ u = req[p].user /\ transfers[i].status = "pending"
    BY <2>1, <2>2 DEF Checked, RequestKept, UndoGuard
  <2>4. PICK how \in {"rolled_back", "rejected"} : how = Undone(req[p].kind)
    BY DEF Undone
  <2>5. PICK t \in Transfers : t = transfers[i]
    BY <2>1, <2>3 DEF TypeOK
  <2>6. /\ Move(p, t.to, t.from, t.amount)
        /\ transfers' = [transfers EXCEPT ![i] = Resolved(@, how, u)]
    BY <1>2, <2>3, <2>4, <2>5 DEF CommitUndo, OutOfRange
  <2>7. t.to \in User /\ t.from \in User /\ t.amount \in Int
    BY ConstantsAssumption DEF Transfers
  <2>8. t.from # t.to /\ HasRow(t.from) /\ HasRow(t.to)
    BY <2>1, <2>3, <2>5 DEF History
  <2>9. /\ Abstract!InRange(score[t.to] - t.amount)
        /\ Abstract!InRange(score[t.from] + t.amount)
        /\ score' = Abstract!Moved(t.to, t.from, t.amount)
        /\ score'[t.to] = score[t.to] - t.amount
        /\ score'[t.from] = score[t.from] + t.amount
        /\ \A w \in User : ~HasRow(w) => score'[w] = 0
        /\ Finish(p)
        /\ UNCHANGED <<status, owner, owners, chatEnabled, joined, present, chats,
                       recorded, finalScore>>
    BY <2>6, <2>7, <2>8, MoveRefines
  <2>10. u \in owners \cup {IF how = "rolled_back" THEN t.from ELSE t.to}
    <3>1. CASE u \in owners
      BY <3>1
    <3>2. CASE req[p].kind = "rollback" /\ u = t.from
      BY <2>4, <3>2 DEF Undone
    <3>3. CASE req[p].kind = "reject" /\ u = t.to
      BY <2>4, <3>3 DEF Undone
    <3>4. QED
      BY <2>1, <2>2, <2>3, <2>5, <3>1, <3>2, <3>3 DEF Entered, EntitledGuard
  <2>11. i \in Pending(transfers)
    BY <2>3 DEF Pending
  <2>12. Abstract!Pending(transfers) = Pending(transfers)
    BY DEF Pending, Abstract!Pending
  <2>13. Abstract!Resolved(transfers[i], how, u) = Resolved(transfers[i], how, u)
    BY DEF Resolved, Abstract!Resolved
  <2>14. Abstract!Resolve(i, u, how)
    BY <2>5, <2>6, <2>9, <2>10, <2>11, <2>12, <2>13 DEF Abstract!Resolve, Abstract!InRange
  <2>15. /\ DOMAIN transfers' = DOMAIN transfers
         /\ \A j \in DOMAIN transfers :
               /\ transfers'[j].from = transfers[j].from
               /\ transfers'[j].to = transfers[j].to
    BY <2>1, <2>6 DEF TypeOK, Resolved
  <2>16. Kept(p)
    BY <2>9, <2>15 DEF Kept
  <2>17. History'
    BY <2>1, <2>9, <2>15 DEF History, HasRow
  <2>18. QED
    BY <2>1, <2>9, <2>14, <2>16, <2>17, CommitKeepsRefInv DEF Abstract!Next
<1>3. QED
  BY <1>1, <1>2

\* The creation of the room.
LEMMA CreateRoomRefines ==
    ASSUME RefInv, NEW u \in User, CreateRoom(u)
    PROVE  RefInv' /\ Abstract!Next
<1>1. /\ Inv' /\ TypeOK /\ History /\ MembersHaveRows
  BY CreateRoomKeepsInv DEF RefInv, Inv
<1>2. /\ status = "none" /\ status' = "active" /\ owner' = u
      /\ owners' = owners \cup {u} /\ joined' = Append(joined, u)
      /\ present' = present \cup {u}
      /\ UNCHANGED <<chatEnabled, score, transfers, chats, recorded, finalScore>>
      /\ UNCHANGED <<held, pc, req, seen>>
  BY DEF CreateRoom, local
<1>3. joined = <<>> /\ owners = {} /\ present = {}
  BY <1>1, <1>2 DEF History, MembersHaveRows
<1>4. Abstract!Create(u)
  <2>1. joined' = <<u>>
    BY <1>2, <1>3
  <2>2. QED
    BY <1>2, <1>3, <2>1 DEF Abstract!Create
<1>5. \A v : HasRow(v)' <=> HasRow(v) \/ v = u
  BY <1>1, <1>2, AppendMember
<1>6. History'
  BY <1>1, <1>2, <1>5 DEF History
<1>7. ASSUME NEW p \in Proc PROVE Entered(p)'
  <2>1. Checked(p) /\ Entered(p)
    BY DEF RefInv, Inv
  <2>2. ~(pc[p] = "commit" /\ req[p].kind = "join")
    BY <1>2, <2>1 DEF Checked, RoomGuard, LocksRoom
  <2>3. JoinGuard(p)'
    BY <1>2, <2>2 DEF JoinGuard
  <2>4. PartiesGuard(p)' /\ EntitledGuard(p)'
    BY <1>2, <2>1 DEF Entered, PartiesGuard, EntitledGuard
  <2>5. QED
    BY <2>3, <2>4 DEF Entered
<1>8. QED
  BY <1>1, <1>4, <1>6, <1>7 DEF RefInv, Abstract!Next
-----------------------------------------------------------------------------
(* The theorem.                                                            *)

\* Before the room exists nothing has happened.
LEMMA InitRefines == Init => RefInv /\ Abstract!Init
<1> SUFFICES ASSUME Init PROVE RefInv /\ Abstract!Init
  OBVIOUS
<1>1. Inv
  BY InitInv
<1>2. History
  BY DEF Init, History
<1>3. \A p \in Proc : Entered(p)
  BY DEF Init, Entered, JoinGuard, PartiesGuard, EntitledGuard
<1>4. Abstract!Init
  BY DEF Init, Abstract!Init
<1>5. QED
  BY <1>1, <1>2, <1>3, <1>4 DEF RefInv

\* Every step is a step of Room or changes no row.
LEMMA NextRefines ==
    RefInv /\ [Next]_vars => RefInv' /\ [Abstract!Next]_(Abstract!vars)
<1> SUFFICES ASSUME RefInv, [Next]_vars
             PROVE  RefInv' /\ (Abstract!Next \/ UNCHANGED rows)
  BY DEF rows, Abstract!vars
<1>1. CASE UNCHANGED vars
  <2>1. UNCHANGED <<status, owner, owners, chatEnabled, joined, present, score,
                    transfers, chats, recorded, finalScore, held, pc, req, seen>>
    BY <1>1 DEF vars
  <2>2. Inv'
    BY NextKeepsInv DEF RefInv
  <2>3. History' /\ UNCHANGED rows
    BY <2>1 DEF RefInv, History, HasRow, rows
  <2>4. ASSUME NEW p \in Proc PROVE Entered(p)'
    BY <2>1 DEF RefInv, Entered, JoinGuard, PartiesGuard, EntitledGuard, HasRow
  <2>5. QED
    BY <2>2, <2>3, <2>4 DEF RefInv
<1>2. ASSUME NEW u \in User, CreateRoom(u) PROVE RefInv' /\ Abstract!Next
  BY <1>2, CreateRoomRefines
<1>3. ASSUME NEW p \in Proc, NEW r \in Inputs, Start(p, r)
      PROVE  RefInv' /\ UNCHANGED rows
  BY <1>3, StartKeepsRefInv DEF Start
<1>4. ASSUME NEW p \in Proc, Refuse(p) PROVE RefInv' /\ UNCHANGED rows
  BY <1>4, RefuseKeepsRefInv DEF Refuse
<1>5. ASSUME NEW p \in Proc,
             ReadRoom(p) \/ LockRoom(p) \/ LockTransfer(p) \/ LockMember(p)
                \/ LockOther(p) \/ ReadScores(p) \/ ShareRoomKey(p)
      PROVE  RefInv' /\ UNCHANGED rows
  <2>1. RefInv'
    BY <1>5, ReadRoomKeepsRefInv, LockRoomKeepsRefInv, LockTransferKeepsRefInv,
       LockMemberKeepsRefInv, LockOtherKeepsRefInv, ReadScoresKeepsRefInv,
       ShareRoomKeyKeepsRefInv
  <2>2. UNCHANGED rows
    BY <1>4, <1>5 DEF ReadRoom, LockRoom, LockTransfer, LockMember, LockOther,
                      ReadScores, ShareRoomKey
  <2>3. QED
    BY <2>1, <2>2
<1>6. ASSUME NEW p \in Proc,
             CommitJoin(p) \/ CommitLeave(p) \/ CommitToggle(p)
                \/ CommitTransfer(p) \/ CommitUndo(p) \/ CommitChat(p)
      PROVE  RefInv' /\ (Abstract!Next \/ UNCHANGED rows)
  BY <1>6, CommitJoinRefines, CommitLeaveRefines, CommitToggleRefines,
     CommitTransferRefines, CommitUndoRefines, CommitChatRefines
<1>7. QED
  BY <1>1, <1>2, <1>3, <1>4, <1>5, <1>6 DEF Next, Advance, Cancel, AbortVictim

\* Whatever the interleaving of their statements, the transactions of service.go
\* do what the atomic operations of Room do: every commit is one of them, with
\* its guards and its effect on all columns of the room at once.
THEOREM RoomImplemented == Spec => RoomSpec
<1>1. Spec => Abstract!Init /\ [][Abstract!Next]_(Abstract!vars)
  BY InitRefines, NextRefines, PTL DEF Spec
<1>2. QED
  BY <1>1 DEF RoomSpec, Abstract!Spec
-----------------------------------------------------------------------------
(* The running balance.                                                    *)

\* What the i-th transfer adds to u's score when exactly those in P count.
Counted(ts, P, u, i) == IF i \in P THEN Effect(ts[i], u) ELSE 0

\* f[i] is u's score after the first i transfers, as far as the n-th.
IsBalance(f, n, ts, P, u) ==
    /\ f \in [0 .. n -> Int]
    /\ f[0] = 0
    /\ \A i \in 1 .. n : f[i] = f[i - 1] + Counted(ts, P, u, i)

\* Every amount is a number.
Summable(ts, u) ==
    /\ Len(ts) \in Nat
    /\ DOMAIN ts = 1 .. Len(ts)
    /\ \A i \in DOMAIN ts : Effect(ts[i], u) \in Int

\* There is a running balance.
LEMMA BalanceExists ==
    ASSUME NEW ts, NEW P, NEW u, Summable(ts, u)
    PROVE  \E f : IsBalance(f, Len(ts), ts, P, u)
<1> DEFINE n == Len(ts)
           without == {k \in 0 .. n : ~ \E f : IsBalance(f, k, ts, P, u)}
<1>1. n \in Nat /\ \A i \in 1 .. n : Counted(ts, P, u, i) \in Int
  BY DEF Summable, Counted
<1> HIDE DEF n
<1>2. SUFFICES ASSUME without # {} PROVE FALSE
  BY <1>1 DEF n
<1>3. PICK k \in without : \A j \in without : k <= j
  <2>1. without \in SUBSET Nat
    BY <1>1
  <2> HIDE DEF without
  <2>2. QED
    BY <1>2, <2>1, LeastIndex
<1>4. CASE k = 0
  <2>1. IsBalance([i \in 0 .. 0 |-> 0], 0, ts, P, u)
    BY DEF IsBalance
  <2>2. QED
    BY <1>3, <1>4, <2>1
<1>5. CASE k # 0
  <2>1. k \in 1 .. n /\ k - 1 \in 0 .. n /\ ~ (k <= k - 1)
    BY <1>1, <1>3, <1>5
  <2>2. PICK f : IsBalance(f, k - 1, ts, P, u)
    BY <1>3, <2>1
  <2> DEFINE g == [i \in 0 .. k |-> IF i = k THEN f[k - 1] + Counted(ts, P, u, k) ELSE f[i]]
  <2>3. f \in [0 .. k - 1 -> Int] /\ f[0] = 0
        /\ \A i \in 1 .. k - 1 : f[i] = f[i - 1] + Counted(ts, P, u, i)
    BY <2>2 DEF IsBalance
  <2>4. g \in [0 .. k -> Int] /\ g[0] = 0
    BY <1>1, <2>1, <2>3
  <2>5. ASSUME NEW i \in 1 .. k PROVE g[i] = g[i - 1] + Counted(ts, P, u, i)
    <3>1. i \in 0 .. k /\ i - 1 \in 0 .. k /\ i - 1 # k
      BY <1>1, <2>1
    <3>2. g[i - 1] = f[i - 1]
      BY <3>1
    <3>3. CASE i = k
      BY <3>1, <3>2, <3>3
    <3>4. CASE i # k
      <4>1. g[i] = f[i]
        BY <3>1, <3>4
      <4>2. i \in 1 .. k - 1
        BY <1>1, <2>1, <3>4
      <4>3. QED
        BY <2>3, <3>2, <4>1, <4>2
    <3>5. QED
      BY <3>3, <3>4
  <2>6. IsBalance(g, k, ts, P, u)
    BY <2>4, <2>5 DEF IsBalance
  <2>7. QED
    BY <1>3, <2>6
<1>6. QED
  BY <1>4, <1>5

\* There is only one.
LEMMA BalanceIsUnique ==
    ASSUME NEW ts, NEW P, NEW u, NEW n \in Nat, NEW f, NEW g,
           IsBalance(f, n, ts, P, u),
           g = [i \in 0 .. n |-> IF i = 0 THEN 0 ELSE g[i - 1] + Counted(ts, P, u, i)]
    PROVE  f[n] = g[n]
<1> DEFINE differ == {k \in 0 .. n : f[k] # g[k]}
<1>1. SUFFICES ASSUME differ # {} PROVE FALSE
  OBVIOUS
<1>2. PICK k \in differ : \A j \in differ : k <= j
  <2>1. differ \in SUBSET Nat
    OBVIOUS
  <2> HIDE DEF differ
  <2>2. QED
    BY <1>1, <2>1, LeastIndex
<1>3. k # 0
  BY DEF IsBalance
<1>4. k \in 1 .. n /\ k - 1 \in 0 .. n /\ ~ (k <= k - 1)
  BY <1>2, <1>3
<1>5. f[k - 1] = g[k - 1]
  BY <1>2, <1>4
<1>6. f[k] = f[k - 1] + Counted(ts, P, u, k)
  BY <1>4 DEF IsBalance
<1>7. g[k] = g[k - 1] + Counted(ts, P, u, k)
  BY <1>3, <1>4
<1>8. QED
  BY <1>2, <1>5, <1>6, <1>7

\* Net is the last value of the running balance.
LEMMA NetIsBalance ==
    ASSUME NEW ts, NEW P, NEW u, Len(ts) \in Nat, NEW f, IsBalance(f, Len(ts), ts, P, u)
    PROVE  Net(ts, P, u) = f[Len(ts)]
<1> DEFINE n == Len(ts)
           Runs(g) == g = [i \in 0 .. n |->
                              IF i = 0 THEN 0
                              ELSE g[i - 1] + (IF i \in P THEN Effect(ts[i], u) ELSE 0)]
           h == CHOOSE g : Runs(g)
<1>1. \E g : Runs(g)
  <2>1. ASSUME NEW i \in 0 .. n
        PROVE  f[i] = IF i = 0 THEN 0
                      ELSE f[i - 1] + (IF i \in P THEN Effect(ts[i], u) ELSE 0)
    BY DEF IsBalance, Counted
  <2>2. Runs(f)
    BY <2>1 DEF IsBalance
  <2>3. QED
    BY <2>2
<1>2. Runs(h)
  <2> HIDE DEF Runs
  <2>1. QED
    BY <1>1
<1>3. Net(ts, P, u) = h[n]
  BY DEF Net
<1> HIDE DEF h
<1>4. h = [i \in 0 .. n |-> IF i = 0 THEN 0 ELSE h[i - 1] + Counted(ts, P, u, i)]
  BY <1>2 DEF Counted
<1>5. f[n] = h[n]
  BY <1>4, BalanceIsUnique
<1>6. QED
  BY <1>3, <1>5

\* Net is a number.
LEMMA NetIsNumber ==
    ASSUME NEW ts, NEW P, NEW u, Summable(ts, u)
    PROVE  Net(ts, P, u) \in Int
<1>1. PICK f : IsBalance(f, Len(ts), ts, P, u)
  BY BalanceExists
<1>2. Len(ts) \in Nat
  BY DEF Summable
<1>3. Net(ts, P, u) = f[Len(ts)]
  BY <1>1, <1>2, NetIsBalance
<1>4. QED
  BY <1>1, <1>2, <1>3 DEF IsBalance

\* A transfer at the end that counts adds its effect.
LEMMA NetOfAppend ==
    ASSUME NEW S, NEW ts \in Seq(S), NEW t \in S, NEW u, NEW P \in SUBSET DOMAIN ts,
           Summable(ts, u), Effect(t, u) \in Int
    PROVE  Net(Append(ts, t), P \cup {Len(ts) + 1}, u) = Net(ts, P, u) + Effect(t, u)
<1> DEFINE n == Len(ts)
           us == Append(ts, t)
           Q == P \cup {n + 1}
<1>1. n \in Nat /\ Len(us) = n + 1 /\ us[n + 1] = t /\ (\A i \in 1 .. n : us[i] = ts[i])
      /\ P \subseteq 1 .. n
  OBVIOUS
<1> HIDE DEF us, n
<1>2. PICK f : IsBalance(f, n, ts, P, u)
  BY BalanceExists DEF n
<1>3. f \in [0 .. n -> Int] /\ f[0] = 0
      /\ \A i \in 1 .. n : f[i] = f[i - 1] + Counted(ts, P, u, i)
  BY <1>2 DEF IsBalance
<1> DEFINE g == [i \in 0 .. n + 1 |-> IF i = n + 1 THEN f[n] + Effect(t, u) ELSE f[i]]
<1>4. g \in [0 .. n + 1 -> Int] /\ g[0] = 0
  BY <1>1, <1>3
<1>5. ASSUME NEW i \in 1 .. n + 1 PROVE g[i] = g[i - 1] + Counted(us, Q, u, i)
  <2>1. i \in 0 .. n + 1 /\ i - 1 \in 0 .. n + 1 /\ i - 1 # n + 1
    BY <1>1
  <2>2. g[i - 1] = f[i - 1]
    BY <2>1
  <2>3. CASE i = n + 1
    BY <1>1, <2>1, <2>2, <2>3 DEF Counted
  <2>4. CASE i # n + 1
    <3>1. g[i] = f[i] /\ i \in 1 .. n
      BY <1>1, <2>1, <2>4
    <3>2. Counted(us, Q, u, i) = Counted(ts, P, u, i)
      BY <1>1, <2>4, <3>1 DEF Counted
    <3>3. QED
      BY <1>3, <2>2, <3>1, <3>2
  <2>5. QED
    BY <2>3, <2>4
<1>6. IsBalance(g, Len(us), us, Q, u)
  BY <1>1, <1>4, <1>5 DEF IsBalance
<1>7. Net(us, Q, u) = g[n + 1]
  BY <1>1, <1>6, NetIsBalance
<1>8. Net(ts, P, u) = f[n]
  BY <1>1, <1>2, NetIsBalance DEF n
<1>9. QED
  BY <1>1, <1>7, <1>8 DEF us, n

\* A transfer that no longer counts takes its effect back, whatever else
\* changes in its row.
LEMMA NetWithout ==
    ASSUME NEW ts, NEW us, NEW u, NEW P \in SUBSET DOMAIN ts, NEW k \in P,
           Summable(ts, u), Len(us) = Len(ts),
           \A i \in DOMAIN ts : i # k => us[i] = ts[i]
    PROVE  Net(us, P \ {k}, u) = Net(ts, P, u) - Effect(ts[k], u)
<1> DEFINE n == Len(ts)
           Q == P \ {k}
           e == Effect(ts[k], u)
<1>1. n \in Nat /\ DOMAIN ts = 1 .. n /\ k \in 1 .. n /\ e \in Int
  BY DEF Summable
<1>2. PICK f : IsBalance(f, n, ts, P, u)
  BY BalanceExists
<1> HIDE DEF n, e
<1>3. f \in [0 .. n -> Int] /\ f[0] = 0
      /\ \A i \in 1 .. n : f[i] = f[i - 1] + Counted(ts, P, u, i)
  BY <1>2 DEF IsBalance
<1> DEFINE g == [i \in 0 .. n |-> IF i < k THEN f[i] ELSE f[i] - e]
<1>4. g \in [0 .. n -> Int] /\ g[0] = 0
  BY <1>1, <1>3
<1>5. ASSUME NEW i \in 1 .. n PROVE g[i] = g[i - 1] + Counted(us, Q, u, i)
  <2>1. i \in 0 .. n /\ i - 1 \in 0 .. n /\ f[i] \in Int /\ f[i - 1] \in Int
    BY <1>1, <1>3
  <2>2. f[i] = f[i - 1] + Counted(ts, P, u, i)
    BY <1>3
  <2>3. CASE i = k
    <3>1. Counted(ts, P, u, i) = e /\ Counted(us, Q, u, i) = 0
      BY <2>3 DEF Counted, e
    <3>2. g[i] = f[i] - e /\ g[i - 1] = f[i - 1]
      BY <1>1, <2>1, <2>3
    <3>3. QED
      BY <1>1, <2>1, <2>2, <3>1, <3>2
  <2>4. CASE i # k
    <3>1. Counted(us, Q, u, i) = Counted(ts, P, u, i)
      BY <1>1, <2>4 DEF Counted
    <3>2. Counted(ts, P, u, i) \in Int
      BY <1>1 DEF Counted, Summable
    <3>3. CASE i < k
      <4>1. g[i] = f[i] /\ g[i - 1] = f[i - 1]
        BY <1>1, <2>1, <3>3
      <4>2. QED
        BY <2>2, <3>1, <4>1
    <3>4. CASE ~ (i < k)
      <4>1. g[i] = f[i] - e /\ g[i - 1] = f[i - 1] - e
        BY <1>1, <2>1, <2>4, <3>4
      <4>2. QED
        BY <1>1, <2>1, <2>2, <3>1, <3>2, <4>1
    <3>5. QED
      BY <3>3, <3>4
  <2>5. QED
    BY <2>3, <2>4
<1>6. IsBalance(g, Len(us), us, Q, u)
  BY <1>4, <1>5 DEF IsBalance, n
<1>7. Net(us, Q, u) = g[n]
  BY <1>1, <1>6, NetIsBalance DEF n
<1>8. Net(ts, P, u) = f[n]
  BY <1>1, <1>2, NetIsBalance DEF n
<1>9. g[n] = f[n] - e
  BY <1>1
<1>10. QED
  BY <1>7, <1>8, <1>9 DEF e
-----------------------------------------------------------------------------
(* The steps of the abstract room.                                         *)

\* The sums exist.
LEMMA TransfersAreSummable ==
    ASSUME TypeOK, NEW u
    PROVE  Summable(transfers, u)
<1>1. transfers \in Seq(Transfers)
  BY DEF TypeOK
<1>2. Len(transfers) \in Nat /\ DOMAIN transfers = 1 .. Len(transfers)
  BY <1>1
<1>3. ASSUME NEW i \in DOMAIN transfers PROVE Effect(transfers[i], u) \in Int
  <2>1. transfers[i] \in Transfers
    BY <1>1
  <2>2. transfers[i].amount \in Int
    BY <2>1, ConstantsAssumption DEF Transfers
  <2>3. QED
    BY <2>2 DEF Effect
<1>4. QED
  BY <1>2, <1>3 DEF Summable

\* An empty room has no points.
LEMMA InitLedger == Init => ScoreIsLedger
<1>1. SUFFICES ASSUME Init, NEW u \in User PROVE score[u] = Net(transfers, Pending(transfers), u)
  BY DEF ScoreIsLedger
<1>2. score[u] = 0 /\ transfers = <<>> /\ Len(transfers) = 0
  BY <1>1 DEF Init
<1>3. IsBalance([i \in 0 .. 0 |-> 0], 0, transfers, Pending(transfers), u)
  BY DEF IsBalance
<1>4. QED
  BY <1>2, <1>3, NetIsBalance

\* A transfer moves the score of its two members by what it adds to their sums.
LEMMA TransferKeepsLedger ==
    ASSUME TypeOK, ScoreIsLedger, NEW u \in User, NEW v \in User, NEW a \in Amounts,
           Abstract!Transfer(u, v, a)
    PROVE  ScoreIsLedger'
<1> DEFINE t == [from |-> u, to |-> v, amount |-> a, status |-> "pending", by |-> NoUser]
<1>1. /\ u # v
      /\ transfers' = Append(transfers, t)
      /\ score' = [score EXCEPT ![u] = @ - a, ![v] = @ + a]
  BY DEF Abstract!Transfer, Abstract!Moved
<1>2. /\ transfers \in Seq(Transfers) /\ t \in Transfers /\ a \in Int
      /\ score \in [User -> Int]
  BY ConstantsAssumption DEF TypeOK, Transfers
<1>3. \A w : Effect(t, w) = IF w = u THEN -a ELSE IF w = v THEN a ELSE 0
  BY DEF Effect
<1>4. t.status = "pending"
  OBVIOUS
<1> HIDE DEF t
<1>5. Pending(transfers') = Pending(transfers) \cup {Len(transfers) + 1}
  BY <1>1, <1>2, <1>4 DEF Pending
<1>6. ASSUME NEW w \in User PROVE score'[w] = Net(transfers', Pending(transfers'), w)
  <2>1. Summable(transfers, w) /\ Effect(t, w) \in Int
    BY <1>2, <1>3, TransfersAreSummable
  <2>2. Pending(transfers) \in SUBSET DOMAIN transfers
    BY DEF Pending
  <2>3. Net(transfers', Pending(transfers'), w)
           = Net(transfers, Pending(transfers), w) + Effect(t, w)
    BY <1>1, <1>2, <1>5, <2>1, <2>2, NetOfAppend
  <2>4. score'[w] = score[w] + Effect(t, w)
    BY <1>1, <1>2, <1>3
  <2>5. score[w] = Net(transfers, Pending(transfers), w)
    BY DEF ScoreIsLedger
  <2>6. QED
    BY <2>3, <2>4, <2>5
<1>7. QED
  BY <1>6 DEF ScoreIsLedger

\* Undoing a transfer takes what it added to the sums back from the scores.
LEMMA ResolveKeepsLedger ==
    ASSUME TypeOK, History, ScoreIsLedger,
           NEW k \in DOMAIN transfers, NEW by \in User,
           NEW how \in {"rolled_back", "rejected"}, Abstract!Resolve(k, by, how)
    PROVE  ScoreIsLedger'
<1>1. PICK t \in Transfers : t = transfers[k]
  BY DEF TypeOK
<1>2. /\ k \in Pending(transfers)
      /\ transfers' = [transfers EXCEPT ![k] = Resolved(t, how, by)]
      /\ score' = [score EXCEPT ![t.to] = @ - t.amount, ![t.from] = @ + t.amount]
  BY <1>1 DEF Abstract!Resolve, Abstract!Moved, Abstract!Resolved, Resolved,
              Abstract!Pending, Pending
<1>3. /\ t.from \in User /\ t.to \in User /\ t.amount \in Int
      /\ score \in [User -> Int] /\ transfers \in Seq(Transfers)
  BY ConstantsAssumption DEF TypeOK, Transfers
<1>4. t.from # t.to
  BY <1>1 DEF History
<1>5. Resolved(t, how, by).status # "pending"
  BY DEF Resolved
<1>6. /\ DOMAIN transfers' = DOMAIN transfers /\ Len(transfers') = Len(transfers)
      /\ transfers'[k] = Resolved(t, how, by)
      /\ \A i \in DOMAIN transfers : i # k => transfers'[i] = transfers[i]
  BY <1>2, <1>3
<1>7. Pending(transfers') = Pending(transfers) \ {k}
  BY <1>5, <1>6 DEF Pending
<1>8. ASSUME NEW w \in User PROVE score'[w] = Net(transfers', Pending(transfers'), w)
  <2>1. Summable(transfers, w)
    BY TransfersAreSummable
  <2>2. Pending(transfers) \in SUBSET DOMAIN transfers
    BY DEF Pending
  <2>3. Net(transfers', Pending(transfers'), w)
           = Net(transfers, Pending(transfers), w) - Effect(t, w)
    <3> DEFINE P == Pending(transfers)
               us == transfers'
    <3>1. /\ P \in SUBSET DOMAIN transfers /\ k \in P /\ Len(us) = Len(transfers)
          /\ \A i \in DOMAIN transfers : i # k => us[i] = transfers[i]
      BY <1>2, <1>6, <2>2
    <3>2. Pending(us) = P \ {k}
      BY <1>7
    <3> HIDE DEF P, us
    <3>3. Net(us, P \ {k}, w) = Net(transfers, P, w) - Effect(transfers[k], w)
      BY <2>1, <3>1, NetWithout
    <3>4. QED
      BY <1>1, <3>2, <3>3 DEF P, us
  <2>4. score'[w] = score[w] - Effect(t, w)
    BY <1>2, <1>3, <1>4 DEF Effect
  <2>5. score[w] = Net(transfers, Pending(transfers), w)
    BY DEF ScoreIsLedger
  <2>6. QED
    BY <2>3, <2>4, <2>5
<1>9. QED
  BY <1>8 DEF ScoreIsLedger

\* No other operation of the room touches a score or a transfer.
LEMMA RoomKeepsLedger ==
    ASSUME TypeOK, History, ScoreIsLedger, [Abstract!Next]_(Abstract!vars)
    PROVE  ScoreIsLedger'
<1>1. ASSUME NEW u \in User, NEW v \in User, NEW a \in Amounts, Abstract!Transfer(u, v, a)
      PROVE  ScoreIsLedger'
  BY <1>1, TransferKeepsLedger
<1>2. ASSUME NEW k \in DOMAIN transfers, NEW u \in User,
             NEW how \in {"rolled_back", "rejected"}, Abstract!Resolve(k, u, how)
      PROVE  ScoreIsLedger'
  BY <1>2, ResolveKeepsLedger
<1>3. ASSUME UNCHANGED <<score, transfers>> PROVE ScoreIsLedger'
  BY <1>3 DEF ScoreIsLedger
<1>4. ASSUME NEW u \in User,
             \/ Abstract!Create(u) \/ Abstract!Join(u) \/ Abstract!Leave(u)
             \/ Abstract!Kick(u) \/ Abstract!Chat(u)
      PROVE  UNCHANGED <<score, transfers>>
  BY <1>4 DEF Abstract!Create, Abstract!Join, Abstract!Leave, Abstract!Kick, Abstract!Chat
<1>5. ASSUME NEW b \in BOOLEAN, Abstract!SetChat(b) PROVE UNCHANGED <<score, transfers>>
  BY <1>5 DEF Abstract!SetChat
<1>6. CASE UNCHANGED Abstract!vars
  BY <1>3, <1>6 DEF Abstract!vars
<1>7. QED
  BY <1>1, <1>2, <1>3, <1>4, <1>5, <1>6 DEF Abstract!Next
-----------------------------------------------------------------------------
(* The theorem.                                                            *)

\* In every interleaving of the handlers a member's score is the sum of the
\* transfers nobody has undone: no relative update of CreateTransfer and
\* TransferAction is lost under the whole rows that JoinRoom, LeaveRoom and
\* KickMember write back.
THEOREM ScoresAreLedger == Spec => []ScoreIsLedger
<1> DEFINE Booked == RefInv /\ ScoreIsLedger
<1>1. Init => Booked
  BY InitRefines, InitLedger
<1>2. Booked /\ [Next]_vars => Booked'
  <2>1. RefInv => TypeOK /\ History
    BY DEF RefInv, Inv
  <2>2. QED
    BY <2>1, NextRefines, RoomKeepsLedger
<1>3. Booked => ScoreIsLedger
  OBVIOUS
<1>4. QED
  BY <1>1, <1>2, <1>3, PTL DEF Spec
=============================================================================
