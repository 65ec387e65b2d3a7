-------------------------- MODULE RoomTransactions --------------------------
(***************************************************************************)
(* One room under concurrent handlers.  Every handler of service.go that   *)
(* changes a room is a PostgreSQL transaction at READ COMMITTED; it is     *)
(* modelled statement by statement:                                        *)
(*                                                                         *)
(*   join, leave, kick, toggle, transfer                                   *)
(*       lock the rooms row (SELECT ... FOR UPDATE), check it, then lock   *)
(*       the member rows they need;                                        *)
(*   rollback, reject, chat                                                *)
(*       read the rooms row WITHOUT locking it, lock the transfer row or   *)
(*       member rows, and touch the rooms row again only when they insert  *)
(*       a message, whose foreign key takes FOR KEY SHARE on it.           *)
(*                                                                         *)
(* Other transactions see only committed rows, so a transaction's writes   *)
(* are applied in one step, with its commit.  What it read and may have    *)
(* become stale by then is kept in `seen'.                                 *)
(***************************************************************************)
EXTENDS Integers, Sequences, FiniteSets, Ledger, RowLocks

CONSTANTS User,          \* the users
          NoUser,        \* a null user id
          Proc,          \* handlers running at the same time
          Kinds,         \* the requests that clients send
          Amounts,       \* the amounts they ask to transfer
          MinScore, MaxScore,  \* the range of the bigint score column
          MaxTransfers,  \* bound: transfers ever asked for
          MaxChats       \* bound: chat messages ever asked for, per user

AllKinds == {"join", "leave", "kick", "chatOn", "chatOff", "transfer",
             "rollback", "reject", "chat"}

ASSUME ConstantsAssumption ==
    /\ NoUser \notin User
    /\ Kinds \subseteq AllKinds
    /\ Amounts \subseteq Int \ {0}
    /\ MinScore \in Int /\ MaxScore \in Int
    /\ MinScore <= 0 /\ 0 <= MaxScore
    /\ MaxTransfers \in Nat /\ MaxChats \in Nat

VARIABLES status,       \* rooms.status: "none" (no row yet), "active", "settled"
          owner,        \* rooms.owner_user_id
          owners,       \* history: every user who has owned the room
          chatEnabled,  \* rooms.chat_enabled
          joined,       \* the room's member rows, in join_seq order
          present,      \* the members whose left_at is null
          score,        \* room_members.score
          transfers,    \* the room's score_transfers rows, in id order
          chats,        \* how many chat messages each user has sent
          recorded,     \* the users in the match record
          finalScore    \* match_record_players.final_score

VARIABLES held,         \* the row locks each handler's transaction holds
          pc,           \* the statement each handler runs next
          req,          \* the request it serves
          seen          \* what it has read so far

rows  == <<status, owner, owners, chatEnabled, joined, present, score,
           transfers, chats, recorded, finalScore>>
local == <<held, pc, req, seen>>
vars  == <<status, owner, owners, chatEnabled, joined, present, score,
           transfers, chats, recorded, finalScore, held, pc, req, seen>>
-----------------------------------------------------------------------------
(* Requests.  `peer' is the target of a kick or the receiver of a transfer, *)
(* `id' the transfer to undo.                                               *)

Request == [kind : AllKinds \cup {"none"}, user : User \cup {NoUser},
            peer : User \cup {NoUser}, amount : Amounts \cup {0}, id : 0 .. MaxTransfers]

Ask(kind, u, v, a, i) ==
    [kind |-> kind, user |-> u, peer |-> v, amount |-> a, id |-> i]

NoRequest == Ask("none", NoUser, NoUser, 0, 0)

Requests ==
    {Ask(k, u, NoUser, 0, 0) :
        k \in {"join", "leave", "chatOn", "chatOff", "chat"}, u \in User}
    \cup {Ask("kick", u, v, 0, 0) : u \in User, v \in User}
    \cup {Ask("transfer", u, v, a, 0) : u \in User, v \in User, a \in Amounts}
    \cup {Ask(k, u, NoUser, 0, i) :
             k \in {"rollback", "reject"}, u \in User, i \in 1 .. MaxTransfers}

\* The requests that pass the handlers' checks of their input alone: a kick
\* and a transfer name another user, an amount is not 0.
Inputs == {r \in Requests : r.kind \in Kinds /\ r.user # r.peer}

Undoing == {"rollback", "reject"}
LocksRoom == {"join", "leave", "kick", "chatOn", "chatOff", "transfer"}

\* Requests of one kind that are being served.
InFlight(kind) == {q \in Proc : req[q].kind = kind}
-----------------------------------------------------------------------------
(* Rows and the locks on them.                                             *)

RoomRow        == <<"room">>
MemberRow(u)   == <<"member", u>>
TransferRow(i) == <<"transfer", i>>

Rows == {RoomRow} \cup {MemberRow(u) : u \in User}
                  \cup {TransferRow(i) : i \in 0 .. MaxTransfers}

Locks == {ForUpdate(r) : r \in Rows} \cup {KeyShare(RoomRow)}

HasRow(u) == \E i \in DOMAIN joined : joined[i] = u

\* The member rows a request locks: the first for every request but the
\* toggles, the second for those that move points.
Subject(p) == CASE req[p].kind = "kick" -> req[p].peer
                [] req[p].kind \in Undoing -> transfers[req[p].id].from
                [] OTHER -> req[p].user

Other(p) == IF req[p].kind \in Undoing THEN transfers[req[p].id].to
                                       ELSE req[p].peer

\* Whether the WHERE clause finds u's row: a join or an undo takes any row,
\* the rest only that of a member who has not left.
Matches(p, u) == IF req[p].kind \in Undoing \cup {"join"} THEN HasRow(u)
                                                          ELSE u \in present

\* The lock that p's next statement asks for, if it finds a row to lock.
Wanted(p) ==
    CASE pc[p] = "room" /\ status # "none" -> {ForUpdate(RoomRow)}
      [] pc[p] = "transfer" /\ req[p].id \in DOMAIN transfers ->
            {ForUpdate(TransferRow(req[p].id))}
      [] pc[p] = "member" /\ Matches(p, Subject(p)) -> {ForUpdate(MemberRow(Subject(p)))}
      [] pc[p] = "other" /\ Matches(p, Other(p)) -> {ForUpdate(MemberRow(Other(p)))}
      [] pc[p] = "key" -> {KeyShare(RoomRow)}
      [] OTHER -> {}

BlockedBy(p) == UNION {Holders(held, p, l) : l \in Wanted(p)}
-----------------------------------------------------------------------------
Blank == [owner |-> NoUser, score |-> 0, final |-> [u \in User |-> 0]]

Init ==
    /\ status = "none"
    /\ owner = NoUser
    /\ owners = {}
    /\ chatEnabled = FALSE
    /\ joined = <<>>
    /\ present = {}
    /\ score = [u \in User |-> 0]
    /\ transfers = <<>>
    /\ chats = [u \in User |-> 0]
    /\ recorded = {}
    /\ finalScore = [u \in User |-> 0]
    /\ held = [p \in Proc |-> {}]
    /\ pc = [p \in Proc |-> "idle"]
    /\ req = [p \in Proc |-> NoRequest]
    /\ seen = [p \in Proc |-> Blank]

\* CreateRoom commits a room, its owner's member row and a message that no
\* other transaction can see before.
CreateRoom(u) ==
    /\ status = "none"
    /\ status' = "active"
    /\ owner' = u
    /\ owners' = owners \cup {u}
    /\ joined' = Append(joined, u)
    /\ present' = present \cup {u}
    /\ UNCHANGED <<chatEnabled, score, transfers, chats, recorded, finalScore>>
    /\ UNCHANGED local

Start(p, r) ==
    /\ pc[p] = "idle"
    /\ r.kind = "transfer" =>
          Len(transfers) + Cardinality(InFlight("transfer")) < MaxTransfers
    /\ r.kind = "chat" =>
          chats[r.user] + Cardinality(InFlight("chat")) < MaxChats
    /\ req' = [req EXCEPT ![p] = r]
    /\ pc' = [pc EXCEPT ![p] = IF r.kind \in LocksRoom THEN "room" ELSE "read"]
    /\ UNCHANGED <<held, seen>>
    /\ UNCHANGED rows

\* The end of a transaction, by commit or by rollback: its locks are released
\* and the handler answers its client.
Finish(p) ==
    /\ held' = [held EXCEPT ![p] = {}]
    /\ pc' = [pc EXCEPT ![p] = "idle"]
    /\ req' = [req EXCEPT ![p] = NoRequest]
    /\ seen' = [seen EXCEPT ![p] = Blank]

\* Mutant: an early return keeps the transaction open.
Refuse_KeepsLocks(p) ==
    /\ pc' = [pc EXCEPT ![p] = "idle"]
    /\ req' = [req EXCEPT ![p] = NoRequest]
    /\ seen' = [seen EXCEPT ![p] = Blank]
    /\ UNCHANGED held /\ UNCHANGED rows

\* A check fails: the closure returns an error and the transaction is rolled
\* back.
Refuse(p) == Finish(p) /\ UNCHANGED rows

\* Mutant: SendMessage reads its member row without FOR UPDATE.
Lock_ChatUnlocked(p, l, next) ==
    /\ l.row = RoomRow \/ req[p].kind # "chat" => Holders(held, p, l) = {}
    /\ held' = IF l.row = RoomRow \/ req[p].kind # "chat"
               THEN [held EXCEPT ![p] = @ \cup {l}] ELSE held
    /\ pc' = [pc EXCEPT ![p] = next]

\* The next statement of p gets the lock l.
Lock(p, l, next) ==
    /\ Holders(held, p, l) = {}
    /\ held' = [held EXCEPT ![p] = @ \cup {l}]
    /\ pc' = [pc EXCEPT ![p] = next]

ReadRoom(p) ==
    /\ pc[p] = "read"
    /\ \/ /\ status # "none"
          /\ req[p].kind = "chat" => status = "active" /\ chatEnabled
          /\ seen' = [seen EXCEPT ![p].owner = owner]
          /\ pc' = [pc EXCEPT ![p] = IF req[p].kind = "chat" THEN "member"
                                                              ELSE "transfer"]
          /\ UNCHANGED <<held, req>>
          /\ UNCHANGED rows
       \/ /\ status = "none" \/ (req[p].kind = "chat" /\ ~(status = "active" /\ chatEnabled))
          /\ Refuse(p)

\* What a handler checks once it holds the rooms row.
MayProceed(p) ==
    /\ status = "active"
    /\ req[p].kind \in {"kick", "chatOn", "chatOff"} => req[p].user = owner

\* A join may also fail its password check.
LockRoom(p) ==
    /\ pc[p] = "room"
    /\ \/ /\ MayProceed(p)
          /\ Lock(p, ForUpdate(RoomRow),
                  IF req[p].kind \in {"chatOn", "chatOff"} THEN "commit" ELSE "member")
          /\ UNCHANGED <<req, seen>>
          /\ UNCHANGED rows
       \/ /\ status # "none" => Holders(held, p, ForUpdate(RoomRow)) = {}
          /\ ~MayProceed(p) \/ req[p].kind = "join"
          /\ Refuse(p)

\* Mutant: the parties of rollback and reject are mixed up.
Entitled_Swapped(p, t) ==
    \/ req[p].user = seen[p].owner
    \/ req[p].kind = "rollback" /\ req[p].user = t.to
    \/ req[p].kind = "reject" /\ req[p].user = t.from

\* Who may undo a transfer, by the owner that was read without a lock.
Entitled(p, t) ==
    \/ req[p].user = seen[p].owner
    \/ req[p].kind = "rollback" /\ req[p].user = t.from
    \/ req[p].kind = "reject" /\ req[p].user = t.to

\* Mutant: the transfer is read without FOR UPDATE.
LockTransfer_Unlocked(p) ==
    LET i == req[p].id
    IN  /\ pc[p] = "transfer"
        /\ i \in DOMAIN transfers
        /\ transfers[i].status = "pending"
        /\ Entitled(p, transfers[i])
        /\ pc' = [pc EXCEPT ![p] = "member"]
        /\ UNCHANGED <<held, req, seen>>
        /\ UNCHANGED rows

LockTransfer(p) ==
    LET i == req[p].id
        mayUndo == /\ i \in DOMAIN transfers
                   /\ transfers[i].status = "pending"
                   /\ Entitled(p, transfers[i])
    IN  /\ pc[p] = "transfer"
        /\ \/ /\ mayUndo
              /\ Lock(p, ForUpdate(TransferRow(i)), "member")
              /\ UNCHANGED <<req, seen>>
              /\ UNCHANGED rows
           \/ /\ i \in DOMAIN transfers => Holders(held, p, ForUpdate(TransferRow(i))) = {}
              /\ ~mayUndo
              /\ Refuse(p)

\* The statement after the subject's row is locked.  A member who leaves
\* nobody behind settles the room.
AfterMember(p) ==
    CASE req[p].kind \in {"leave", "kick"} ->
            IF present \subseteq {Subject(p)} THEN "settle" ELSE "commit"
      [] req[p].kind \in {"transfer"} \cup Undoing -> "other"
      [] req[p].kind = "chat" -> "key"
      [] OTHER -> "commit"

\* leave, kick and join read the row they will write back as a whole.  A
\* join that finds no row goes on to insert one.
LockMember(p) ==
    LET u == Subject(p)
    IN  /\ pc[p] = "member"
        /\ \/ /\ Matches(p, u)
              /\ Lock(p, ForUpdate(MemberRow(u)), AfterMember(p))
              /\ seen' = [seen EXCEPT ![p].score = score[u]]
              /\ UNCHANGED req
              /\ UNCHANGED rows
           \/ /\ ~Matches(p, u)
              /\ req[p].kind = "join"
              /\ pc' = [pc EXCEPT ![p] = "commit"]
              /\ UNCHANGED <<held, req, seen>>
              /\ UNCHANGED rows
           \/ /\ ~Matches(p, u)
              /\ req[p].kind # "join"
              /\ Refuse(p)

LockOther(p) ==
    /\ pc[p] = "other"
    /\ \/ /\ Matches(p, Other(p))
          /\ Lock(p, ForUpdate(MemberRow(Other(p))),
                  IF req[p].kind = "transfer" THEN "commit" ELSE "key")
          /\ UNCHANGED <<req, seen>>
          /\ UNCHANGED rows
       \/ ~Matches(p, Other(p)) /\ Refuse(p)

\* settleRoomTx reads all member rows, without locking them, and sees the
\* leaving member's row as its own transaction has written it.
ReadScores(p) ==
    /\ pc[p] = "settle"
    /\ seen' = [seen EXCEPT ![p].final = [score EXCEPT ![Subject(p)] = seen[p].score]]
    /\ pc' = [pc EXCEPT ![p] = "commit"]
    /\ UNCHANGED <<held, req>>
    /\ UNCHANGED rows

\* Mutant: a message without a foreign key to its room.
ShareRoomKey_NoKey(p) ==
    /\ pc[p] = "key"
    /\ pc' = [pc EXCEPT ![p] = "commit"]
    /\ UNCHANGED <<held, req, seen>>
    /\ UNCHANGED rows

\* The insertion of a message checks its foreign key.
ShareRoomKey(p) ==
    /\ pc[p] = "key"
    /\ Lock(p, KeyShare(RoomRow), "commit")
    /\ UNCHANGED <<req, seen>>
    /\ UNCHANGED rows
-----------------------------------------------------------------------------
(* Commits.                                                                *)

\* A first join inserts a row after the last one; a later join writes back
\* the row it read, with left_at cleared.
CommitJoin(p) ==
    LET u == req[p].user
    IN  /\ pc[p] = "commit" /\ req[p].kind = "join"
        /\ present' = present \cup {u}
        /\ joined' = IF HasRow(u) THEN joined ELSE Append(joined, u)
        /\ score' = [score EXCEPT ![u] = IF HasRow(u) THEN seen[p].score ELSE 0]
        /\ Finish(p)
        /\ UNCHANGED <<status, owner, owners, chatEnabled, transfers, chats,
                       recorded, finalScore>>

\* Mutant: the successor is not chosen by join_seq.
Longest_Any(v, S) == v \in S

\* v is the member of S with the smallest join_seq.
Longest(v, S) ==
    \E i \in DOMAIN joined :
        /\ joined[i] = v
        /\ v \in S
        /\ \A j \in 1 .. i - 1 : joined[j] \notin S

\* Mutant: the owner leaves and stays the owner.
HandOver_Never(p) == owner' = owner /\ owners' = owners

\* Only a member who leaves hands the room over, and only to one who stays.
HandOver(p) ==
    LET staying == present \ {Subject(p)}
    IN  /\ IF /\ req[p].kind = "leave" /\ owner = Subject(p)
              /\ \E v \in User : Longest(v, staying)
           THEN \E v \in User : Longest(v, staying) /\ owner' = v
           ELSE owner' = owner
        /\ owners' = owners \cup {owner'}

SettleRoom(p) ==
    IF present \subseteq {Subject(p)}
    THEN /\ status' = "settled"
         /\ recorded' = {joined[i] : i \in DOMAIN joined}
         /\ finalScore' = seen[p].final
    ELSE UNCHANGED <<status, recorded, finalScore>>

CommitLeave(p) ==
    LET u == Subject(p)
    IN  /\ pc[p] = "commit" /\ req[p].kind \in {"leave", "kick"}
        /\ present' = present \ {u}
        /\ score' = [score EXCEPT ![u] = seen[p].score]
        /\ HandOver(p)
        /\ SettleRoom(p)
        /\ Finish(p)
        /\ UNCHANGED <<chatEnabled, joined, transfers, chats>>

CommitToggle(p) ==
    /\ pc[p] = "commit" /\ req[p].kind \in {"chatOn", "chatOff"}
    /\ chatEnabled' = (req[p].kind = "chatOn")
    /\ Finish(p)
    /\ UNCHANGED <<status, owner, owners, joined, present, score, transfers,
                   chats, recorded, finalScore>>

Fits(n) == n \in MinScore .. MaxScore

\* The amount a moves from u to v, by two UPDATEs relative to the current
\* scores; the database refuses a score that is out of range.
Move(p, u, v, a) ==
    /\ Fits(score[u] - a) /\ Fits(score[v] + a)
    /\ score' = [score EXCEPT ![u] = @ - a, ![v] = @ + a]
    /\ Finish(p)
    /\ UNCHANGED <<status, owner, owners, chatEnabled, joined, present, chats,
                   recorded, finalScore>>

OutOfRange(p, u, v, a) ==
    ~(Fits(score[u] - a) /\ Fits(score[v] + a)) /\ Refuse(p)

CommitTransfer(p) ==
    LET r == req[p]
    IN  /\ pc[p] = "commit" /\ r.kind = "transfer"
        /\ \/ /\ Move(p, r.user, r.peer, r.amount)
              /\ transfers' = Append(transfers,
                    [from |-> r.user, to |-> r.peer, amount |-> r.amount,
                     status |-> "pending", by |-> NoUser])
           \/ OutOfRange(p, r.user, r.peer, r.amount)

\* Mutant: the action is stored in place of the status.
Undone_Action(kind) == kind

Undone(kind) == IF kind = "rollback" THEN "rolled_back" ELSE "rejected"

CommitUndo(p) ==
    LET r == req[p]
        t == transfers[r.id]
    IN  /\ pc[p] = "commit" /\ r.kind \in Undoing
        /\ \/ /\ Move(p, t.to, t.from, t.amount)
              /\ transfers' = [transfers EXCEPT
                    ![r.id] = Resolved(@, Undone(r.kind), r.user)]
           \/ OutOfRange(p, t.to, t.from, t.amount)

CommitChat(p) ==
    /\ pc[p] = "commit" /\ req[p].kind = "chat"
    /\ chats' = [chats EXCEPT ![req[p].user] = @ + 1]
    /\ Finish(p)
    /\ UNCHANGED <<status, owner, owners, chatEnabled, joined, present, score,
                   transfers, recorded, finalScore>>
-----------------------------------------------------------------------------
\* The request's context is cancelled, the process dies or the connection is
\* lost, at any statement.
Cancel(p) == pc[p] # "idle" /\ Refuse(p)

\* PostgreSQL breaks a cycle of waiting transactions by aborting one of them.
AbortVictim(p) ==
    /\ \E S \in SUBSET Proc : p \in S /\ Cycle(S, BlockedBy)
    /\ Refuse(p)

Advance(p) ==
    \/ ReadRoom(p) \/ LockRoom(p) \/ LockTransfer(p) \/ LockMember(p)
    \/ LockOther(p) \/ ReadScores(p) \/ ShareRoomKey(p)
    \/ CommitJoin(p) \/ CommitLeave(p) \/ CommitToggle(p)
    \/ CommitTransfer(p) \/ CommitUndo(p) \/ CommitChat(p)

Next ==
    \/ \E u \in User : CreateRoom(u)
    \/ \E p \in Proc :
          \/ \E r \in Inputs : Start(p, r)
          \/ Advance(p)
          \/ Cancel(p)
          \/ AbortVictim(p)

Spec == Init /\ [][Next]_vars

\* A waiting transaction is granted its lock in turn, a running one goes on,
\* and the lock manager finds every deadlock.
Fairness == \A p \in Proc : SF_vars(Advance(p)) /\ WF_vars(AbortVictim(p))

FairSpec == Spec /\ Fairness
-----------------------------------------------------------------------------
(* Properties.                                                             *)

PC == {"idle", "read", "room", "transfer", "member", "other", "settle", "key",
       "commit"}

Transfers == [from : User, to : User, amount : Amounts,
              status : {"pending", "rolled_back", "rejected"},
              by : User \cup {NoUser}]

\* Every column and every handler's local state keeps its type.
TypeOK ==
    /\ status \in {"none", "active", "settled"}
    /\ owner \in User \cup {NoUser}
    /\ owners \subseteq User
    /\ chatEnabled \in BOOLEAN
    /\ joined \in Seq(User)
    /\ present \subseteq User
    /\ score \in [User -> Int]
    /\ transfers \in Seq(Transfers)
    /\ chats \in [User -> Nat]
    /\ recorded \subseteq User
    /\ finalScore \in [User -> Int]
    /\ held \in [Proc -> SUBSET Locks]
    /\ pc \in [Proc -> PC]
    /\ req \in [Proc -> Request]
    /\ seen \in [Proc -> [owner : User \cup {NoUser}, score : Int,
                          final : [User -> Int]]]

\* A member's score is always the sum of the transfers nobody has undone:
\* neither the relative updates of CreateTransfer and TransferAction nor the
\* whole rows that JoinRoom, LeaveRoom and KickMember write back ever lose a
\* change another transaction made.
ScoreIsLedger ==
    \A u \in User : score[u] = Net(transfers, Pending(transfers), u)

\* An active room belongs to a member who is in it, and a room is settled
\* exactly when its last member has left: no interleaving of joins, leaves,
\* kicks and the owner's handover leaves a room nobody can manage, an empty
\* room that stays open, or a settled one with somebody in it.
OwnerIsPresent ==
    /\ status = "active" => owner \in present
    /\ status = "settled" => present = {}

\* The match record is written once, by the step that settles the room, and
\* holds every member with the score of that very moment: no undo of a
\* transfer slips in between settleRoomTx's unlocked read and its commit.
RecordIsSnapshot ==
    [][ IF status = "active" /\ status' = "settled"
        THEN /\ recorded' = {u \in User : HasRow(u)}
             /\ \A u \in recorded' : finalScore'[u] = score[u]
        ELSE UNCHANGED <<recorded, finalScore>> ]_vars

\* A transfer row is never changed but by the one step that undoes it: two
\* handlers that undo the same transfer cannot both succeed.
UndoneOnce ==
    [][ /\ Len(transfers) <= Len(transfers')
        /\ \A i \in DOMAIN transfers :
              transfers'[i] # transfers[i] =>
                 /\ transfers[i].status = "pending"
                 /\ transfers'[i].status # "pending"
                 /\ \A u \in User : Effect(transfers'[i], u) = Effect(transfers[i], u)
      ]_vars

\* A chat message is committed only while its sender is in the room and the
\* room is active, although SendMessage never locks the room and checks its
\* status before it waits for the member row.
ChatFromMember ==
    [][ \A u \in User : chats'[u] # chats[u] => status = "active" /\ u \in present ]_vars

\* Every handler answers: waiting for locks never goes on for ever.
RequestAnswered == \A p \in Proc : pc[p] # "idle" ~> pc[p] = "idle"

\* The transactions implement the atomic operations of Room.
Abstract == INSTANCE Room
RoomSpec == Abstract!Spec

=============================================================================
