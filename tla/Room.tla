-------------------------------- MODULE Room --------------------------------
(***************************************************************************)
(* What a room promises, whatever the interleaving of the handlers that    *)
(* serve it: one atomic step per operation.  RoomTransactions, which       *)
(* models the transactions statement by statement, implements this         *)
(* specification.                                                          *)
(***************************************************************************)
EXTENDS Integers, Sequences, Ledger

CONSTANTS User, NoUser, Amounts, MinScore, MaxScore

VARIABLES status,       \* rooms.status: "none" (no row yet), "active", "settled"
          owner,        \* rooms.owner_user_id
          owners,       \* history: every user who has owned the room
          chatEnabled,  \* rooms.chat_enabled
          joined,       \* the room's member rows, in join_seq order
          present,      \* the members whose left_at is null
          score,        \* room_members.score
          transfers,    \* the room's score_transfers rows, in id order
          chats,        \* how many chat messages each user has sent
          recorded,     \* the users in the match record
          finalScore    \* match_record_players.final_score

vars == <<status, owner, owners, chatEnabled, joined, present, score,
          transfers, chats, recorded, finalScore>>

Rows == {joined[i] : i \in DOMAIN joined}

InRange(n) == n \in MinScore .. MaxScore

\* The score column once the amount a has moved from u to v.
Moved(u, v, a) == [score EXCEPT ![u] = @ - a, ![v] = @ + a]

\* v is the member of S with the smallest join_seq.
First(v, S) ==
    \E i \in DOMAIN joined :
        /\ joined[i] = v
        /\ v \in S
        /\ \A j \in 1 .. i - 1 : joined[j] \notin S

Init ==
    /\ status = "none"
    /\ owner = NoUser
    /\ owners = {}
    /\ chatEnabled = FALSE
    /\ joined = <<>>
    /\ present = {}
    /\ score = [u \in User |-> 0]
    /\ transfers = <<>>
    /\ chats = [u \in User |-> 0]
    /\ recorded = {}
    /\ finalScore = [u \in User |-> 0]

Create(u) ==
    /\ status = "none"
    /\ status' = "active"
    /\ owner' = u
    /\ owners' = {u}
    /\ joined' = <<u>>
    /\ present' = {u}
    /\ UNCHANGED <<chatEnabled, score, transfers, chats, recorded, finalScore>>

\* A first join appends a row with score 0; a later one revives the old row
\* with its join_seq and its score.
Join(u) ==
    /\ status = "active"
    /\ present' = present \cup {u}
    /\ joined' = IF u \in Rows THEN joined ELSE Append(joined, u)
    /\ UNCHANGED <<status, owner, owners, chatEnabled, score, transfers, chats,
                   recorded, finalScore>>

\* The record holds every member there ever was, with the scores of this
\* moment.
Settle ==
    /\ status' = "settled"
    /\ recorded' = Rows
    /\ finalScore' = score
    /\ UNCHANGED <<owner, owners>>

\* A member leaves.  The room goes to the longest-standing member left; the
\* last one to leave settles it.
Leave(u) ==
    /\ status = "active"
    /\ u \in present
    /\ present' = present \ {u}
    /\ IF present = {u} THEN Settle
       ELSE /\ IF owner = u THEN \E v \in User : First(v, present') /\ owner' = v
                            ELSE owner' = owner
            /\ owners' = owners \cup {owner'}
            /\ UNCHANGED <<status, recorded, finalScore>>
    /\ UNCHANGED <<chatEnabled, joined, score, transfers, chats>>

\* The owner removes another member.
Kick(u) ==
    /\ status = "active"
    /\ u \in present \ {owner}
    /\ present' = present \ {u}
    /\ UNCHANGED <<status, owner, owners, chatEnabled, joined, score, transfers,
                   chats, recorded, finalScore>>

SetChat(b) ==
    /\ status = "active"
    /\ chatEnabled' = b
    /\ UNCHANGED <<status, owner, owners, joined, present, score, transfers,
                   chats, recorded, finalScore>>

\* Two members who are in the room move points.
Transfer(u, v, a) ==
    /\ status = "active"
    /\ u # v
    /\ {u, v} \subseteq present
    /\ InRange(score[u] - a) /\ InRange(score[v] + a)
    /\ transfers' = Append(transfers, [from |-> u, to |-> v, amount |-> a,
                                       status |-> "pending", by |-> NoUser])
    /\ score' = Moved(u, v, a)
    /\ UNCHANGED <<status, owner, owners, chatEnabled, joined, present, chats,
                   recorded, finalScore>>

\* A transfer is undone, once, by a party to it or by someone who owns, or
\* has owned, the room; also after its parties have left and the room has
\* been settled.
Resolve(i, u, how) ==
    /\ i \in Pending(transfers)
    /\ u \in owners \cup {IF how = "rolled_back" THEN transfers[i].from
                                                 ELSE transfers[i].to}
    /\ transfers' = [transfers EXCEPT ![i] = Resolved(@, how, u)]
    /\ score' = Moved(transfers[i].to, transfers[i].from, transfers[i].amount)
    /\ InRange(score'[transfers[i].from]) /\ InRange(score'[transfers[i].to])
    /\ UNCHANGED <<status, owner, owners, chatEnabled, joined, present, chats,
                   recorded, finalScore>>

\* Only a user who is in the room says anything in it.
Chat(u) ==
    /\ status = "active"
    /\ u \in present
    /\ chats' = [chats EXCEPT ![u] = @ + 1]
    /\ UNCHANGED <<status, owner, owners, chatEnabled, joined, present, score,
                   transfers, recorded, finalScore>>

Next ==
    \/ \E u \in User : Create(u) \/ Join(u) \/ Leave(u) \/ Kick(u) \/ Chat(u)
    \/ \E b \in BOOLEAN : SetChat(b)
    \/ \E u, v \in User, a \in Amounts : Transfer(u, v, a)
    \/ \E i \in DOMAIN transfers, u \in User, how \in {"rolled_back", "rejected"} :
          Resolve(i, u, how)

Spec == Init /\ [][Next]_vars
-----------------------------------------------------------------------------
TransferRow == [from : User, to : User, amount : Amounts,
                status : {"pending", "rolled_back", "rejected"},
                by : User \cup {NoUser}]

TypeOK ==
    /\ status \in {"none", "active", "settled"}
    /\ owner \in User \cup {NoUser}
    /\ owners \subseteq User
    /\ chatEnabled \in BOOLEAN
    /\ joined \in Seq(User)
    /\ present \subseteq User
    /\ score \in [User -> Int]
    /\ transfers \in Seq(TransferRow)
    /\ chats \in [User -> Nat]
    /\ recorded \subseteq User
    /\ finalScore \in [User -> Int]
=============================================================================
