-------------------------------- MODULE Feed --------------------------------
(***************************************************************************)
(* What the clients of a room come to know of it: the operations of Room,  *)
(* which handlers commit, the events they broadcast through Hub after the  *)
(* commit and outside its locks, and clients that read the room again      *)
(* whenever an event arrives.  Room's operations are atomic, as            *)
(* RoomTransactions implements them; a read by GetRoomDetail is not.       *)
(***************************************************************************)
EXTENDS Integers, Sequences, FiniteSets

CONSTANTS User, NoUser, Client, NoClient,
          Handler,           \* request handlers running at the same time
          SendCap, QueueCap, \* capacities of the hub's channels
          MaxOps             \* bound: operations ever committed

ASSUME ConstantsAssumption ==
    /\ NoClient \notin Client
    /\ SendCap \in Nat \ {0} /\ QueueCap \in Nat \ {0}
    /\ MaxOps \in Nat

VARIABLES status, owner, owners, chatEnabled, joined, present, score,
          transfers, chats, recorded, finalScore   \* the room's rows: see Room
VARIABLES members, register, unreg, pending, closed, open, reader, writer,
          caster, alive                            \* the hub: see Hub
VARIABLES ops,      \* how many operations have been committed
          owed,     \* how many events each handler has yet to broadcast
          joining,  \* the handlers that read the room between commit and event
          client,   \* what each client knows and does
          silent,   \* an operation was committed and its event given up
          missed    \* the clients that a broadcast which panicked left out

room == <<status, owner, owners, chatEnabled, joined, present, score,
          transfers, chats, recorded, finalScore>>
hub  == <<members, register, unreg, pending, closed, open, reader, writer,
          caster, alive>>
vars == <<room, hub, ops, owed, joining, client, silent, missed>>

Room == INSTANCE Room WITH Amounts <- {1}, MinScore <- -MaxOps, MaxScore <- MaxOps
Hub  == INSTANCE Hub WITH Caster <- Handler, Unrecovered <- {}

\* The rooms row and the member rows of a RoomDetail.
RoomRow    == [status |-> status, owner |-> owner]
MemberRows == [u \in present |-> score[u]]

\* A client wants to read the room (`due'), may be between the two queries of
\* GetRoomDetail, and since it was added to the hub has begun a read or not.
Unknown == [status |-> "none", owner |-> NoUser]
NewClient == [due |-> TRUE, at |-> "idle", row |-> Unknown, synced |-> FALSE,
              room |-> Unknown, members |-> <<>>]

Init ==
    /\ Room!Init
    /\ Hub!Init
    /\ ops = 0
    /\ owed = [h \in Handler |-> 0]
    /\ joining = {}
    /\ client = [c \in Client |-> NewClient]
    /\ silent = FALSE
    /\ missed = {}
-----------------------------------------------------------------------------
(* Handlers.                                                               *)

Idle(h) == owed[h] = 0 /\ h \notin joining /\ caster[h].at = "idle"

Begin(h) ==
    /\ Idle(h)
    /\ ops < MaxOps
    /\ ops' = ops + 1
    /\ UNCHANGED <<client, silent, missed>> /\ UNCHANGED hub

Owe(h, n) == owed' = [owed EXCEPT ![h] = n] /\ UNCHANGED joining

\* CreateRoom and ToggleRoomChat broadcast nothing.
Quiet(h) ==
    /\ Begin(h)
    /\ \/ \E u \in User : Room!Create(u)
       \/ \E b \in BOOLEAN : Room!SetChat(b)
    /\ UNCHANGED <<owed, joining>>

Join(h) ==
    /\ Begin(h)
    /\ \E u \in User : Room!Join(u)
    /\ joining' = joining \cup {h}
    /\ UNCHANGED owed

\* JoinRoom reads the room for its answer before it broadcasts, and returns
\* without doing so if that fails, say because its client has gone.
JoinDetail(h) ==
    /\ h \in joining
    /\ joining' = joining \ {h}
    /\ \/ owed' = [owed EXCEPT ![h] = 1] /\ UNCHANGED silent
       \/ silent' = TRUE /\ UNCHANGED owed
    /\ UNCHANGED <<ops, client, missed>> /\ UNCHANGED room /\ UNCHANGED hub

\* Mutant: a settlement alone is announced.
Leave_SettledOnly(h) ==
    /\ Begin(h)
    /\ \E u \in User : Room!Leave(u)
    /\ Owe(h, IF status' = "settled" THEN 1 ELSE 0)

\* member_left, and room_settled if it was the last one.
Leave(h) ==
    /\ Begin(h)
    /\ \E u \in User : Room!Leave(u)
    /\ Owe(h, IF status' = "settled" THEN 2 ELSE 1)

\* member_left, score_changed or chat_message.
Announced(h) ==
    /\ Begin(h)
    /\ \/ \E u \in User : Room!Kick(u) \/ Room!Chat(u)
       \/ \E u, v \in User : Room!Transfer(u, v, 1)
       \/ \E i \in DOMAIN transfers, u \in User, how \in {"rolled_back", "rejected"} :
             Room!Resolve(i, u, how)
    /\ Owe(h, 1)

\* Mutant: an event that nobody owes.
Notify_Unowed(h) ==
    /\ caster[h].at = "idle"
    /\ owed' = [owed EXCEPT ![h] = @ - 1]
    /\ IF members = {} THEN UNCHANGED hub ELSE Hub!Lookup(h)
    /\ UNCHANGED <<ops, joining, client, silent, missed>> /\ UNCHANGED room

\* Broadcast of the next event, to nobody if the room has no clients.
Notify(h) ==
    /\ owed[h] > 0
    /\ caster[h].at = "idle"
    /\ owed' = [owed EXCEPT ![h] = @ - 1]
    /\ IF members = {} THEN UNCHANGED hub ELSE Hub!Lookup(h)
    /\ UNCHANGED <<ops, joining, client, silent, missed>> /\ UNCHANGED room

\* A send that panics ends the handler, with the events it still owes; those
\* it has not visited do not hear of the operation.
Panics(h) == caster[h].at = "send" /\ caster[h].to \in closed

Deliver(h) ==
    /\ Hub!Cast(h)
    /\ IF Panics(h)
       THEN /\ owed' = [owed EXCEPT ![h] = 0]
            /\ missed' = missed \cup (members \ caster[h].done)
       ELSE UNCHANGED <<owed, missed>>
    /\ UNCHANGED <<ops, joining, client, silent>> /\ UNCHANGED room

Handle(h) == \/ Quiet(h) \/ Join(h) \/ JoinDetail(h) \/ Leave(h)
             \/ Announced(h) \/ Notify(h) \/ Deliver(h)
-----------------------------------------------------------------------------
(* Connections and clients.                                                *)

\* An event that writePump has written makes its client read the room.
Pump(c) ==
    /\ Hub!Pump(c)
    /\ client' = IF pending'[c] < pending[c] THEN [client EXCEPT ![c].due = TRUE]
                                             ELSE client
    /\ UNCHANGED <<ops, owed, joining, silent, missed>> /\ UNCHANGED room

RunHub ==
    /\ Hub!Run
    /\ UNCHANGED <<ops, owed, joining, client, silent, missed>> /\ UNCHANGED room

\* GetRoomDetail's first query, its second, and a read that fails.
ReadRoom(c) ==
    /\ client[c].at = "idle" /\ (client[c].due \/ ~client[c].synced)
    /\ status # "none"
    /\ client' = [client EXCEPT ![c].at = "members", ![c].row = RoomRow,
                                ![c].due = FALSE, ![c].synced = c \in members]
    /\ UNCHANGED <<ops, owed, joining, silent, missed>> /\ UNCHANGED <<room, hub>>

ReadMembers(c) ==
    /\ client[c].at = "members"
    /\ client' = [client EXCEPT ![c].at = "idle", ![c].row = Unknown,
                                ![c].room = client[c].row, ![c].members = MemberRows]
    /\ UNCHANGED <<ops, owed, joining, silent, missed>> /\ UNCHANGED <<room, hub>>

ReadFails(c) ==
    /\ client[c].at = "members"
    /\ client' = [client EXCEPT ![c].at = "idle", ![c].row = Unknown, ![c].due = TRUE]
    /\ UNCHANGED <<ops, owed, joining, silent, missed>> /\ UNCHANGED <<room, hub>>
-----------------------------------------------------------------------------
Next ==
    /\ alive
    /\ \/ \E h \in Handler : Handle(h)
       \/ \E c \in Client : Pump(c) \/ ReadRoom(c) \/ ReadMembers(c) \/ ReadFails(c)
       \/ RunHub

Spec == Init /\ [][Next]_vars
-----------------------------------------------------------------------------
(* Properties.                                                             *)

TypeOK ==
    /\ Room!TypeOK /\ Hub!TypeOK
    /\ ops \in 0 .. MaxOps
    /\ owed \in [Handler -> 0 .. 2]
    /\ joining \subseteq Handler
    /\ \A c \in Client :
          /\ client[c].due \in BOOLEAN /\ client[c].synced \in BOOLEAN
          /\ client[c].at \in {"idle", "members"}
          /\ client[c].members \in UNION {[S -> -MaxOps .. MaxOps] : S \in SUBSET User}
    /\ silent \in BOOLEAN
    /\ missed \subseteq Client

\* No event is owed, under way, or waiting to be acted on by c.
AtRest(c) ==
    /\ \A h \in Handler : Idle(h)
    /\ pending[c] = 0
    /\ ~client[c].due /\ client[c].at = "idle"

\* A client the hub serves, that has read the room since it was added.
Served(c) == alive /\ c \in members \cap open /\ client[c].synced

InSync(c) == client[c].room = RoomRow /\ client[c].members = MemberRows

\* A client that reads the room at every event ends up with its true status,
\* owner, members and scores, in whatever order events overtake one another
\* and although its reads are not atomic: once all is quiet, no connected
\* client is out of date, unless it never got the event.
UpToDate ==
    \A c \in Client \ missed : Served(c) /\ AtRest(c) /\ ~silent => InSync(c)
=============================================================================
