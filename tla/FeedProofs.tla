----------------------------- MODULE FeedProofs -----------------------------
(***************************************************************************)
(* Proofs about Feed, for any users, clients and handlers, any capacities  *)
(* of the channels and any number of operations.                           *)
(*                                                                         *)
(* The steps of Feed are steps of Hub, whose invariant is that of          *)
(* HubProofs, or leave the hub alone.  On top of it SyncKept says of every *)
(* client that the hub serves: what it knows, or is about to know, is      *)
(* current, or something is under way that will make it read again         *)
(* (Coming): a wish to read, an event in its channel, or a handler that    *)
(* has yet to visit it.  A handler that owes a second event counts only    *)
(* between its broadcasts, because a panic in the first one cancels it.    *)
(***************************************************************************)
EXTENDS Feed, TLAPS

HubP == INSTANCE HubProofs WITH Caster <- Handler, Unrecovered <- {}

-----------------------------------------------------------------------------
(* The inductive invariant.                                                *)

\* A handler that is broadcasting owes an event to clients that are in the map
\* or whose channel is closed, and that it has not visited yet; all of them
\* are closed once its map is empty.
BroadcastKept ==
    \A h \in Handler : caster[h].at # "idle" =>
        /\ caster[h].must \subseteq members \cup closed
        /\ caster[h].must \cap caster[h].done = {}
        /\ caster[h].stale => caster[h].must \subseteq closed

\* JoinRoom reads the room before it comes to owe its event.
JoinFirst == \A h \in joining : owed[h] = 0 /\ caster[h].at = "idle"

\* h will still visit c.
Owing(h, c) ==
    \/ h \in joining
    \/ owed[h] > 0 /\ caster[h].at = "idle"
    \/ caster[h].at # "idle" /\ c \in caster[h].must
    \/ caster[h].at = "send" /\ caster[h].to = c

\* Something is under way that makes c read the room again.
Coming(c) ==
    \/ client[c].due
    \/ pending[c] > 0
    \/ \E h \in Handler : Owing(h, c)

\* What c knows is current or, if it is between its two queries, what it has
\* read is.
Current(c) ==
    /\ client[c].at = "idle" => InSync(c)
    /\ client[c].at = "members" => client[c].row = RoomRow

SyncKept(c) ==
    c \in members /\ client[c].synced /\ c \notin missed /\ ~silent
        => Current(c) \/ Coming(c)

\* Only a client of a room that exists, and that has been in the map, counts
\* as having read the room.
SyncedOnce(c) == client[c].synced => status # "none" /\ c \in members \cup closed

RoomRowType == [status : {"none", "active", "settled"}, owner : User \cup {NoUser}]
MembersType == UNION {[S -> -MaxOps .. MaxOps] : S \in SUBSET User}

ClientType == [due : BOOLEAN, at : {"idle", "members"}, row : RoomRowType,
               synced : BOOLEAN, room : RoomRowType, members : MembersType]

\* The types of what Feed adds to the room and the hub.
FeedTypeOK ==
    /\ ops \in 0 .. MaxOps
    /\ owed \in [Handler -> 0 .. 2]
    /\ joining \subseteq Handler
    /\ client \in [Client -> ClientType]
    /\ silent \in BOOLEAN
    /\ missed \subseteq Client

\* The room's types; its scores are in the range of the column, and once it
\* exists it has an owner.
RoomKept ==
    /\ Room!TypeOK
    /\ score \in [User -> -MaxOps .. MaxOps]
    /\ status # "none" => owner \in User

Inv ==
    /\ HubP!Inv /\ RoomKept /\ FeedTypeOK /\ BroadcastKept /\ JoinFirst
    /\ \A c \in Client : SyncedOnce(c) /\ SyncKept(c)
-----------------------------------------------------------------------------
(* The hub.                                                                *)

\* The constants of Feed are constants of the hub.
LEMMA HubConstants == HubP!ConstantsAssumption
BY ConstantsAssumption DEF HubP!ConstantsAssumption

\* The hub's actions are the same under either name.
LEMMA SameHub ==
    /\ Hub!TypeOK <=> HubP!TypeOK
    /\ Hub!Init <=> HubP!Init
    /\ Hub!Run <=> HubP!Run
    /\ \A c : Hub!Pump(c) <=> HubP!Pump(c)
    /\ \A h : Hub!Lookup(h) <=> HubP!Lookup(h)
    /\ \A h : Hub!Cast(h) <=> HubP!Cast(h)
<1>1. (Hub!TypeOK <=> HubP!TypeOK) /\ (Hub!Init <=> HubP!Init)
  BY Zenon DEF Hub!TypeOK, HubP!TypeOK, Hub!Init, HubP!Init, Hub!Idle, HubP!Idle
<1>2. Hub!Run <=> HubP!Run
  BY Zenon DEF Hub!Run, HubP!Run, Hub!AddClient, HubP!AddClient, Hub!RemoveClient,
     HubP!RemoveClient, Hub!WriteMap, HubP!WriteMap, Hub!pumps, HubP!pumps
<1>3. ASSUME NEW c PROVE Hub!Pump(c) <=> HubP!Pump(c)
  BY Zenon DEF Hub!Pump, HubP!Pump, Hub!Connect, HubP!Connect, Hub!Register, HubP!Register,
     Hub!ReadFails, HubP!ReadFails, Hub!UnregisterReader, HubP!UnregisterReader,
     Hub!WriteEvent, HubP!WriteEvent, Hub!WriteClose, HubP!WriteClose,
     Hub!PingFails, HubP!PingFails, Hub!StopWriter, HubP!StopWriter,
     Hub!pumps, HubP!pumps, Hub!channels, HubP!channels
<1>4. ASSUME NEW h PROVE Hub!Lookup(h) <=> HubP!Lookup(h)
  BY Zenon DEF Hub!Lookup, HubP!Lookup, Hub!Idle, HubP!Idle, Hub!pumps, HubP!pumps,
     Hub!channels, HubP!channels
<1>5. ASSUME NEW h PROVE Hub!Cast(h) <=> HubP!Cast(h)
  <2>1. \A c : Hub!Pick(h, c) <=> HubP!Pick(h, c)
    BY Zenon DEF Hub!Pick, HubP!Pick, Hub!pumps, HubP!pumps, Hub!channels, HubP!channels
  <2>2. Hub!EndRange(h) <=> HubP!EndRange(h)
    BY Zenon DEF Hub!EndRange, HubP!EndRange, Hub!Idle, HubP!Idle, Hub!pumps, HubP!pumps,
       Hub!channels, HubP!channels
  <2>3. Hub!Send(h) <=> HubP!Send(h)
    BY Zenon DEF Hub!Send, HubP!Send, Hub!Idle, HubP!Idle, Hub!pumps, HubP!pumps,
       Hub!Goto, HubP!Goto
  <2>4. Hub!UnregisterSlow(h) <=> HubP!UnregisterSlow(h)
    BY Zenon DEF Hub!UnregisterSlow, HubP!UnregisterSlow, Hub!pumps, HubP!pumps,
       Hub!Goto, HubP!Goto
  <2>5. QED
    BY Zenon, <2>1, <2>2, <2>3, <2>4 DEF Hub!Cast, HubP!Cast
<1>6. QED
  BY Zenon, <1>1, <1>2, <1>3, <1>4, <1>5

\* The hub's invariant is kept by its own steps and by those that leave it
\* alone.
LEMMA HubStaysKept ==
    ASSUME HubP!Inv, alive,
           \/ \E c \in Client : Hub!Pump(c)
           \/ Hub!Run
           \/ \E h \in Handler : Hub!Lookup(h) \/ Hub!Cast(h)
           \/ UNCHANGED hub
    PROVE  HubP!Inv'
<1>1. HubP!Next \/ UNCHANGED hub
  BY SameHub DEF HubP!Next
<1>2. [HubP!Next]_(HubP!vars)
  BY <1>1 DEF HubP!vars, hub
<1>3. QED
  BY <1>2, HubConstants, HubP!NextKeepsInv
-----------------------------------------------------------------------------
(* The room.                                                               *)

\* The operations that handlers commit.
RoomStep ==
    \/ \E u \in User : Room!Create(u) \/ Room!Join(u) \/ Room!Leave(u)
                      \/ Room!Kick(u) \/ Room!Chat(u)
    \/ \E b \in BOOLEAN : Room!SetChat(b)
    \/ \E u, v \in User : Room!Transfer(u, v, 1)
    \/ \E i \in DOMAIN transfers, u \in User, how \in {"rolled_back", "rejected"} :
          Room!Resolve(i, u, how)

\* The score column stays in its range when two scores that are checked change.
LEMMA MovedInRange ==
    ASSUME score \in [User -> -MaxOps .. MaxOps], NEW u \in User, NEW v \in User,
           NEW a \in Int, score' = Room!Moved(u, v, a),
           score'[u] \in -MaxOps .. MaxOps, score'[v] \in -MaxOps .. MaxOps
    PROVE  score' \in [User -> -MaxOps .. MaxOps]
<1>1. score' = [score EXCEPT ![u] = @ - a, ![v] = @ + a]
  BY DEF Room!Moved
<1>2. \A w \in User \ {u, v} : score'[w] = score[w]
  BY <1>1
<1>3. \A w \in User : score'[w] \in -MaxOps .. MaxOps
  BY <1>2
<1>4. DOMAIN score' = User /\ score' = [w \in DOMAIN score' |-> score'[w]]
  BY <1>1
<1>5. QED
  BY <1>3, <1>4

\* Every operation keeps the room's types, and none takes a room away.
LEMMA RoomStaysKept ==
    ASSUME RoomKept, RoomStep
    PROVE  RoomKept' /\ (status # "none" => status' # "none")
<1> USE DEF RoomKept, Room!TypeOK
<1>1. MaxOps \in Nat
  BY ConstantsAssumption
<1>2. ASSUME NEW u \in User, Room!Create(u)
      PROVE  RoomKept' /\ (status # "none" => status' # "none")
  <2>1. <<u>> \in Seq(User)
    OBVIOUS
  <2>2. QED
    BY <1>2, <2>1 DEF Room!Create
<1>3. ASSUME NEW u \in User, Room!Join(u)
      PROVE  RoomKept' /\ (status # "none" => status' # "none")
  <2>1. Append(joined, u) \in Seq(User)
    OBVIOUS
  <2>2. QED
    BY <1>3, <2>1 DEF Room!Join
<1>4. ASSUME NEW u \in User, Room!Leave(u)
      PROVE  RoomKept' /\ (status # "none" => status' # "none")
  <2>1. Room!Rows \subseteq User
    <3>1. \A i \in DOMAIN joined : joined[i] \in User
      OBVIOUS
    <3>2. QED
      BY <3>1 DEF Room!Rows
  <2>2. CASE present = {u}
    <3>1. score \in [User -> Int]
      OBVIOUS
    <3>2. QED
      BY <1>4, <2>1, <2>2, <3>1 DEF Room!Leave, Room!Settle
  <2>3. CASE present # {u}
    <3>1. owner' \in User
      BY <1>4, <2>3 DEF Room!Leave
    <3>2. owners' \subseteq User
      BY <1>4, <2>3, <3>1 DEF Room!Leave
    <3>3. QED
      BY <1>4, <2>3, <3>1, <3>2 DEF Room!Leave
  <2>4. QED
    BY <2>2, <2>3
<1>5. ASSUME NEW u \in User, Room!Kick(u)
      PROVE  RoomKept' /\ (status # "none" => status' # "none")
  BY <1>5 DEF Room!Kick
<1>6. ASSUME NEW u \in User, Room!Chat(u)
      PROVE  RoomKept' /\ (status # "none" => status' # "none")
  BY <1>6 DEF Room!Chat
<1>7. ASSUME NEW b \in BOOLEAN, Room!SetChat(b)
      PROVE  RoomKept' /\ (status # "none" => status' # "none")
  BY <1>7 DEF Room!SetChat
<1>8. ASSUME NEW u \in User, NEW v \in User, Room!Transfer(u, v, 1)
      PROVE  RoomKept' /\ (status # "none" => status' # "none")
  <2> DEFINE t == [from |-> u, to |-> v, amount |-> 1, status |-> "pending", by |-> NoUser]
  <2>1. t \in Room!TransferRow
    BY DEF Room!TransferRow
  <2>2. transfers' \in Seq(Room!TransferRow)
    BY <1>8, <2>1 DEF Room!Transfer
  <2>3. /\ u # v
        /\ score[u] - 1 \in -MaxOps .. MaxOps
        /\ score[v] + 1 \in -MaxOps .. MaxOps
        /\ score' = [score EXCEPT ![u] = @ - 1, ![v] = @ + 1]
    BY <1>8 DEF Room!Transfer, Room!InRange, Room!Moved
  <2>4. score' \in [User -> -MaxOps .. MaxOps]
    BY <2>3
  <2>5. score' \in [User -> Int]
    BY <2>4
  <2>6. QED
    BY <1>8, <2>2, <2>4, <2>5 DEF Room!Transfer
<1>9. ASSUME NEW i \in DOMAIN transfers, NEW u \in User,
             NEW how \in {"rolled_back", "rejected"}, Room!Resolve(i, u, how)
      PROVE  RoomKept' /\ (status # "none" => status' # "none")
  <2> DEFINE t == transfers[i]
  <2>1. t \in Room!TransferRow
    OBVIOUS
  <2>2. t.from \in User /\ t.to \in User /\ t.amount \in Int
    BY <2>1 DEF Room!TransferRow
  <2>3. Room!Resolved(t, how, u) \in Room!TransferRow
    BY <2>1 DEF Room!Resolved, Room!TransferRow
  <2>4. transfers' \in Seq(Room!TransferRow)
    BY <1>9, <2>3 DEF Room!Resolve
  <2>5. /\ score' = Room!Moved(t.to, t.from, t.amount)
        /\ score'[t.to] \in -MaxOps .. MaxOps
        /\ score'[t.from] \in -MaxOps .. MaxOps
    BY <1>9 DEF Room!Resolve, Room!InRange
  <2>6. score' \in [User -> -MaxOps .. MaxOps]
    BY <2>2, <2>5, MovedInRange
  <2>7. score' \in [User -> Int]
    BY <2>6
  <2>8. QED
    BY <1>9, <2>4, <2>6, <2>7 DEF Room!Resolve
<1>10. QED
  BY <1>2, <1>3, <1>4, <1>5, <1>6, <1>7, <1>8, <1>9 DEF RoomStep
-----------------------------------------------------------------------------
(* Broadcasts.                                                             *)

\* What the hub's invariant says of the variables that matter here.
LEMMA HubFacts ==
    ASSUME HubP!Inv
    PROVE  /\ members \subseteq Client /\ closed \subseteq Client
           /\ members \cap closed = {}
           /\ pending \in [Client -> 0 .. SendCap]
           /\ caster \in [Handler -> HubP!CasterType]
           /\ register # <<>> => Head(register) \in Client \ (members \cup closed)
<1> USE DEF HubP!Inv, HubP!TypeOK
<1>1. caster \in [Handler -> HubP!CasterType]
  BY DEF HubP!CasterType
<1>2. register # <<>> => Head(register) \in Client \ (members \cup closed)
  <2>1. SUFFICES ASSUME register # <<>>
                 PROVE  Head(register) \in Client \ (members \cup closed)
    OBVIOUS
  <2>2. Head(register) = register[1] /\ Head(register) \in Client /\ 1 \in 1 .. Len(register)
    BY <2>1, HubP!TailIsRest
  <2>3. QED
    BY <2>2 DEF HubP!Lifecycle
<1>3. QED
  BY <1>1, <1>2 DEF HubP!MembersAreOpen

\* A broadcast whose map is written keeps its place; it loses the map only
\* when the map is emptied.
LEMMA WriteMapFacts ==
    ASSUME HubP!Inv, NEW new, Hub!WriteMap(new)
    PROVE  /\ members' = new
           /\ \A k \in Handler :
                 /\ caster'[k].at = caster[k].at /\ caster'[k].to = caster[k].to
                 /\ caster'[k].must = caster[k].must /\ caster'[k].done = caster[k].done
                 /\ caster'[k].stale => caster[k].stale \/ new = {}
<1>1. caster \in [Handler -> HubP!CasterType]
  BY HubFacts
<1>2. CASE new = {}
  BY <1>1, <1>2 DEF Hub!WriteMap, HubP!CasterType
<1>3. CASE new # {}
  BY <1>3 DEF Hub!WriteMap
<1>4. QED
  BY <1>2, <1>3 DEF Hub!WriteMap

\* What the hub's goroutine does to the map and to the closed channels: a
\* client it adds is new, one it removes is closed.
LEMMA RunFacts ==
    ASSUME HubP!Inv, Hub!Run
    PROVE  /\ members \cup closed \subseteq members' \cup closed'
           /\ closed \subseteq closed'
           /\ members' \cap (members \cup closed) \subseteq members
           /\ pending' = pending
           /\ \A k \in Handler :
                 /\ caster'[k].at = caster[k].at /\ caster'[k].to = caster[k].to
                 /\ caster'[k].must = caster[k].must /\ caster'[k].done = caster[k].done
                 /\ caster'[k].stale => caster[k].stale \/ members' = {}
<1>1. CASE Hub!AddClient
  <2> DEFINE new == members \cup {Head(register)}
  <2>1. /\ register # <<>> /\ Hub!WriteMap(new)
        /\ UNCHANGED <<pending, closed>>
    BY <1>1 DEF Hub!AddClient
  <2>2. Head(register) \notin members \cup closed
    BY <2>1, HubFacts
  <2>3. members' = new
    BY <2>1, WriteMapFacts
  <2> HIDE DEF new
  <2>4. QED
    BY <2>1, <2>2, <2>3, WriteMapFacts DEF new
<1>2. CASE Hub!RemoveClient
  <2> DEFINE c == Head(unreg)
             new == members \ {c}
  <2>1. CASE c \in members
    <3>1. Hub!WriteMap(new) /\ closed' = closed \cup {c} /\ UNCHANGED pending
      BY <1>2, <2>1 DEF Hub!RemoveClient
    <3>2. members' = new
      BY <3>1, WriteMapFacts
    <3>3. members' \cup closed' = members \cup closed \cup {c}
      BY <3>1, <3>2
    <3> HIDE DEF new
    <3>4. QED
      BY <3>1, <3>2, <3>3, WriteMapFacts DEF new
  <2>2. CASE c \notin members
    <3>1. UNCHANGED <<members, closed, caster, pending>>
      BY <1>2, <2>2 DEF Hub!RemoveClient
    <3>2. QED
      BY <3>1
  <2>3. QED
    BY <2>1, <2>2
<1>3. QED
  BY <1>1, <1>2 DEF Hub!Run

\* A client keeps its place in the hub, and every broadcast its own, when a
\* reader or a writer takes a step.
LEMMA PumpFacts ==
    ASSUME NEW c \in Client, Hub!Pump(c)
    PROVE  UNCHANGED <<members, closed, caster>>
BY DEF Hub!Pump, Hub!Connect, Hub!Register, Hub!ReadFails, Hub!UnregisterReader,
   Hub!WriteEvent, Hub!WriteClose, Hub!PingFails, Hub!StopWriter, Hub!channels, Hub!pumps

\* The steps of a broadcast leave the map alone, and the other broadcasts.
LEMMA CastFacts ==
    ASSUME HubP!Inv, NEW h \in Handler, Hub!Lookup(h) \/ Hub!Cast(h)
    PROVE  /\ UNCHANGED <<members, closed>>
           /\ \A j \in Handler \ {h} : caster'[j] = caster[j]
<1>1. caster \in [Handler -> HubP!CasterType]
  BY HubFacts
<1>2. UNCHANGED <<members, closed>>
  BY DEF Hub!Lookup, Hub!Cast, Hub!Pick, Hub!EndRange, Hub!Send, Hub!UnregisterSlow,
     Hub!channels
<1>3. ASSUME NEW j \in Handler \ {h}
      PROVE  caster'[j] = caster[j]
  BY <1>1 DEF Hub!Lookup, Hub!Cast, Hub!Pick, Hub!EndRange, Hub!Send, Hub!UnregisterSlow,
     Hub!Goto
<1>4. QED
  BY <1>2, <1>3

\* Where a broadcast is after one of its steps.
LEMMA CasterMoves ==
    ASSUME HubP!Inv, NEW h \in Handler
    PROVE  /\ Hub!Lookup(h) =>
                 /\ caster[h].at = "idle" /\ caster'[h].at = "range"
                 /\ caster'[h].must = members /\ caster'[h].done = {}
                 /\ caster'[h].stale = FALSE
                 /\ pending' = pending
           /\ \A c \in Client : Hub!Pick(h, c) =>
                 /\ caster[h].at = "range" /\ caster'[h].at = "send"
                 /\ caster'[h].to = c
                 /\ caster'[h].must = caster[h].must \ {c}
                 /\ caster'[h].done = caster[h].done \cup {c}
                 /\ caster'[h].stale = caster[h].stale
                 /\ pending' = pending
           /\ Hub!EndRange(h) =>
                 /\ caster[h].at = "range" /\ caster'[h].at = "idle"
                 /\ caster[h].stale \/ caster[h].must \cap members = {}
                 /\ pending' = pending
           /\ Hub!UnregisterSlow(h) =>
                 /\ caster[h].at = "unregister" /\ caster'[h].at = "range"
                 /\ caster'[h].must = caster[h].must /\ caster'[h].done = caster[h].done
                 /\ caster'[h].stale = caster[h].stale
                 /\ pending' = pending
           /\ Hub!Send(h) =>
                 /\ caster[h].at = "send" /\ caster[h].to \in Client
                 /\ \/ /\ caster[h].to \in closed /\ caster'[h].at = "idle"
                       /\ pending' = pending
                    \/ /\ caster[h].to \notin closed
                       /\ caster'[h].at \in {"range", "unregister"}
                       /\ caster'[h].must = caster[h].must /\ caster'[h].done = caster[h].done
                       /\ caster'[h].stale = caster[h].stale
                       /\ pending'[caster[h].to] > 0
                       /\ \A c \in Client : pending'[c] >= pending[c]
<1>1. caster \in [Handler -> HubP!CasterType] /\ pending \in [Client -> 0 .. SendCap]
  BY HubFacts
<1>2. Hub!Lookup(h) =>
          /\ caster[h].at = "idle" /\ caster'[h].at = "range"
          /\ caster'[h].must = members /\ caster'[h].done = {}
          /\ caster'[h].stale = FALSE
          /\ pending' = pending
  BY <1>1 DEF Hub!Lookup, Hub!Idle, Hub!channels
<1>3. \A c \in Client : Hub!Pick(h, c) =>
          /\ caster[h].at = "range" /\ caster'[h].at = "send"
          /\ caster'[h].to = c
          /\ caster'[h].must = caster[h].must \ {c}
          /\ caster'[h].done = caster[h].done \cup {c}
          /\ caster'[h].stale = caster[h].stale
          /\ pending' = pending
  BY <1>1 DEF Hub!Pick, Hub!channels, HubP!CasterType
<1>4. Hub!EndRange(h) =>
          /\ caster[h].at = "range" /\ caster'[h].at = "idle"
          /\ caster[h].stale \/ caster[h].must \cap members = {}
          /\ pending' = pending
  BY <1>1 DEF Hub!EndRange, Hub!Idle, Hub!channels
<1>5. Hub!UnregisterSlow(h) =>
          /\ caster[h].at = "unregister" /\ caster'[h].at = "range"
          /\ caster'[h].must = caster[h].must /\ caster'[h].done = caster[h].done
          /\ caster'[h].stale = caster[h].stale
          /\ pending' = pending
  BY <1>1 DEF Hub!UnregisterSlow, Hub!Goto, HubP!CasterType
<1>6. ASSUME Hub!Send(h)
      PROVE  /\ caster[h].at = "send" /\ caster[h].to \in Client
             /\ \/ /\ caster[h].to \in closed /\ caster'[h].at = "idle"
                   /\ pending' = pending
                \/ /\ caster[h].to \notin closed
                   /\ caster'[h].at \in {"range", "unregister"}
                   /\ caster'[h].must = caster[h].must /\ caster'[h].done = caster[h].done
                   /\ caster'[h].stale = caster[h].stale
                   /\ pending'[caster[h].to] > 0
                   /\ \A c \in Client : pending'[c] >= pending[c]
  <2> DEFINE c == caster[h].to
  <2>1. caster[h].at = "send" /\ c \in Client
    BY <1>6 DEF Hub!Send, HubP!Inv, HubP!Aimed
  <2>2. CASE c \in closed /\ caster' = [caster EXCEPT ![h] = Hub!Idle] /\ UNCHANGED pending
    BY <1>1, <2>1, <2>2 DEF Hub!Idle
  <2>3. ASSUME c \notin closed, NEW at \in {"range", "unregister"}, Hub!Goto(h, at),
               \/ pending' = [pending EXCEPT ![c] = @ + 1]
               \/ pending[c] = SendCap /\ UNCHANGED pending
        PROVE  /\ caster'[h].at \in {"range", "unregister"}
               /\ caster'[h].must = caster[h].must /\ caster'[h].done = caster[h].done
               /\ caster'[h].stale = caster[h].stale
               /\ pending'[c] > 0
               /\ \A d \in Client : pending'[d] >= pending[d]
    <3>1. /\ caster'[h].at \in {"range", "unregister"}
          /\ caster'[h].must = caster[h].must /\ caster'[h].done = caster[h].done
          /\ caster'[h].stale = caster[h].stale
      BY <1>1, <2>3 DEF Hub!Goto, HubP!CasterType
    <3> HIDE DEF c
    <3>2. pending'[c] > 0 /\ \A d \in Client : pending'[d] >= pending[d]
      BY <1>1, <2>1, <2>3, ConstantsAssumption
    <3>3. QED
      BY <3>1, <3>2
  <2>4. \/ c \in closed /\ caster' = [caster EXCEPT ![h] = Hub!Idle] /\ UNCHANGED pending
        \/ /\ c \notin closed
           /\ \/ Hub!Goto(h, "range") /\ pending' = [pending EXCEPT ![c] = @ + 1]
              \/ Hub!Goto(h, "unregister") /\ pending[c] = SendCap /\ UNCHANGED pending
    BY <1>6 DEF Hub!Send
  <2>5. QED
    BY <2>1, <2>2, <2>3, <2>4
<1>7. QED
  BY <1>2, <1>3, <1>4, <1>5, <1>6

\* What a broadcast still owes stays as BroadcastKept says.
LEMMA BroadcastsStayKept ==
    ASSUME HubP!Inv, BroadcastKept,
           \/ \E c \in Client : Hub!Pump(c)
           \/ Hub!Run
           \/ \E h \in Handler : Hub!Lookup(h) \/ Hub!Cast(h)
           \/ UNCHANGED hub
    PROVE  BroadcastKept'
<1>1. CASE UNCHANGED <<members, closed, caster>>
  BY <1>1 DEF BroadcastKept
<1>2. CASE Hub!Run
  BY <1>2, RunFacts DEF BroadcastKept
<1>3. ASSUME NEW h \in Handler, Hub!Lookup(h) \/ Hub!Cast(h)
      PROVE  BroadcastKept'
  <2>1. UNCHANGED <<members, closed>> /\ \A j \in Handler \ {h} : caster'[j] = caster[j]
    BY <1>3, CastFacts
  <2>2. caster'[h].at # "idle" =>
            /\ caster'[h].must \subseteq members \cup closed
            /\ caster'[h].must \cap caster'[h].done = {}
            /\ caster'[h].stale => caster'[h].must \subseteq closed
    BY <1>3, CasterMoves DEF BroadcastKept, Hub!Cast
  <2>3. QED
    BY <2>1, <2>2 DEF BroadcastKept
<1>4. QED
  BY <1>1, <1>2, <1>3, PumpFacts DEF hub
-----------------------------------------------------------------------------
(* The clients.                                                            *)

\* A client that takes no step itself, of a room that does not change, keeps
\* up if whatever is under way for it stays under way.
LEMMA BystanderKeepsUp ==
    ASSUME NEW c \in Client, SyncKept(c), UNCHANGED room,
           client'[c] = client[c],
           missed \subseteq missed', silent => silent',
           c \in members' => c \in members \/ ~client[c].synced,
           c \in members' /\ c \notin missed' /\ ~silent' =>
               /\ pending[c] > 0 => Coming(c)'
               /\ \A h \in Handler : Owing(h, c) => Coming(c)'
    PROVE  SyncKept(c)'
<1>1. SUFFICES ASSUME c \in members', client'[c].synced, c \notin missed', ~silent',
                      ~(Coming(c)')
               PROVE  Current(c)'
  BY DEF SyncKept
<1>2. c \in members /\ client[c].synced /\ c \notin missed /\ ~silent
  BY <1>1
<1>3. ~Coming(c)
  BY <1>1 DEF Coming
<1>4. Current(c)
  BY <1>2, <1>3 DEF SyncKept
<1>5. RoomRow' = RoomRow /\ MemberRows' = MemberRows
  BY DEF RoomRow, MemberRows, room
<1>6. QED
  BY <1>4, <1>5 DEF Current, InSync

\* What makes c count as having read the room stays so.
LEMMA StaysSyncedOnce ==
    ASSUME NEW c \in Client, SyncedOnce(c), client'[c].synced => client[c].synced,
           members \cup closed \subseteq members' \cup closed',
           status # "none" => status' # "none"
    PROVE  SyncedOnce(c)'
BY DEF SyncedOnce

\* The rows of the room are of the types that a client stores.
LEMMA RowsTyped ==
    ASSUME RoomKept
    PROVE  RoomRow \in RoomRowType /\ MemberRows \in MembersType
<1>1. RoomRow \in RoomRowType
  BY DEF RoomKept, Room!TypeOK, RoomRow, RoomRowType
<1>2. MemberRows \in [present -> -MaxOps .. MaxOps] /\ present \in SUBSET User
  BY DEF RoomKept, Room!TypeOK, MemberRows
<1>3. MemberRows \in MembersType
  BY <1>2 DEF MembersType
<1>4. QED
  BY <1>1, <1>3
-----------------------------------------------------------------------------
(* Handlers.                                                               *)

\* An operation whose event is owed: everybody is about to hear of it.
LEMMA OwedKeepsInv ==
    ASSUME Inv, NEW h \in Handler, Begin(h), RoomStep,
           owed' \in [Handler -> 0 .. 2], joining' \subseteq Handler,
           h \in joining' \/ owed'[h] > 0, JoinFirst'
    PROVE  Inv'
<1>1. /\ ops < MaxOps /\ ops' = ops + 1 /\ caster[h].at = "idle"
      /\ UNCHANGED <<client, silent, missed>> /\ UNCHANGED hub
  BY DEF Begin, Idle
<1>2. HubP!Inv'
  BY <1>1, HubP!NextKeepsInv, HubConstants DEF Inv, HubP!vars, hub
<1>3. RoomKept' /\ (status # "none" => status' # "none")
  BY RoomStaysKept DEF Inv
<1>4. FeedTypeOK'
  BY <1>1, ConstantsAssumption DEF Inv, FeedTypeOK
<1>5. BroadcastKept'
  BY <1>1, BroadcastsStayKept DEF Inv
<1>6. ASSUME NEW c \in Client
      PROVE  SyncedOnce(c)' /\ SyncKept(c)'
  <2>1. SyncedOnce(c)'
    BY <1>1, <1>3, StaysSyncedOnce DEF Inv, hub
  <2>2. Owing(h, c)'
    BY <1>1 DEF Owing, hub
  <2>3. QED
    BY <2>1, <2>2 DEF SyncKept, Coming
<1>7. QED
  BY <1>2, <1>3, <1>4, <1>5, <1>6 DEF Inv

\* CreateRoom makes a room that nobody has read, and ToggleRoomChat changes
\* nothing that clients read.
LEMMA QuietKeepsInv ==
    ASSUME Inv, NEW h \in Handler, Quiet(h)
    PROVE  Inv'
<1>1. /\ ops < MaxOps /\ ops' = ops + 1
      /\ UNCHANGED <<client, silent, missed, owed, joining>> /\ UNCHANGED hub
  BY DEF Quiet, Begin
<1>2. RoomStep
  BY DEF Quiet, RoomStep
<1>3. HubP!Inv'
  BY <1>1, HubP!NextKeepsInv, HubConstants DEF Inv, HubP!vars, hub
<1>4. RoomKept' /\ (status # "none" => status' # "none")
  BY <1>2, RoomStaysKept DEF Inv
<1>5. FeedTypeOK'
  BY <1>1, ConstantsAssumption DEF Inv, FeedTypeOK
<1>6. BroadcastKept' /\ JoinFirst'
  BY <1>1, BroadcastsStayKept DEF Inv, JoinFirst, hub
<1>7. ASSUME NEW c \in Client
      PROVE  SyncedOnce(c)' /\ SyncKept(c)'
  <2>1. SyncedOnce(c)'
    BY <1>1, <1>4, StaysSyncedOnce DEF Inv, hub
  <2>2. CASE \E u \in User : Room!Create(u)
    <3>1. ~client[c].synced
      BY <2>2 DEF Room!Create, Inv, SyncedOnce
    <3>2. QED
      BY <1>1, <2>1, <3>1 DEF SyncKept
  <2>3. CASE \E b \in BOOLEAN : Room!SetChat(b)
    <3>1. UNCHANGED <<status, owner, present, score>>
      BY <2>3 DEF Room!SetChat
    <3>2. RoomRow' = RoomRow /\ MemberRows' = MemberRows
      BY <3>1 DEF RoomRow, MemberRows
    <3>3. Current(c) => Current(c)'
      BY <1>1, <3>2 DEF Current, InSync
    <3>4. Coming(c) => Coming(c)'
      BY <1>1 DEF Coming, Owing, hub
    <3>5. QED
      BY <1>1, <2>1, <3>3, <3>4 DEF Inv, SyncKept, hub
  <2>4. QED
    BY <2>2, <2>3 DEF Quiet
<1>8. QED
  BY <1>3, <1>4, <1>5, <1>6, <1>7 DEF Inv

\* JoinRoom, LeaveRoom and what is announced by one event.
LEMMA CommitKeepsInv ==
    ASSUME Inv, NEW h \in Handler, Join(h) \/ Leave(h) \/ Announced(h)
    PROVE  Inv'
<1>1. Begin(h)
  BY DEF Join, Leave, Announced
<1>2. RoomStep
  <2>1. CASE Join(h)
    BY <2>1 DEF Join, RoomStep
  <2>2. CASE Leave(h)
    BY <2>2 DEF Leave, RoomStep
  <2>3. CASE Announced(h)
    BY <2>3 DEF Announced, RoomStep
  <2>4. QED
    BY <2>1, <2>2, <2>3
<1>3. /\ owed' \in [Handler -> 0 .. 2] /\ joining' \subseteq Handler
      /\ h \in joining' \/ owed'[h] > 0
  <2>1. owed \in [Handler -> 0 .. 2] /\ joining \subseteq Handler
    BY DEF Inv, FeedTypeOK
  <2>2. QED
    BY <2>1 DEF Join, Leave, Announced, Owe
<1>4. JoinFirst'
  <2>1. /\ owed[h] = 0 /\ h \notin joining /\ caster[h].at = "idle" /\ caster' = caster
        /\ owed \in [Handler -> 0 .. 2] /\ joining \subseteq Handler
    BY <1>1 DEF Begin, Idle, hub, Inv, FeedTypeOK
  <2>2. CASE Join(h)
    BY <2>1, <2>2 DEF Join, Inv, JoinFirst
  <2>3. CASE Leave(h) \/ Announced(h)
    <3>1. joining' = joining /\ \A j \in Handler \ {h} : owed'[j] = owed[j]
      BY <2>1, <2>3 DEF Leave, Announced, Owe
    <3>2. QED
      BY <2>1, <3>1 DEF Inv, JoinFirst
  <2>4. QED
    BY <2>2, <2>3
<1>5. QED
  BY <1>1, <1>2, <1>3, <1>4, OwedKeepsInv

\* JoinRoom either comes to owe its event or gives it up.
LEMMA JoinDetailKeepsInv ==
    ASSUME Inv, NEW h \in Handler, JoinDetail(h)
    PROVE  Inv'
<1>1. /\ h \in joining /\ joining' = joining \ {h}
      /\ \/ owed' = [owed EXCEPT ![h] = 1] /\ UNCHANGED silent
         \/ silent' = TRUE /\ UNCHANGED owed
      /\ UNCHANGED <<ops, client, missed>> /\ UNCHANGED room /\ UNCHANGED hub
  BY DEF JoinDetail
<1>2. HubP!Inv'
  BY <1>1, HubP!NextKeepsInv, HubConstants DEF Inv, HubP!vars, hub
<1>3. RoomKept'
  BY <1>1 DEF Inv, RoomKept, Room!TypeOK, Room!TransferRow, room
<1>4. owed' \in [Handler -> 0 .. 2] /\ silent' \in BOOLEAN /\ joining' \subseteq Handler
  <2>1. owed \in [Handler -> 0 .. 2] /\ silent \in BOOLEAN /\ joining \subseteq Handler
    BY DEF Inv, FeedTypeOK
  <2>2. 1 \in 0 .. 2
    OBVIOUS
  <2>3. owed' \in [Handler -> 0 .. 2]
    BY <1>1, <2>1, <2>2
  <2>4. QED
    BY <1>1, <2>1, <2>3
<1>5. FeedTypeOK' /\ BroadcastKept' /\ JoinFirst'
  <2>1. FeedTypeOK'
    BY <1>1, <1>4 DEF Inv, FeedTypeOK
  <2>2. JoinFirst'
    <3>1. \A j \in joining' : j # h /\ owed'[j] = owed[j] /\ caster'[j] = caster[j]
      BY <1>1 DEF hub, Inv, FeedTypeOK
    <3>2. QED
      BY <1>1, <3>1 DEF Inv, JoinFirst
  <2>3. QED
    BY <1>1, <2>1, <2>2, BroadcastsStayKept DEF Inv
<1>6. ASSUME NEW c \in Client
      PROVE  SyncedOnce(c)' /\ SyncKept(c)'
  <2>1. SyncedOnce(c)'
    BY <1>1, StaysSyncedOnce DEF Inv, hub, room
  <2>2. ASSUME NEW j \in Handler, Owing(j, c), ~silent'
        PROVE  Owing(j, c)'
    <3>1. owed \in [Handler -> 0 .. 2] /\ owed' = [owed EXCEPT ![h] = 1] /\ caster' = caster
      BY <1>1, <2>2 DEF Inv, FeedTypeOK, hub
    <3>2. CASE j = h
      <4>1. owed'[h] = 1
        BY <3>1
      <4>2. caster[h].at = "idle" => Owing(h, c)'
        BY <3>1, <4>1 DEF Owing
      <4>3. QED
        BY <1>1, <3>2, <4>2 DEF Inv, JoinFirst
    <3>3. CASE j # h
      BY <1>1, <2>2, <3>1, <3>3 DEF Owing
    <3>4. QED
      BY <3>2, <3>3
  <2>3. QED
    BY <1>1, <2>1, <2>2, BystanderKeepsUp DEF Inv, Coming, hub
<1>7. QED
  BY <1>2, <1>3, <1>4, <1>5, <1>6 DEF Inv

\* A broadcast begins: it owes the event to everybody in the map.
LEMMA NotifyKeepsInv ==
    ASSUME Inv, alive, NEW h \in Handler, Notify(h)
    PROVE  Inv'
<1>1. /\ owed[h] > 0 /\ caster[h].at = "idle"
      /\ owed' = [owed EXCEPT ![h] = @ - 1]
      /\ UNCHANGED <<ops, joining, client, silent, missed>> /\ UNCHANGED room
      /\ \/ members = {} /\ UNCHANGED hub
         \/ members # {} /\ Hub!Lookup(h)
  BY DEF Notify
<1>2. HubP!Inv' /\ BroadcastKept'
  BY <1>1, HubStaysKept, BroadcastsStayKept DEF Inv
<1>3. RoomKept'
  BY <1>1 DEF Inv, RoomKept, Room!TypeOK, Room!TransferRow, room
<1>4. owed \in [Handler -> 0 .. 2] /\ owed' \in [Handler -> 0 .. 2]
  <2>1. owed \in [Handler -> 0 .. 2]
    BY DEF Inv, FeedTypeOK
  <2>2. owed[h] - 1 \in 0 .. 2
    BY <1>1, <2>1
  <2>3. QED
    BY <1>1, <2>1, <2>2
<1>5. FeedTypeOK'
  BY <1>1, <1>4 DEF Inv, FeedTypeOK
<1>6. UNCHANGED <<members, closed>> /\ \A j \in Handler \ {h} : caster'[j] = caster[j]
  BY <1>1, CastFacts DEF Inv, hub
<1>7. ASSUME NEW c \in Client
      PROVE  SyncedOnce(c)' /\ SyncKept(c)'
  <2>1. SyncedOnce(c)'
    BY <1>1, <1>6, StaysSyncedOnce DEF Inv, room
  <2>2. CASE members = {}
    BY <1>6, <2>1, <2>2 DEF SyncKept
  <2>3. CASE members # {}
    <3>1. /\ caster'[h].at = "range" /\ caster'[h].must = members
          /\ pending' = pending
      BY <1>1, <2>3, CasterMoves DEF Inv
    <3>2. c \in members' => Owing(h, c)'
      BY <1>6, <3>1 DEF Owing
    <3>3. c \in members' => Coming(c)'
      BY <3>2 DEF Coming
    <3>4. QED
      BY <2>1, <3>3 DEF SyncKept
  <2>4. QED
    BY <2>2, <2>3
<1>8. JoinFirst'
  BY <1>1, <1>4, <1>6 DEF Inv, JoinFirst, FeedTypeOK
<1>9. QED
  BY <1>2, <1>3, <1>5, <1>7, <1>8 DEF Inv

\* A broadcast goes on: the client it visits has an event in its channel, and
\* those it leaves out have left the map or are missed.
LEMMA DeliverKeepsInv ==
    ASSUME Inv, alive, NEW h \in Handler, Deliver(h)
    PROVE  Inv'
<1>1. /\ Hub!Cast(h)
      /\ IF Panics(h) THEN /\ owed' = [owed EXCEPT ![h] = 0]
                           /\ missed' = missed \cup (members \ caster[h].done)
                      ELSE UNCHANGED <<owed, missed>>
      /\ UNCHANGED <<ops, joining, client, silent>> /\ UNCHANGED room
  BY DEF Deliver
<1>2. HubP!Inv' /\ BroadcastKept'
  BY <1>1, HubStaysKept, BroadcastsStayKept DEF Inv
<1>3. RoomKept'
  BY <1>1 DEF Inv, RoomKept, Room!TypeOK, Room!TransferRow, room
<1>4. /\ members \subseteq Client /\ members \cap closed = {}
      /\ pending \in [Client -> 0 .. SendCap]
  BY HubFacts DEF Inv
<1>5. FeedTypeOK'
  BY <1>1, <1>4 DEF Inv, FeedTypeOK
<1>6. UNCHANGED <<members, closed>> /\ \A j \in Handler \ {h} : caster'[j] = caster[j]
  BY <1>1, CastFacts DEF Inv
<1>7. caster[h].at # "idle" /\ missed \subseteq missed'
      /\ \A j \in Handler \ {h} : owed'[j] = owed[j]
  BY <1>1, CasterMoves DEF Inv, FeedTypeOK, Hub!Cast
<1>8. ASSUME NEW c \in Client
      PROVE  SyncedOnce(c)' /\ SyncKept(c)'
  <2>1. SyncedOnce(c)'
    BY <1>1, <1>6, StaysSyncedOnce DEF Inv, room
  <2>2. \A j \in Handler \ {h} : Owing(j, c) => Owing(j, c)'
    BY <1>1, <1>6, <1>7 DEF Owing
  <2>3. pending'[c] >= pending[c]
    <3>1. \/ pending' = pending
          \/ \A d \in Client : pending'[d] >= pending[d]
      BY <1>1, CasterMoves DEF Inv, Hub!Cast
    <3>2. QED
      BY <1>4, <3>1
  <2>4. pending[c] > 0 => Coming(c)'
    <3>1. pending[c] \in Int /\ pending'[c] \in Int
      BY <1>2, <1>4 DEF HubP!Inv, HubP!TypeOK
    <3>2. QED
      BY <2>3, <3>1 DEF Coming
  <2>5. ASSUME Owing(h, c), c \in members', c \notin missed'
        PROVE  Coming(c)'
    <3>1. c \in members /\ c \notin closed
      BY <1>4, <1>6, <2>5
    <3>2. \/ h \in joining
          \/ c \in caster[h].must
          \/ caster[h].at = "send" /\ caster[h].to = c
      BY <1>7, <2>5 DEF Owing
    <3>3. CASE h \in joining
      BY <1>1, <3>3 DEF Coming, Owing
    <3>4. CASE c \in caster[h].must
      <4>1. c \notin caster[h].done /\ (caster[h].stale => c \in closed)
        BY <1>7, <3>4 DEF Inv, BroadcastKept
      <4>2. ASSUME NEW d \in Client, Hub!Pick(h, d)
            PROVE  Owing(h, c)'
        <5>1. /\ caster'[h].at = "send" /\ caster'[h].to = d
              /\ caster'[h].must = caster[h].must \ {d}
          BY <4>2, CasterMoves DEF Inv
        <5>2. QED
          BY <3>4, <5>1 DEF Owing
      <4>3. ~Hub!EndRange(h)
        BY <3>1, <3>4, <4>1, CasterMoves DEF Inv
      <4>4. CASE Hub!UnregisterSlow(h)
        <5>1. caster'[h].at = "range" /\ caster'[h].must = caster[h].must
          BY <4>4, CasterMoves DEF Inv
        <5>2. QED
          BY <3>4, <5>1 DEF Coming, Owing
      <4>5. CASE Hub!Send(h)
        <5>1. CASE caster[h].to \in closed
          <6>1. Panics(h)
            BY <4>5, <5>1, CasterMoves DEF Inv, Panics
          <6>2. c \in missed'
            BY <1>1, <3>1, <4>1, <6>1
          <6>3. QED
            BY <2>5, <6>2
        <5>2. CASE caster[h].to \notin closed
          <6>1. caster'[h].at # "idle" /\ caster'[h].must = caster[h].must
            BY <4>5, <5>2, CasterMoves DEF Inv
          <6>2. QED
            BY <3>4, <6>1 DEF Coming, Owing
        <5>3. QED
          BY <5>1, <5>2
      <4>6. QED
        BY <1>1, <4>2, <4>3, <4>4, <4>5 DEF Coming, Hub!Cast
    <3>5. CASE caster[h].at = "send" /\ caster[h].to = c
      <4>1. Hub!Send(h)
        BY <1>1, <3>5, CasterMoves DEF Inv, Hub!Cast
      <4>2. pending'[c] > 0
        BY <3>1, <3>5, <4>1, CasterMoves DEF Inv
      <4>3. QED
        BY <4>2 DEF Coming
    <3>6. QED
      BY <3>2, <3>3, <3>4, <3>5
  <2>6. \A j \in Handler : c \in members' /\ c \notin missed' /\ Owing(j, c) => Coming(c)'
    BY <2>2, <2>5 DEF Coming
  <2>7. QED
    BY <1>1, <1>6, <1>7, <2>1, <2>4, <2>6, BystanderKeepsUp DEF Inv
<1>9. JoinFirst'
  BY <1>1, <1>6, <1>7 DEF Inv, JoinFirst, FeedTypeOK
<1>10. QED
  BY <1>2, <1>3, <1>5, <1>8, <1>9 DEF Inv
-----------------------------------------------------------------------------
(* Connections and clients.                                                *)

\* A client whose channel gets shorter wants to read the room.
LEMMA PumpKeepsInv ==
    ASSUME Inv, alive, NEW c \in Client, Pump(c)
    PROVE  Inv'
<1>1. /\ Hub!Pump(c)
      /\ client' = IF pending'[c] < pending[c] THEN [client EXCEPT ![c].due = TRUE]
                                               ELSE client
      /\ UNCHANGED <<ops, owed, joining, silent, missed>> /\ UNCHANGED room
  BY DEF Pump
<1>2. HubP!Inv' /\ BroadcastKept'
  BY <1>1, HubStaysKept, BroadcastsStayKept DEF Inv
<1>3. RoomKept'
  BY <1>1 DEF Inv, RoomKept, Room!TypeOK, Room!TransferRow, room
<1>4. UNCHANGED <<members, closed, caster>>
  BY <1>1, PumpFacts
<1>5. client \in [Client -> ClientType]
  BY DEF Inv, FeedTypeOK
<1>6. FeedTypeOK' /\ JoinFirst'
  <2>1. [client EXCEPT ![c].due = TRUE] \in [Client -> ClientType]
    BY <1>5 DEF ClientType
  <2>2. client' \in [Client -> ClientType]
    BY <1>1, <1>5, <2>1
  <2>3. QED
    BY <1>1, <1>4, <2>2 DEF Inv, FeedTypeOK, JoinFirst
<1>7. pending \in [Client -> 0 .. SendCap] /\ pending' \in [Client -> 0 .. SendCap]
  BY <1>2, HubFacts DEF Inv, HubP!Inv, HubP!TypeOK
<1>8. \A d \in Client : client'[d].synced = client[d].synced
  BY <1>1, <1>5 DEF ClientType
<1>9. ASSUME NEW d \in Client
      PROVE  SyncedOnce(d)' /\ SyncKept(d)'
  <2>1. SyncedOnce(d)'
    BY <1>1, <1>4, <1>8, StaysSyncedOnce DEF Inv, room
  <2>2. CASE d = c /\ pending'[c] < pending[c]
    <3>1. client'[d].due
      BY <1>1, <1>5, <2>2 DEF ClientType
    <3>2. QED
      BY <2>1, <3>1 DEF SyncKept, Coming
  <2>3. CASE d # c \/ ~(pending'[c] < pending[c])
    <3>1. client'[d] = client[d]
      BY <1>1, <1>5, <2>3
    <3>2. d # c => pending'[d] = pending[d]
      BY <1>1, <1>7 DEF Hub!Pump, Hub!Connect, Hub!Register, Hub!ReadFails,
         Hub!UnregisterReader, Hub!WriteEvent, Hub!WriteClose, Hub!PingFails, Hub!channels
    <3>3. pending[d] > 0 => pending'[d] > 0
      BY <1>7, <2>3, <3>2, ConstantsAssumption
    <3>4. \A h \in Handler : Owing(h, d) => Owing(h, d)'
      BY <1>1, <1>4 DEF Owing
    <3>5. QED
      BY <1>1, <1>4, <2>1, <3>1, <3>3, <3>4, BystanderKeepsUp DEF Inv, Coming
  <2>4. QED
    BY <2>2, <2>3
<1>10. QED
  BY <1>2, <1>3, <1>6, <1>9 DEF Inv

\* The client that the hub adds has not read the room as one of its clients.
LEMMA RunHubKeepsInv ==
    ASSUME Inv, alive, RunHub
    PROVE  Inv'
<1>1. /\ Hub!Run
      /\ UNCHANGED <<ops, owed, joining, client, silent, missed>> /\ UNCHANGED room
  BY DEF RunHub
<1>2. HubP!Inv' /\ BroadcastKept'
  BY <1>1, HubStaysKept, BroadcastsStayKept DEF Inv
<1>3. RoomKept'
  BY <1>1 DEF Inv, RoomKept, Room!TypeOK, Room!TransferRow, room
<1>4. /\ members \cup closed \subseteq members' \cup closed'
      /\ members' \cap (members \cup closed) \subseteq members
      /\ pending' = pending
      /\ \A k \in Handler :
            /\ caster'[k].at = caster[k].at /\ caster'[k].to = caster[k].to
            /\ caster'[k].must = caster[k].must
  BY <1>1, RunFacts DEF Inv
<1>5. FeedTypeOK' /\ JoinFirst'
  BY <1>1, <1>4 DEF Inv, FeedTypeOK, JoinFirst
<1>6. ASSUME NEW c \in Client
      PROVE  SyncedOnce(c)' /\ SyncKept(c)'
  <2>1. SyncedOnce(c)'
    BY <1>1, <1>4, StaysSyncedOnce DEF Inv, room
  <2>2. c \in members' => c \in members \/ ~client[c].synced
    BY <1>4 DEF Inv, SyncedOnce
  <2>3. \A h \in Handler : Owing(h, c) => Owing(h, c)'
    BY <1>1, <1>4 DEF Owing
  <2>4. QED
    BY <1>1, <1>4, <2>1, <2>2, <2>3, BystanderKeepsUp DEF Inv, Coming
<1>7. QED
  BY <1>2, <1>3, <1>5, <1>6 DEF Inv

\* The queries of a client that reads the room.  Between the two what counts
\* is that the first one is not out of date.
LEMMA ReadKeepsInv ==
    ASSUME Inv, NEW c \in Client, ReadRoom(c) \/ ReadMembers(c) \/ ReadFails(c)
    PROVE  Inv'
<1>1. UNCHANGED <<ops, owed, joining, silent, missed>> /\ UNCHANGED <<room, hub>>
  BY DEF ReadRoom, ReadMembers, ReadFails
<1>2. HubP!Inv'
  BY <1>1, HubP!NextKeepsInv, HubConstants DEF Inv, HubP!vars, hub
<1>3. RoomKept' /\ UNCHANGED <<RoomRow, MemberRows>>
  BY <1>1 DEF Inv, RoomKept, Room!TypeOK, Room!TransferRow, room, RoomRow, MemberRows
<1>4. BroadcastKept' /\ JoinFirst'
  BY <1>1, BroadcastsStayKept DEF Inv, JoinFirst, hub
<1>5. client \in [Client -> ClientType] /\ RoomRow \in RoomRowType /\ MemberRows \in MembersType
  BY RowsTyped DEF Inv, FeedTypeOK
<1>6. Unknown \in RoomRowType
  BY DEF Unknown, RoomRowType
<1>7. client' \in [Client -> ClientType]
  <2> HIDE DEF RoomRow, MemberRows, Unknown
  <2>1. CASE ReadRoom(c)
    <3>1. (c \in members) \in BOOLEAN
      OBVIOUS
    <3>2. QED
      BY <1>5, <2>1, <3>1 DEF ReadRoom, ClientType
  <2>2. CASE ReadMembers(c)
    <3> DEFINE r == [client[c] EXCEPT !.at = "idle", !.row = Unknown,
                                      !.room = client[c].row, !.members = MemberRows]
    <3>1. client[c] \in ClientType
      BY <1>5
    <3>2. client[c].row \in RoomRowType
      BY <3>1 DEF ClientType
    <3>3. r \in ClientType
      BY <1>5, <1>6, <3>1, <3>2 DEF ClientType
    <3>4. client' = [client EXCEPT ![c] = r]
      BY <1>5, <2>2 DEF ReadMembers
    <3>5. QED
      BY <1>5, <3>3, <3>4
  <2>3. CASE ReadFails(c)
    <3> DEFINE r == [client[c] EXCEPT !.at = "idle", !.row = Unknown, !.due = TRUE]
    <3>1. client[c] \in ClientType
      BY <1>5
    <3>2. r \in ClientType
      BY <1>6, <3>1 DEF ClientType
    <3>3. client' = [client EXCEPT ![c] = r]
      BY <1>5, <2>3 DEF ReadFails
    <3>4. QED
      BY <1>5, <3>2, <3>3
  <2>4. QED
    BY <2>1, <2>2, <2>3
<1>8. FeedTypeOK'
  BY <1>1, <1>7 DEF Inv, FeedTypeOK
<1>9. \A d \in Client : Coming(d) /\ client'[d].due = client[d].due => Coming(d)'
  BY <1>1 DEF Coming, Owing, hub
<1>10. ASSUME NEW d \in Client, d # c
       PROVE  SyncedOnce(d)' /\ SyncKept(d)'
  <2>1. client'[d] = client[d]
    BY <1>5, <1>10 DEF ReadRoom, ReadMembers, ReadFails
  <2>2. QED
    BY <1>1, <1>3, <1>9, <2>1 DEF Inv, SyncedOnce, SyncKept, Current, InSync, hub, room
<1>11. SyncedOnce(c)' /\ SyncKept(c)'
  <2>1. CASE ReadRoom(c)
    <3>1. /\ client'[c].at = "members" /\ client'[c].row = RoomRow
          /\ client'[c].synced = (c \in members) /\ status # "none"
      BY <1>5, <2>1 DEF ReadRoom, ClientType
    <3>2. QED
      BY <1>1, <1>3, <3>1 DEF SyncedOnce, SyncKept, Current, hub, room
  <2>2. CASE ReadMembers(c)
    <3>1. /\ client[c].at = "members" /\ client'[c].at = "idle"
          /\ client'[c].room = client[c].row /\ client'[c].members = MemberRows
          /\ client'[c].synced = client[c].synced /\ client'[c].due = client[c].due
      BY <1>5, <2>2 DEF ReadMembers, ClientType
    <3>2. Current(c) => Current(c)'
      BY <1>3, <3>1 DEF Current, InSync
    <3>3. QED
      BY <1>1, <1>9, <3>1, <3>2 DEF Inv, SyncedOnce, SyncKept, hub, room
  <2>3. CASE ReadFails(c)
    <3>1. client'[c].due /\ client'[c].synced = client[c].synced
      BY <1>5, <2>3 DEF ReadFails, ClientType
    <3>2. QED
      BY <1>1, <3>1 DEF Inv, SyncedOnce, SyncKept, Coming, hub, room
  <2>4. QED
    BY <2>1, <2>2, <2>3
<1>12. QED
  BY <1>2, <1>3, <1>4, <1>8, <1>10, <1>11 DEF Inv
-----------------------------------------------------------------------------
\* The invariant holds before the room exists and anybody connects.
LEMMA InitIsInv == Init => Inv
<1>1. SUFFICES ASSUME Init PROVE Inv
  OBVIOUS
<1>2. HubP!Inv
  BY <1>1, SameHub, HubConstants, HubP!InitIsInv DEF Init
<1>3. RoomKept
  <2>1. 0 \in -MaxOps .. MaxOps /\ 0 \in Nat /\ 0 \in Int
    BY ConstantsAssumption
  <2>2. score \in [User -> -MaxOps .. MaxOps] /\ status = "none"
    BY <1>1, <2>1 DEF Init, Room!Init
  <2>3. joined \in Seq(User) /\ transfers \in Seq(Room!TransferRow)
    <3>1. \A S : <<>> \in Seq(S)
      OBVIOUS
    <3>2. QED
      BY <1>1, <3>1 DEF Init, Room!Init
  <2>4. score \in [User -> Int] /\ chats \in [User -> Nat] /\ finalScore \in [User -> Int]
    BY <1>1, <2>1 DEF Init, Room!Init
  <2>5. QED
    BY <1>1, <2>2, <2>3, <2>4 DEF Init, Room!Init, RoomKept, Room!TypeOK
<1>4. FeedTypeOK
  <2>1. <<>> \in MembersType
    <3>1. <<>> \in [{} -> -MaxOps .. MaxOps]
      OBVIOUS
    <3>2. QED
      BY <3>1 DEF MembersType
  <2>2. NewClient \in ClientType
    BY <2>1 DEF NewClient, ClientType, Unknown, RoomRowType
  <2>3. client \in [Client -> ClientType]
    BY <1>1, <2>2 DEF Init
  <2>4. owed \in [Handler -> 0 .. 2] /\ ops \in 0 .. MaxOps
    BY <1>1, ConstantsAssumption DEF Init
  <2>5. QED
    BY <1>1, <2>3, <2>4 DEF Init, FeedTypeOK
<1>5. BroadcastKept /\ JoinFirst
  BY <1>1 DEF Init, Hub!Init, Hub!Idle, BroadcastKept, JoinFirst
<1>6. \A c \in Client : ~client[c].synced
  BY <1>1 DEF Init, NewClient
<1>7. QED
  BY <1>2, <1>3, <1>4, <1>5, <1>6 DEF Inv, SyncedOnce, SyncKept

\* Every step keeps the invariant.
LEMMA NextKeepsInv == Inv /\ [Next]_vars => Inv'
<1>1. SUFFICES ASSUME Inv, [Next]_vars PROVE Inv'
  OBVIOUS
<1>2. CASE UNCHANGED vars
  <2>1. UNCHANGED room /\ UNCHANGED hub
        /\ UNCHANGED <<ops, owed, joining, client, silent, missed>>
    BY <1>2 DEF vars
  <2>2. HubP!Inv' /\ BroadcastKept'
    BY <1>1, <2>1, HubP!NextKeepsInv, HubConstants, BroadcastsStayKept DEF Inv, HubP!vars, hub
  <2>3. RoomKept' /\ FeedTypeOK' /\ JoinFirst'
    BY <1>1, <2>1 DEF Inv, RoomKept, Room!TypeOK, Room!TransferRow, FeedTypeOK, JoinFirst,
       room, hub
  <2>4. \A c \in Client : SyncedOnce(c)' /\ SyncKept(c)'
    BY <1>1, <2>1 DEF Inv, SyncedOnce, SyncKept, Current, InSync, RoomRow, MemberRows,
       Coming, Owing, room, hub
  <2>5. QED
    BY <2>2, <2>3, <2>4 DEF Inv
<1>3. ASSUME NEW h \in Handler, Handle(h), alive PROVE Inv'
  BY <1>1, <1>3, QuietKeepsInv, CommitKeepsInv, JoinDetailKeepsInv, NotifyKeepsInv,
     DeliverKeepsInv DEF Handle
<1>4. ASSUME NEW c \in Client, Pump(c) \/ ReadRoom(c) \/ ReadMembers(c) \/ ReadFails(c), alive
      PROVE  Inv'
  BY <1>1, <1>4, PumpKeepsInv, ReadKeepsInv
<1>5. CASE RunHub /\ alive
  BY <1>1, <1>5, RunHubKeepsInv
<1>6. QED
  BY <1>1, <1>2, <1>3, <1>4, <1>5 DEF Next

\* The invariant holds in every behaviour.
LEMMA InvAlways == Spec => []Inv
BY InitIsInv, NextKeepsInv, PTL DEF Spec

\* The room, the hub, the handlers and the clients keep their types, whatever
\* they do at the same time.
THEOREM TypeCorrect == Spec => []TypeOK
<1>1. Inv => TypeOK
  <2>1. SUFFICES ASSUME Inv PROVE TypeOK
    OBVIOUS
  <2>2. Hub!TypeOK
    BY <2>1, SameHub DEF Inv, HubP!Inv
  <2>3. \A c \in Client :
            /\ client[c].due \in BOOLEAN /\ client[c].synced \in BOOLEAN
            /\ client[c].at \in {"idle", "members"}
            /\ client[c].members \in MembersType
    BY <2>1 DEF Inv, FeedTypeOK, ClientType
  <2>4. QED
    BY <2>1, <2>2, <2>3 DEF Inv, RoomKept, FeedTypeOK, TypeOK, MembersType
<1>2. QED
  BY <1>1, InvAlways, PTL

\* Once no event is owed, under way or waiting to be acted on, every client
\* that the hub serves and that no broadcast left out knows the true status,
\* owner, members and scores of the room.
THEOREM ClientsKeepUp == Spec => []UpToDate
<1>1. Inv => UpToDate
  <2>1. SUFFICES ASSUME Inv, NEW c \in Client \ missed, Served(c), AtRest(c), ~silent
                 PROVE  InSync(c)
    BY DEF UpToDate
  <2>2. c \in members /\ client[c].synced
    BY <2>1 DEF Served
  <2>3. ~Coming(c)
    BY <2>1 DEF AtRest, Coming, Owing, Idle
  <2>4. Current(c)
    BY <2>1, <2>2, <2>3 DEF Inv, SyncKept
  <2>5. QED
    BY <2>1, <2>4 DEF AtRest, Current
<1>2. QED
  BY <1>1, InvAlways, PTL
=============================================================================
