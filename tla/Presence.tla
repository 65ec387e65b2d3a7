------------------------------ MODULE Presence ------------------------------
(***************************************************************************)
(* Who is present in the rooms, and the scheduled sweep that removes the   *)
(* members who have stopped sending heartbeats.  The handlers are atomic   *)
(* here (RoomTransactions justifies that); what is broken into steps is    *)
(* CleanupDisconnected, which reads members and rooms first and acts on    *)
(* what it has read afterwards, and which any error ends.                  *)
(***************************************************************************)
EXTENDS Integers, FiniteSets

CONSTANTS Room, User,
          Window  \* disconnectWindow, in ticks

ASSUME ConstantsAssumption == Window \in Nat

VARIABLES status,   \* rooms.status, "none" before the room is created
          in,       \* those whose left_at is null
          online,   \* those whose is_online is true
          age       \* ticks since last_seen_at, counted to Window + 1

VARIABLES sweep,    \* "idle", "rooms" or "leave": where the cleaner is
          todo,     \* the members it has read and not dealt with, with their age
          active    \* the rooms it has read as active

VARIABLE unheard  \* history: who was silent for too long at the last scan, and
                  \* has neither been heard of nor left since

tables  == <<status, in, online, age, unheard>>
cleaner == <<sweep, todo, active>>
vars    == <<status, in, online, age, unheard, sweep, todo, active>>

Member == Room \X User

Older(n) == IF n > Window THEN n ELSE n + 1

Init ==
    /\ status = [r \in Room |-> "none"]
    /\ in = {} /\ online = {}
    /\ age = [m \in Member |-> 0]
    /\ sweep = "idle"
    /\ todo = <<>>
    /\ active = {}
    /\ unheard = {}

\* last_seen_at is set to the present.
Seen(m) ==
    /\ age' = [age EXCEPT ![m] = 0]
    /\ unheard' = unheard \ {m}

\* CreateRoom and JoinRoom: a new row, or the old one revived.
Enter(m) ==
    /\ in' = in \cup {m}
    /\ online' = online \cup {m}
    /\ Seen(m)

\* Nothing happens to a settled room any more.  If the cleaner knows nothing
\* of it either, it makes way for a new one: rooms go on being created.
Unused(r) ==
    \/ status[r] = "none"
    \/ status[r] = "settled" /\ \A m \in DOMAIN todo : m[1] # r

Create(m) ==
    /\ Unused(m[1])
    /\ status' = [status EXCEPT ![m[1]] = "active"]
    /\ Enter(m)
    /\ UNCHANGED cleaner

\* Mutant: a late join does not look at the room's status.
Join_Settled(m) ==
    /\ status[m[1]] # "none"
    /\ Enter(m)
    /\ UNCHANGED status /\ UNCHANGED cleaner

Join(m) ==
    /\ status[m[1]] = "active"
    /\ Enter(m)
    /\ UNCHANGED status /\ UNCHANGED cleaner

\* Mutant: the room gets a status of its own when nobody is left.
Exit_Closed(m) ==
    /\ status[m[1]] = "active"
    /\ m \in in
    /\ in' = in \ {m} /\ online' = online \ {m}
    /\ Seen(m)
    /\ status' = IF \E u \in User : <<m[1], u>> \in in' THEN status
                 ELSE [status EXCEPT ![m[1]] = "closed"]

\* LeaveRoom: the member's row, and the room when nobody is left online in it.
Exit(m) ==
    /\ status[m[1]] = "active"
    /\ m \in in
    /\ in' = in \ {m}
    /\ online' = online \ {m}
    /\ Seen(m)
    /\ status' = IF \E u \in User : <<m[1], u>> \in in' \cap online' THEN status
                 ELSE [status EXCEPT ![m[1]] = "settled"]

Leave(m) == Exit(m) /\ UNCHANGED cleaner

\* Mutant: a heartbeat that does not ask for left_at IS NULL.
Heartbeat_AnyRow(m) ==
    /\ status[m[1]] # "none"
    /\ Seen(m)
    /\ online' = online \cup {m}
    /\ UNCHANGED <<status, in>> /\ UNCHANGED cleaner

\* Heartbeat and UpdateRoomNickname are single UPDATEs of a row with a null
\* left_at; they do not look at the room's status.
Heartbeat(m) ==
    /\ m \in in
    /\ Seen(m)
    /\ online' = online \cup {m}
    /\ UNCHANGED <<status, in>> /\ UNCHANGED cleaner

UpdateNickname(m) ==
    /\ m \in in
    /\ Seen(m)
    /\ UNCHANGED <<status, in, online>> /\ UNCHANGED cleaner

\* Time passes, for the rows and for what the cleaner has read of them.
Tick ==
    /\ age' = [m \in Member |-> Older(age[m])]
    /\ todo' = [m \in DOMAIN todo |-> Older(todo[m])]
    /\ <<age', todo'>> # <<age, todo>>
    /\ UNCHANGED <<status, in, online, unheard, sweep, active>>
-----------------------------------------------------------------------------
(* The sweep.                                                              *)

\* Once a minute: all members who are online.  A scan that fails is none.
Scan ==
    /\ sweep = "idle"
    /\ in \cap online # {}
    /\ todo' = [m \in in \cap online |-> age[m]]
    /\ sweep' = "rooms"
    /\ unheard' = {m \in in \cap online : age[m] > Window}
    /\ UNCHANGED <<active, status, in, online, age>>

\* Then those of their rooms that are active.
ReadRooms ==
    /\ sweep = "rooms"
    /\ active' = {r \in Room : status[r] = "active" /\ \E m \in DOMAIN todo : m[1] = r}
    /\ sweep' = "leave"
    /\ UNCHANGED todo /\ UNCHANGED tables

EndSweep ==
    /\ sweep' = "idle"
    /\ todo' = <<>>
    /\ active' = {}

ReadRoomsFails == sweep = "rooms" /\ EndSweep /\ UNCHANGED tables

Done(m) ==
    /\ todo' = [n \in DOMAIN todo \ {m} |-> todo[n]]
    /\ UNCHANGED <<sweep, active>>

\* Whether LeaveRoom is called for m: by the last_seen_at read in the scan.
Expired(m) == m[1] \in active /\ todo[m] > Window

Skip(m) == ~Expired(m) /\ Done(m) /\ UNCHANGED tables

Remove(m) == Expired(m) /\ Exit(m) /\ Done(m)

\* ROOM_MEMBER_NOT_FOUND is passed over.
Missing(m) ==
    /\ Expired(m)
    /\ status[m[1]] = "active" /\ m \notin in
    /\ Done(m)
    /\ UNCHANGED tables

\* Mutant: an error ends the cleaner and not just its sweep.
Fail_ForEver(m) ==
    /\ Expired(m)
    /\ sweep' = "stopped"
    /\ UNCHANGED <<todo, active>> /\ UNCHANGED tables

\* Mutant: every error is passed over.
Fail_PassedOver(m) == Expired(m) /\ Done(m) /\ UNCHANGED tables

\* Any other error of LeaveRoom ends the sweep: ROOM_SETTLED, or, at any time,
\* a deadlock, a cancelled context or a lost connection.  If it is the answer
\* to COMMIT that is lost, the member has left all the same.
Fail(m) ==
    /\ Expired(m)
    /\ EndSweep
    /\ UNCHANGED tables \/ Exit(m)

Step(m) ==
    /\ sweep = "leave"
    /\ m \in DOMAIN todo
    /\ Skip(m) \/ Remove(m) \/ Missing(m) \/ Fail(m)

Finish == sweep = "leave" /\ DOMAIN todo = {} /\ EndSweep /\ UNCHANGED tables

Cleanup ==
    \/ Scan \/ ReadRooms \/ ReadRoomsFails
    \/ \E m \in Member : Step(m)
    \/ Finish

\* The process ends in the middle of a sweep; the next one begins another.
Restart == sweep # "idle" /\ EndSweep /\ UNCHANGED tables

Next ==
    \/ \E m \in Member : Create(m) \/ Join(m) \/ Leave(m) \/ Heartbeat(m) \/ UpdateNickname(m)
    \/ Tick
    \/ Cleanup
    \/ Restart

Spec == Init /\ [][Next]_vars

\* The cleaner's goroutine goes on and its ticker ticks; clients need not.
FairSpec == Spec /\ WF_vars(Cleanup)
-----------------------------------------------------------------------------
(* Properties.                                                             *)

\* The tables and the cleaner's local state keep their types.
TypeOK ==
    /\ status \in [Room -> {"none", "active", "settled"}]
    /\ in \subseteq Member /\ online \subseteq Member
    /\ age \in [Member -> 0 .. Window + 1]
    /\ sweep \in {"idle", "rooms", "leave"}
    /\ DOMAIN todo \subseteq Member
    /\ \A m \in DOMAIN todo : todo[m] \in 0 .. Window + 1
    /\ active \subseteq Room
    /\ unheard \subseteq Member

\* left_at and is_online always agree, so that the owner's handover and the
\* settlement, which look at both, and the rest of the program, which looks at
\* left_at alone, mean the same members.
OnlineIffPresent == in = online

\* A sweep that acts on an old reading of members and rooms never settles a
\* room with somebody in it and never leaves an active one empty.
ActiveIffInhabited ==
    \A r \in Room : status[r] = "active" <=> \E u \in User : <<r, u>> \in in

\* A sweep overlooks nobody, however the tables change under it: a member who
\* was silent for too long at its scan, and has neither left nor been heard of
\* since, is on its list until LeaveRoom has been called.  So a sweep that gets
\* to its end, instead of being ended by an error, leaves no such member behind.
NobodyIsOverlooked == sweep # "idle" => unheard \subseteq DOMAIN todo

\* A sweep is ended by an error or with the process.
CutOff ==
    \/ ReadRoomsFails \/ Restart
    \/ \E m \in DOMAIN todo : sweep = "leave" /\ Fail(m)

\* If sweeps are cut off again and again, others get to their end in between.
SweepsGetThrough == []<><<CutOff>>_vars => []<><<Finish>>_vars

\* If sweeps get through, a member who stays silent is removed by one at last,
\* however many are cut off in between, by the rooms that are settled under
\* them or otherwise.
SilentMemberLeaves ==
    SweepsGetThrough =>
        \A m \in Member : m \in in /\ age[m] > Window ~> m \notin in \/ age[m] <= Window
=============================================================================
