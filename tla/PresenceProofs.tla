--------------------------- MODULE PresenceProofs ---------------------------
(***************************************************************************)
(* Proofs about Presence, for any rooms and users and any window.          *)
(*                                                                         *)
(* OnlineIffPresent and ActiveIffInhabited need nothing but types: that a  *)
(* sweep acts on an old reading does no harm to the tables, because the    *)
(* one thing it does to them is LeaveRoom (Exit), which looks at the       *)
(* present rows.  That the sweep overlooks nobody needs ListKept: whoever  *)
(* counts is on the list with the age for which LeaveRoom is called, and   *)
(* in a room that was read as active, because it is inhabited.             *)
(***************************************************************************)
EXTENDS Presence, TLAPS

\* Who has been silent since the scan is in the room, on the list with a last
\* sign of life that is too long ago and, once the rooms are read, in one that
\* was active.
ListKept ==
    /\ sweep # "idle" =>
          \A m \in unheard : m \in in /\ m \in DOMAIN todo /\ todo[m] > Window
    /\ sweep = "leave" => \A m \in unheard : m[1] \in active

Inv == TypeOK /\ OnlineIffPresent /\ ActiveIffInhabited /\ ListKept

\* The part of TypeOK that is about the tables, and the part that is about the
\* cleaner.
TablesTypeOK ==
    /\ status \in [Room -> {"none", "active", "settled"}]
    /\ in \subseteq Member /\ online \subseteq Member
    /\ age \in [Member -> 0 .. Window + 1]
    /\ unheard \subseteq Member

CleanerTypeOK ==
    /\ sweep \in {"idle", "rooms", "leave"}
    /\ DOMAIN todo \subseteq Member
    /\ \A m \in DOMAIN todo : todo[m] \in 0 .. Window + 1
    /\ active \subseteq Room

\* The two parts make up TypeOK.
LEMMA TypeOKParts == TypeOK <=> TablesTypeOK /\ CleanerTypeOK
BY DEF TypeOK, TablesTypeOK, CleanerTypeOK

\* Ages stay in their range.
LEMMA OlderType == \A n \in 0 .. Window + 1 : Older(n) \in 0 .. Window + 1
BY ConstantsAssumption DEF Older

\* A row that has just been touched has an age in the range.
LEMMA ZeroIsAnAge == 0 \in 0 .. Window + 1
BY ConstantsAssumption

\* A step that leaves the tables alone keeps what is said about them.
LEMMA TablesKept ==
    ASSUME Inv, UNCHANGED tables, CleanerTypeOK', ListKept'
    PROVE  Inv'
BY TypeOKParts DEF Inv, tables, TablesTypeOK, OnlineIffPresent, ActiveIffInhabited,
   TypeOK, CleanerTypeOK

\* The list is about those who are in the rooms and have not been heard of.
LEMMA ListStays ==
    ASSUME Inv, UNCHANGED cleaner, unheard' \subseteq unheard, unheard' \subseteq in'
    PROVE  ListKept'
BY DEF Inv, ListKept, cleaner
-----------------------------------------------------------------------------
(* The handlers.                                                           *)

\* Whoever enters is in the room and online, and the room is inhabited.
LEMMA EnterKeepsInv ==
    ASSUME Inv, NEW m \in Member, Enter(m), UNCHANGED cleaner,
           status' = [status EXCEPT ![m[1]] = "active"]
    PROVE  Inv'
<1>1. m[1] \in Room /\ m = <<m[1], m[2]>> /\ m[2] \in User
  BY DEF Member
<1>2. /\ in' = in \cup {m} /\ online' = online \cup {m}
      /\ age' = [age EXCEPT ![m] = 0] /\ unheard' = unheard \ {m}
  BY DEF Enter, Seen
<1>3. TablesTypeOK' /\ CleanerTypeOK'
  BY <1>1, <1>2, ZeroIsAnAge DEF Inv, TypeOK, TablesTypeOK, CleanerTypeOK, cleaner
<1>4. OnlineIffPresent'
  BY <1>2 DEF Inv, OnlineIffPresent
<1>5. ActiveIffInhabited'
  <2>1. SUFFICES ASSUME NEW r \in Room
                 PROVE  status'[r] = "active" <=> \E u \in User : <<r, u>> \in in'
    BY DEF ActiveIffInhabited
  <2>2. CASE r = m[1]
    BY <1>1, <1>2, <2>2 DEF Inv, TypeOK
  <2>3. CASE r # m[1]
    <3>1. status'[r] = status[r]
      BY <2>3 DEF Inv, TypeOK
    <3>2. \A u \in User : <<r, u>> \in in' <=> <<r, u>> \in in
      BY <1>1, <1>2, <2>3
    <3>3. QED
      BY <3>1, <3>2 DEF Inv, ActiveIffInhabited
  <2>4. QED
    BY <2>2, <2>3
<1>6. ListKept'
  <2>1. CASE sweep = "idle"
    BY <2>1 DEF ListKept, cleaner
  <2>2. CASE sweep # "idle"
    <3>1. unheard' \subseteq in'
      BY <1>2, <2>2 DEF Inv, ListKept
    <3>2. QED
      BY <1>2, <3>1, ListStays
  <2>3. QED
    BY <2>1, <2>2
<1>7. QED
  BY <1>3, <1>4, <1>5, <1>6 DEF Inv, TypeOK, TablesTypeOK, CleanerTypeOK

\* The creator of a room is its first member.
LEMMA CreateKeepsInv == ASSUME Inv, NEW m \in Member, Create(m) PROVE Inv'
BY EnterKeepsInv DEF Create

\* A join finds the room active, so that it stays so.
LEMMA JoinKeepsInv == ASSUME Inv, NEW m \in Member, Join(m) PROVE Inv'
<1>1. status' = [status EXCEPT ![m[1]] = "active"]
  BY DEF Join, Inv, TypeOK, Member
<1>2. QED
  BY <1>1, EnterKeepsInv DEF Join

\* The last one who leaves settles the room; LeaveRoom counts those who are
\* online, which are those who are present.
LEMMA ExitKeepsInv ==
    ASSUME Inv, NEW m \in Member, Exit(m), CleanerTypeOK', ListKept'
    PROVE  Inv'
<1>1. m[1] \in Room /\ m = <<m[1], m[2]>> /\ m[2] \in User
  BY DEF Member
<1>2. /\ status[m[1]] = "active"
      /\ in' = in \ {m} /\ online' = online \ {m}
      /\ age' = [age EXCEPT ![m] = 0] /\ unheard' = unheard \ {m}
      /\ status' = IF \E u \in User : <<m[1], u>> \in in' \cap online' THEN status
                   ELSE [status EXCEPT ![m[1]] = "settled"]
  BY DEF Exit, Seen
<1>3. TablesTypeOK'
  BY <1>1, <1>2, ZeroIsAnAge DEF Inv, TypeOK, TablesTypeOK
<1>4. OnlineIffPresent'
  BY <1>2 DEF Inv, OnlineIffPresent
<1>5. ActiveIffInhabited'
  <2>1. SUFFICES ASSUME NEW r \in Room
                 PROVE  status'[r] = "active" <=> \E u \in User : <<r, u>> \in in'
    BY DEF ActiveIffInhabited
  <2>2. CASE r = m[1]
    <3>1. in' \cap online' = in'
      BY <1>4 DEF OnlineIffPresent
    <3>2. QED
      BY <1>1, <1>2, <2>2, <3>1 DEF Inv, TypeOK
  <2>3. CASE r # m[1]
    <3>1. status'[r] = status[r]
      BY <1>2, <2>3 DEF Inv, TypeOK
    <3>2. \A u \in User : <<r, u>> \in in' <=> <<r, u>> \in in
      BY <1>1, <1>2, <2>3
    <3>3. QED
      BY <3>1, <3>2 DEF Inv, ActiveIffInhabited
  <2>4. QED
    BY <2>2, <2>3
<1>6. QED
  BY <1>3, <1>4, <1>5 DEF Inv, TypeOK, TablesTypeOK, CleanerTypeOK

\* LeaveRoom, called by a member.
LEMMA LeaveKeepsInv == ASSUME Inv, NEW m \in Member, Leave(m) PROVE Inv'
<1>1. CleanerTypeOK' /\ UNCHANGED cleaner /\ Exit(m)
  BY DEF Leave, cleaner, Inv, TypeOK, CleanerTypeOK
<1>2. ListKept'
  <2>1. unheard' = unheard \ {m} /\ in' = in \ {m}
    BY <1>1 DEF Exit, Seen
  <2>2. CASE sweep = "idle"
    BY <1>1, <2>2 DEF ListKept, cleaner
  <2>3. CASE sweep # "idle"
    <3>1. unheard' \subseteq in'
      BY <2>1, <2>3 DEF Inv, ListKept
    <3>2. QED
      BY <1>1, <2>1, <3>1, ListStays
  <2>4. QED
    BY <2>2, <2>3
<1>3. QED
  BY <1>1, <1>2, ExitKeepsInv

\* A heartbeat puts nobody online who is not in the room.
LEMMA HeartbeatKeepsInv ==
    ASSUME Inv, NEW m \in Member, Heartbeat(m) \/ UpdateNickname(m)
    PROVE  Inv'
<1>1. /\ m \in in /\ age' = [age EXCEPT ![m] = 0] /\ unheard' = unheard \ {m}
      /\ online' \in {online, online \cup {m}}
      /\ UNCHANGED <<status, in>> /\ UNCHANGED cleaner
  BY DEF Heartbeat, UpdateNickname, Seen
<1>2. TypeOK'
  BY <1>1, ZeroIsAnAge DEF Inv, TypeOK, cleaner
<1>3. OnlineIffPresent' /\ ActiveIffInhabited'
  BY <1>1 DEF Inv, OnlineIffPresent, ActiveIffInhabited
<1>4. ListKept'
  BY <1>1 DEF Inv, ListKept, cleaner
<1>5. QED
  BY <1>2, <1>3, <1>4 DEF Inv

\* The passing of time keeps the invariant.
LEMMA TickKeepsInv == ASSUME Inv, Tick PROVE Inv'
<1>1. TypeOK'
  BY OlderType DEF Inv, TypeOK, Tick
<1>2. OnlineIffPresent' /\ ActiveIffInhabited'
  BY DEF Inv, Tick, OnlineIffPresent, ActiveIffInhabited
<1>3. ListKept'
  <2>1. \A n \in 0 .. Window + 1 : n > Window => Older(n) > Window
    BY ConstantsAssumption DEF Older
  <2>2. /\ todo' = [m \in DOMAIN todo |-> Older(todo[m])]
        /\ UNCHANGED <<in, unheard, sweep, active>>
    BY DEF Tick
  <2>3. \A m \in DOMAIN todo : todo[m] \in 0 .. Window + 1
    BY DEF Inv, TypeOK
  <2>4. QED
    BY <2>1, <2>2, <2>3 DEF Inv, ListKept
<1>4. QED
  BY <1>1, <1>2, <1>3 DEF Inv
-----------------------------------------------------------------------------
(* The sweep.                                                              *)

\* Where no sweep is under way there is no list.
LEMMA EndKeepsList ==
    ASSUME EndSweep
    PROVE  CleanerTypeOK' /\ ListKept'
BY DEF EndSweep, CleanerTypeOK, ListKept

\* A member is taken off the list who has not been silent since the scan, or no
\* longer counts.
LEMMA DoneKeepsList ==
    ASSUME Inv, NEW m \in Member, sweep = "leave", Done(m),
           unheard' \subseteq unheard \ {m}, unheard' \subseteq in'
    PROVE  CleanerTypeOK' /\ ListKept'
<1>1. /\ todo' = [n \in DOMAIN todo \ {m} |-> todo[n]]
      /\ sweep' = sweep /\ active' = active
  BY DEF Done
<1>2. CleanerTypeOK'
  BY <1>1 DEF Inv, TypeOK, CleanerTypeOK
<1>3. ASSUME NEW n \in unheard'
      PROVE  n \in in' /\ n \in DOMAIN todo' /\ todo'[n] > Window /\ n[1] \in active'
  <2>1. n \in unheard /\ n # m /\ n \in in'
    BY <1>3
  <2>2. n \in DOMAIN todo /\ todo[n] > Window /\ n[1] \in active
    BY <2>1 DEF Inv, ListKept
  <2>3. QED
    BY <1>1, <2>1, <2>2
<1>4. QED
  BY <1>2, <1>3 DEF ListKept

\* What the cleaner does about one member it has read.
LEMMA StepOfSweepKeepsInv ==
    ASSUME Inv, NEW m \in Member, Step(m)
    PROVE  Inv'
<1>1. /\ sweep = "leave" /\ m \in DOMAIN todo
      /\ \A n \in unheard : n \in in /\ todo[n] > Window /\ n[1] \in active
  BY DEF Step, Inv, ListKept
<1>2. CASE Skip(m) \/ Missing(m)
  <2>1. m \notin unheard
    BY <1>1, <1>2 DEF Skip, Missing, Expired
  <2>2. Done(m) /\ UNCHANGED tables
    BY <1>2 DEF Skip, Missing
  <2>3. unheard' \subseteq unheard \ {m} /\ unheard' \subseteq in'
    BY <1>1, <2>1, <2>2 DEF tables
  <2>4. QED
    BY <1>1, <2>2, <2>3, DoneKeepsList, TablesKept
<1>3. CASE Remove(m)
  <2>1. Done(m) /\ Exit(m)
    BY <1>3 DEF Remove
  <2>2. unheard' = unheard \ {m} /\ in' = in \ {m}
    BY <2>1 DEF Exit, Seen
  <2>3. QED
    BY <1>1, <2>1, <2>2, DoneKeepsList, ExitKeepsInv
<1>4. CASE Fail(m)
  BY <1>4, EndKeepsList, TablesKept, ExitKeepsInv DEF Fail
<1>5. QED
  BY <1>2, <1>3, <1>4 DEF Step

\* The scan lists, among others, those who have been silent for too long.
LEMMA ScanKeepsInv == ASSUME Inv, Scan PROVE Inv'
<1>1. /\ todo' = [m \in in \cap online |-> age[m]] /\ sweep' = "rooms"
      /\ unheard' = {m \in in \cap online : age[m] > Window}
      /\ UNCHANGED <<active, status, in, online, age>>
  BY DEF Scan
<1>2. TypeOK'
  BY <1>1 DEF Inv, TypeOK
<1>3. OnlineIffPresent' /\ ActiveIffInhabited'
  BY <1>1 DEF Inv, OnlineIffPresent, ActiveIffInhabited
<1>4. ListKept'
  BY <1>1 DEF ListKept
<1>5. QED
  BY <1>2, <1>3, <1>4 DEF Inv

\* A room with somebody in it is read as active.
LEMMA ReadRoomsKeepsInv == ASSUME Inv, ReadRooms PROVE Inv'
<1>1. /\ sweep = "rooms" /\ sweep' = "leave" /\ todo' = todo /\ UNCHANGED tables
      /\ active' = {r \in Room : status[r] = "active" /\ \E m \in DOMAIN todo : m[1] = r}
  BY DEF ReadRooms
<1>2. CleanerTypeOK'
  BY <1>1 DEF Inv, TypeOK, CleanerTypeOK
<1>3. ASSUME NEW m \in unheard
      PROVE  m \in in /\ m \in DOMAIN todo /\ todo[m] > Window /\ m[1] \in active'
  <2>1. m \in in /\ m \in DOMAIN todo /\ todo[m] > Window
    BY <1>1, <1>3 DEF Inv, ListKept
  <2>2. m[1] \in Room /\ m[2] \in User /\ m = <<m[1], m[2]>>
    BY <1>3 DEF Inv, TypeOK, Member
  <2>3. status[m[1]] = "active"
    BY <2>1, <2>2 DEF Inv, ActiveIffInhabited
  <2>4. QED
    BY <1>1, <2>1, <2>2, <2>3
<1>4. ListKept'
  BY <1>1, <1>3 DEF ListKept, tables
<1>5. QED
  BY <1>1, <1>2, <1>4, TablesKept

\* Every step of the cleaner keeps the invariant, and so does its end.
LEMMA CleanupKeepsInv == ASSUME Inv, Cleanup \/ Restart PROVE Inv'
<1>1. CASE Finish \/ ReadRoomsFails \/ Restart
  BY <1>1, EndKeepsList, TablesKept DEF Finish, ReadRoomsFails, Restart
<1>2. QED
  BY <1>1, ScanKeepsInv, ReadRoomsKeepsInv, StepOfSweepKeepsInv DEF Cleanup
-----------------------------------------------------------------------------
\* The invariant holds before any room is created.
LEMMA InitIsInv == Init => Inv
BY ZeroIsAnAge DEF Init, Inv, TypeOK, OnlineIffPresent, ActiveIffInhabited, ListKept

\* Every step keeps the invariant.
LEMMA NextKeepsInv == Inv /\ [Next]_vars => Inv'
<1>1. SUFFICES ASSUME Inv, [Next]_vars PROVE Inv'
  OBVIOUS
<1>2. CASE UNCHANGED vars
  BY <1>1, <1>2 DEF vars, Inv, TypeOK, OnlineIffPresent, ActiveIffInhabited, ListKept
<1>3. CASE Next
  BY <1>1, <1>3, CreateKeepsInv, JoinKeepsInv, LeaveKeepsInv, HeartbeatKeepsInv,
     TickKeepsInv, CleanupKeepsInv DEF Next
<1>4. QED
  BY <1>1, <1>2, <1>3

\* The invariant holds in every behaviour.
LEMMA InvAlways == Spec => []Inv
BY InitIsInv, NextKeepsInv, PTL DEF Spec

\* The tables and the cleaner's state keep their types in every behaviour.
THEOREM TypeCorrect == Spec => []TypeOK
<1>1. Inv => TypeOK
  BY DEF Inv
<1>2. QED
  BY <1>1, InvAlways, PTL

\* left_at and is_online always agree, for any number of rooms and members.
THEOREM OnlineAlwaysPresent == Spec => []OnlineIffPresent
<1>1. Inv => OnlineIffPresent
  BY DEF Inv
<1>2. QED
  BY <1>1, InvAlways, PTL

\* Exactly the inhabited rooms are active, however handlers and sweeps mix.
THEOREM ActiveAlwaysInhabited == Spec => []ActiveIffInhabited
<1>1. Inv => ActiveIffInhabited
  BY DEF Inv
<1>2. QED
  BY <1>1, InvAlways, PTL

\* A sweep overlooks nobody who was silent for too long at its scan and has not
\* been heard of since, however many rooms and members there are and whatever
\* they do meanwhile: what is left of such members at any time is on its list.
THEOREM SilentAreNotOverlooked == Spec => []NobodyIsOverlooked
<1>1. Inv => NobodyIsOverlooked
  BY DEF Inv, ListKept, NobodyIsOverlooked
<1>2. QED
  BY <1>1, InvAlways, PTL
=============================================================================
