------------------------------ MODULE Messages ------------------------------
(***************************************************************************)
(* The messages of one room: the three limits that SendMessage sets for a  *)
(* sender, against the application's clock and under concurrent inserts,   *)
(* and a client that reads the history page by page with ListMessages.     *)
(*                                                                         *)
(* A message's created_at is the application's time before the INSERT, its *)
(* id is drawn by the INSERT, and others see it only after the commit: the *)
(* three orders need not agree.  The room is active and its chat enabled   *)
(* here; how SendMessage learns that, and its lock on the rooms row, are   *)
(* in RoomTransactions.                                                    *)
(***************************************************************************)
EXTENDS Integers, Sequences, FiniteSetsExt, RowLocks

CONSTANTS User, NoUser, Proc,
          Second,       \* the least time between two chats of one sender
          Minute,       \* the span for which the sender's chats are counted
          MinuteLimit,  \* how many of them it may hold
          RunLimit,     \* how many chats in a row one sender may send
          PageSize,     \* the LIMIT of ListMessages
          MaxTime,      \* bound: how far the clock goes
          MaxMessages   \* bound: messages ever inserted

ASSUME ConstantsAssumption ==
    /\ NoUser \notin User
    /\ Second \in Nat /\ Minute \in Nat
    /\ MinuteLimit \in Nat \ {0} /\ RunLimit \in Nat \ {0}
    /\ PageSize \in Nat \ {0}
    /\ MaxTime \in Nat /\ MaxMessages \in Nat

VARIABLES now,    \* the application's clock
          log,    \* room_messages: the row with id i is log[i]
          held,   \* row locks
          pc,     \* the next statement of each handler
          who,    \* the sender it serves; NoUser for a message of the system
          stamp,  \* the created_at it has taken
          row,    \* the id of the row it has inserted, or 0
          page    \* the client that reads the history

vars == <<now, log, held, pc, who, stamp, row, page>>

MemberRow(u) == <<"member", u>>

\* What a transaction's statement sees: committed rows.
Visible == {i \in DOMAIN log : log[i].state = "committed"}

Chats       == {i \in Visible : log[i].sender # NoUser}
ChatsOf(u)  == {i \in Visible : log[i].sender = u}

\* Reading the history: `got' are the ids read so far, `cursor' the least of
\* them, `due' those that were visible when the first page was read.
Unread == [at |-> "first", cursor |-> 0, got |-> {}, due |-> {}]

Init ==
    /\ now = 0
    /\ log = <<>>
    /\ held = [p \in Proc |-> {}]
    /\ pc = [p \in Proc |-> "idle"]
    /\ who = [p \in Proc |-> NoUser]
    /\ stamp = [p \in Proc |-> 0]
    /\ row = [p \in Proc |-> 0]
    /\ page = Unread
-----------------------------------------------------------------------------
(* SendMessage.                                                            *)

Goto(p, at) == pc' = [pc EXCEPT ![p] = at]

Busy == {p \in Proc : pc[p] \notin {"idle", "commit"}}

StartChat(p, u) ==
    /\ pc[p] = "idle"
    /\ Len(log) + Cardinality(Busy) < MaxMessages
    /\ who' = [who EXCEPT ![p] = u]
    /\ Goto(p, "member")
    /\ UNCHANGED <<now, log, held, stamp, row, page>>

\* Mutant: a message of the system passes the checks of a chat.
StartSystem_AsChat(p) ==
    /\ pc[p] = "idle"
    /\ Len(log) + Cardinality(Busy) < MaxMessages
    /\ Goto(p, "member")
    /\ UNCHANGED <<now, log, held, who, stamp, row, page>>

\* Any other handler that writes a message; its own locks are left out.
StartSystem(p) ==
    /\ pc[p] = "idle"
    /\ Len(log) + Cardinality(Busy) < MaxMessages
    /\ Goto(p, "stamp")
    /\ UNCHANGED <<now, log, held, who, stamp, row, page>>

\* The transaction ends: its row becomes visible, or never will.
Finish(p, state) ==
    /\ log' = [i \in DOMAIN log |-> IF i = row[p] THEN [log[i] EXCEPT !.state = state]
                                                  ELSE log[i]]
    /\ held' = [held EXCEPT ![p] = {}]
    /\ who' = [who EXCEPT ![p] = NoUser]
    /\ stamp' = [stamp EXCEPT ![p] = 0]
    /\ row' = [row EXCEPT ![p] = 0]
    /\ Goto(p, "idle")
    /\ UNCHANGED <<now, page>>

\* A limit is exceeded, the sender is not in the room, or the request's
\* context is cancelled: the transaction is rolled back.
Refuse(p) == pc[p] # "idle" /\ Finish(p, "void")

\* A check of the handler's passes, or it refuses.
Check(p, passes, next) ==
    \/ passes /\ Goto(p, next) /\ UNCHANGED <<now, log, held, who, stamp, row, page>>
    \/ ~passes /\ Refuse(p)

\* Mutant: the member row is read without FOR UPDATE.
LockMember_Unlocked(p) ==
    /\ pc[p] = "member"
    /\ Goto(p, "last")
    /\ UNCHANGED <<now, log, held, who, stamp, row, page>>

LockMember(p) ==
    LET l == ForUpdate(MemberRow(who[p]))
    IN  /\ pc[p] = "member"
        /\ Holders(held, p, l) = {}
        /\ held' = [held EXCEPT ![p] = {l}]
        /\ Goto(p, "last")
        /\ UNCHANGED <<now, log, who, stamp, row, page>>

\* No chat of the sender's is younger than a second.
CheckLast(p) ==
    /\ pc[p] = "last"
    /\ Check(p, \A i \in ChatsOf(who[p]) : now - log[i].at >= Second, "minute")

\* Mutant: one chat too many is let through.
CheckMinute_OneMore(p) ==
    /\ pc[p] = "minute"
    /\ Check(p, Cardinality({i \in ChatsOf(who[p]) : log[i].at >= now - Minute}) <= MinuteLimit,
             "run")

CheckMinute(p) ==
    /\ pc[p] = "minute"
    /\ Check(p, Cardinality({i \in ChatsOf(who[p]) : log[i].at >= now - Minute}) < MinuteLimit,
             "run")

\* Mutant: a message of the system ends a run.
Latest_AnyType(S) ==
    /\ S \subseteq Visible
    /\ \/ Cardinality(S) = RunLimit
       \/ S = Visible /\ Cardinality(S) < RunLimit
    /\ \A i \in S, j \in Visible \ S : log[i].at >= log[j].at

\* S are the RunLimit latest chats; those of the same time come in any order.
Latest(S) ==
    /\ S \subseteq Chats
    /\ \/ Cardinality(S) = RunLimit
       \/ S = Chats /\ Cardinality(S) < RunLimit
    /\ \A i \in S, j \in Chats \ S : log[i].at >= log[j].at

\* The latest chats are not all the sender's.
CheckRun(p) ==
    /\ pc[p] = "run"
    /\ \E S \in SUBSET DOMAIN log :
          /\ Latest(S)
          /\ Check(p, Cardinality(S \cap ChatsOf(who[p])) < RunLimit, "stamp")

\* time.Now(), for created_at.
Stamp(p) ==
    /\ pc[p] = "stamp"
    /\ stamp' = [stamp EXCEPT ![p] = now]
    /\ Goto(p, "insert")
    /\ UNCHANGED <<now, log, held, who, row, page>>

\* The INSERT draws the next id, which a rollback does not give back.
Insert(p) ==
    /\ pc[p] = "insert"
    /\ log' = Append(log, [sender |-> who[p], at |-> stamp[p], state |-> "open"])
    /\ row' = [row EXCEPT ![p] = Len(log')]
    /\ Goto(p, "commit")
    /\ UNCHANGED <<now, held, who, stamp, page>>

Commit(p) == pc[p] = "commit" /\ Finish(p, "committed")

SendMessage(p) ==
    \/ LockMember(p) \/ CheckLast(p) \/ CheckMinute(p) \/ CheckRun(p)
    \/ Stamp(p) \/ Insert(p) \/ Commit(p)
-----------------------------------------------------------------------------
(* ListMessages, by a client that reads on with the last id of each page   *)
(* until a page is empty, and may then start again.                        *)

Before(cursor) == {i \in Visible : cursor > 0 => i < cursor}

\* Mutant: the page is ordered by created_at.
Page_ByTime(cursor) ==
    {i \in Before(cursor) :
        Cardinality({j \in Before(cursor) : log[j].at > log[i].at}) < PageSize}

\* The latest ones before the cursor, by id.
Page(cursor) ==
    {i \in Before(cursor) : Cardinality({j \in Before(cursor) : j > i}) < PageSize}

ListMessages ==
    LET read == Page(page.cursor)
    IN  /\ page.at # "done"
        /\ page' = [at     |-> IF read = {} THEN "done" ELSE "next",
                    cursor |-> IF read = {} THEN page.cursor ELSE Min(read),
                    got    |-> page.got \cup read,
                    due    |-> IF page.at = "first" THEN Visible ELSE page.due]
        /\ UNCHANGED <<now, log, held, pc, who, stamp, row>>

Restart ==
    /\ page.at # "first"
    /\ page' = Unread
    /\ UNCHANGED <<now, log, held, pc, who, stamp, row>>
-----------------------------------------------------------------------------
Tick ==
    /\ now < MaxTime
    /\ now' = now + 1
    /\ UNCHANGED <<log, held, pc, who, stamp, row, page>>

Next ==
    \/ \E p \in Proc :
          \/ \E u \in User : StartChat(p, u)
          \/ StartSystem(p)
          \/ SendMessage(p)
          \/ Refuse(p)
    \/ ListMessages
    \/ Restart
    \/ Tick

Spec == Init /\ [][Next]_vars
-----------------------------------------------------------------------------
(* Properties.                                                             *)

PC == {"idle", "member", "last", "minute", "run", "stamp", "insert", "commit"}

\* Every row and every handler's local state keeps its type.
TypeOK ==
    /\ now \in Nat
    /\ log \in Seq([sender : User \cup {NoUser}, at : Nat,
                    state : {"open", "committed", "void"}])
    /\ held \in [Proc -> SUBSET {ForUpdate(MemberRow(u)) : u \in User}]
    /\ pc \in [Proc -> PC]
    /\ who \in [Proc -> User \cup {NoUser}]
    /\ stamp \in [Proc -> Nat]
    /\ row \in [Proc -> Nat] /\ \A p \in Proc : row[p] \in DOMAIN log \cup {0}
    /\ page \in [at : {"first", "next", "done"}, cursor : Nat,
                 got : SUBSET DOMAIN log, due : SUBSET DOMAIN log]

\* Two chats of one sender are at least a second apart, however many requests
\* the sender has in flight: the check and the insert are apart, and only the
\* sender's member row keeps another request out in between.
OncePerSecond ==
    \A u \in User : \A i, j \in ChatsOf(u) :
        i # j => log[i].at - log[j].at >= Second \/ log[j].at - log[i].at >= Second

\* No minute, wherever it starts, holds more chats of one sender than allowed,
\* although the time that is counted from is not the time that is stored.
MinuteHoldsFew ==
    \A u \in User : \A i \in ChatsOf(u) :
        Cardinality({j \in ChatsOf(u) : log[j].at \in log[i].at .. log[i].at + Minute})
            <= MinuteLimit

\* Of any RunLimit + 1 chats of one sender, somebody else has chatted between
\* the first and the last: messages of the system do not end a run, nor do
\* chats that are inserted but never committed.
NoLongRun ==
    \A u \in User : \A i, j \in ChatsOf(u) :
        Cardinality({k \in ChatsOf(u) : log[k].at \in log[i].at .. log[j].at}) > RunLimit
            => \E k \in Chats \ ChatsOf(u) : log[k].at \in log[i].at .. log[j].at

\* A client that pages to the end has read every message that was there when
\* it began, whatever is committed meanwhile, and nothing that was rolled back,
\* although ids are neither in the order of created_at nor in that of commits.
PagingIsComplete ==
    page.at = "done" => page.due \subseteq page.got /\ page.got \subseteq Visible
=============================================================================
