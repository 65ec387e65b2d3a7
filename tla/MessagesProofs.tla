--------------------------- MODULE MessagesProofs ---------------------------
(***************************************************************************)
(* Proofs about Messages, for any users, any number of handlers, any       *)
(* limits and any page size.                                               *)
(*                                                                         *)
(* The limits: a handler that has passed a check knows something about the *)
(* chats of its sender (SecondGuard, MinuteGuard, RunGuard).  It stays     *)
(* true until the commit, because nobody else can commit a chat of that    *)
(* sender while the handler holds the sender's member row, and because the *)
(* clock only goes on.  CommitKeepsLimits shows that the three guards are  *)
(* what the new row needs.                                                 *)
(*                                                                         *)
(* The pages: everything that was due is read or still below the cursor.   *)
(***************************************************************************)
EXTENDS Messages, FiniteSetTheorems, SequenceTheorems, TLAPS

-----------------------------------------------------------------------------
(* What a table lg of messages says about a sender.                        *)

\* The committed chats of u, those from the time t on, and those between two
\* times.
Sent(lg, u) == {i \in DOMAIN lg : lg[i].state = "committed" /\ lg[i].sender = u}
SentSince(lg, u, t) == {i \in Sent(lg, u) : lg[i].at >= t}
SentWithin(lg, u, a, b) == {i \in Sent(lg, u) : lg[i].at \in a .. b}

\* The committed chats of everybody else.
SentByOthers(lg, u) ==
    {i \in DOMAIN lg : lg[i].state = "committed" /\ lg[i].sender \notin {u, NoUser}}

Answered(lg, u, a, b) == \E k \in SentByOthers(lg, u) : lg[k].at \in a .. b

\* The three limits of one sender.
Limits(lg, u) ==
    /\ \A i, j \in Sent(lg, u) :
          i # j => lg[i].at - lg[j].at >= Second \/ lg[j].at - lg[i].at >= Second
    /\ \A i \in Sent(lg, u) :
          Cardinality(SentWithin(lg, u, lg[i].at, lg[i].at + Minute)) <= MinuteLimit
    /\ \A i, j \in Sent(lg, u) :
          Cardinality(SentWithin(lg, u, lg[i].at, lg[j].at)) > RunLimit
              => Answered(lg, u, lg[i].at, lg[j].at)

\* What the checks of a handler establish for a chat of u at the time s.
LongAgo(lg, u, s) == \A i \in Sent(lg, u) : s - lg[i].at >= Second
FewSince(lg, u, s) == Cardinality(SentSince(lg, u, s - Minute)) < MinuteLimit
Interrupted(lg, u, s) ==
    \A t \in Int : Cardinality(SentSince(lg, u, t)) >= RunLimit => Answered(lg, u, t, s)

\* A table of messages.
IsLog(lg) ==
    /\ Len(lg) \in Nat
    /\ DOMAIN lg = 1 .. Len(lg)
    /\ \A i \in DOMAIN lg : lg[i].at \in Int

\* The sets of chats are finite.
LEMMA SentIsFinite ==
    ASSUME NEW lg, IsLog(lg), NEW u
    PROVE  /\ IsFiniteSet(Sent(lg, u)) /\ Cardinality(Sent(lg, u)) \in Nat
           /\ \A T \in SUBSET Sent(lg, u) : IsFiniteSet(T) /\ Cardinality(T) \in Nat
<1>1. IsFiniteSet(1 .. Len(lg))
  BY FS_Interval DEF IsLog
<1>2. Sent(lg, u) \in SUBSET (1 .. Len(lg))
  BY DEF IsLog, Sent
<1>3. IsFiniteSet(Sent(lg, u))
  BY <1>1, <1>2, FS_Subset
<1>4. QED
  BY <1>3, FS_Subset, FS_CardinalityType

\* Two tables with the same chats of u have the same limits, if the others have
\* not lost a chat.
LEMMA SameChatsSameLimits ==
    ASSUME NEW lg, NEW lh, NEW u, Sent(lh, u) = Sent(lg, u),
           \A i \in DOMAIN lg : lh[i].at = lg[i].at,
           SentByOthers(lg, u) \subseteq SentByOthers(lh, u)
    PROVE  /\ \A t : SentSince(lh, u, t) = SentSince(lg, u, t)
           /\ \A a, b : SentWithin(lh, u, a, b) = SentWithin(lg, u, a, b)
           /\ \A a, b : Answered(lg, u, a, b) => Answered(lh, u, a, b)
           /\ Limits(lg, u) => Limits(lh, u)
           /\ \A s : LongAgo(lg, u, s) => LongAgo(lh, u, s)
           /\ \A s : FewSince(lg, u, s) => FewSince(lh, u, s)
           /\ \A s : Interrupted(lg, u, s) => Interrupted(lh, u, s)
<1>1. \A i \in Sent(lg, u) : i \in DOMAIN lg /\ lh[i].at = lg[i].at
  BY DEF Sent
<1>2. \A t : SentSince(lh, u, t) = SentSince(lg, u, t)
  BY <1>1 DEF SentSince
<1>3. \A a, b : SentWithin(lh, u, a, b) = SentWithin(lg, u, a, b)
  BY <1>1 DEF SentWithin
<1>4. \A a, b : Answered(lg, u, a, b) => Answered(lh, u, a, b)
  BY DEF Answered, SentByOthers
<1>5. Limits(lg, u) => Limits(lh, u)
  <2>1. SUFFICES ASSUME Limits(lg, u) PROVE Limits(lh, u)
    OBVIOUS
  <2>2. ASSUME NEW i \in Sent(lh, u), NEW j \in Sent(lh, u), i # j
        PROVE  lh[i].at - lh[j].at >= Second \/ lh[j].at - lh[i].at >= Second
    BY <1>1, <2>1, <2>2 DEF Limits
  <2>3. ASSUME NEW i \in Sent(lh, u)
        PROVE  Cardinality(SentWithin(lh, u, lh[i].at, lh[i].at + Minute)) <= MinuteLimit
    <3>1. lh[i].at = lg[i].at
      BY <1>1
    <3>2. Cardinality(SentWithin(lg, u, lg[i].at, lg[i].at + Minute)) <= MinuteLimit
      BY <2>1 DEF Limits
    <3>3. QED
      BY <1>3, <3>1, <3>2
  <2>4. ASSUME NEW i \in Sent(lh, u), NEW j \in Sent(lh, u),
               Cardinality(SentWithin(lh, u, lh[i].at, lh[j].at)) > RunLimit
        PROVE  Answered(lh, u, lh[i].at, lh[j].at)
    <3>1. lh[i].at = lg[i].at /\ lh[j].at = lg[j].at
      BY <1>1
    <3>2. Cardinality(SentWithin(lg, u, lg[i].at, lg[j].at)) > RunLimit
      BY <1>3, <2>4, <3>1
    <3>3. QED
      BY <1>4, <2>1, <3>1, <3>2 DEF Limits
  <2>5. QED
    BY <2>2, <2>3, <2>4 DEF Limits
<1>6. \A s : LongAgo(lg, u, s) => LongAgo(lh, u, s)
  BY <1>1 DEF LongAgo
<1>7. \A s : FewSince(lg, u, s) => FewSince(lh, u, s)
  BY <1>2 DEF FewSince
<1>8. \A s : Interrupted(lg, u, s) => Interrupted(lh, u, s)
  BY <1>2, <1>4 DEF Interrupted
<1>9. QED
  BY <1>2, <1>3, <1>4, <1>5, <1>6, <1>7, <1>8

\* One more chat of u's, at a time s for which the checks held, keeps u within
\* the limits.
LEMMA CommitKeepsLimits ==
    ASSUME NEW lg, NEW lh, NEW u, NEW k, NEW s \in Int, IsLog(lg),
           k \notin Sent(lg, u), Sent(lh, u) = Sent(lg, u) \cup {k}, lh[k].at = s,
           \A i \in DOMAIN lg : lh[i].at = lg[i].at,
           SentByOthers(lg, u) \subseteq SentByOthers(lh, u),
           LongAgo(lg, u, s), FewSince(lg, u, s), Interrupted(lg, u, s),
           Limits(lg, u)
    PROVE  Limits(lh, u)
<1>1. /\ Second \in Nat /\ Minute \in Nat
      /\ MinuteLimit \in Nat \ {0} /\ RunLimit \in Nat \ {0}
  BY ConstantsAssumption
<1>2. \A i \in Sent(lg, u) : lh[i].at = lg[i].at /\ lg[i].at \in Int
                             /\ s - lg[i].at >= Second /\ lg[i].at <= s
  BY <1>1 DEF Sent, IsLog, LongAgo
<1>3. \A T \in SUBSET Sent(lg, u) :
         /\ IsFiniteSet(T) /\ Cardinality(T) \in Nat
         /\ Cardinality(T \cup {k}) = Cardinality(T) + 1
  BY SentIsFinite, FS_AddElement
<1>4. \A a, b : Answered(lg, u, a, b) => Answered(lh, u, a, b)
  BY DEF Answered, SentByOthers
<1>5. \A a, b : /\ s \notin a .. b => SentWithin(lh, u, a, b) = SentWithin(lg, u, a, b)
                /\ s \in a .. b => SentWithin(lh, u, a, b) = SentWithin(lg, u, a, b) \cup {k}
  BY <1>2 DEF SentWithin
<1>6. \A a, b : SentWithin(lg, u, a, b) \in SUBSET Sent(lg, u)
  BY DEF SentWithin
<1>7. \A t : SentSince(lg, u, t) \in SUBSET Sent(lg, u)
  BY DEF SentSince
<1>8. ASSUME NEW i \in Sent(lh, u), NEW j \in Sent(lh, u), i # j
      PROVE  lh[i].at - lh[j].at >= Second \/ lh[j].at - lh[i].at >= Second
  <2>1. CASE i = k
    BY <1>2, <1>8, <2>1
  <2>2. CASE j = k
    BY <1>2, <1>8, <2>2
  <2>3. CASE i # k /\ j # k
    BY <1>2, <1>8, <2>3 DEF Limits
  <2>4. QED
    BY <2>1, <2>2, <2>3
<1>9. ASSUME NEW i \in Sent(lh, u)
      PROVE  Cardinality(SentWithin(lh, u, lh[i].at, lh[i].at + Minute)) <= MinuteLimit
  <2> DEFINE a == lh[i].at
             W == SentWithin(lg, u, a, a + Minute)
  <2>1. a \in Int
    BY <1>2
  <2>2. CASE s \in a .. a + Minute
    <3>1. W \subseteq SentSince(lg, u, s - Minute)
      BY <1>1, <1>2, <2>1, <2>2 DEF SentWithin, SentSince
    <3>2. Cardinality(W) <= Cardinality(SentSince(lg, u, s - Minute))
      BY <1>3, <1>7, <3>1, FS_Subset
    <3>3. /\ Cardinality(W) \in Nat /\ Cardinality(W \cup {k}) = Cardinality(W) + 1
          /\ Cardinality(SentSince(lg, u, s - Minute)) \in Nat
      BY <1>3, <1>6, <1>7
    <3>4. Cardinality(SentSince(lg, u, s - Minute)) < MinuteLimit
      BY DEF FewSince
    <3>5. SentWithin(lh, u, a, a + Minute) = W \cup {k}
      BY <1>5, <2>2
    <3> HIDE DEF W
    <3>6. Cardinality(W \cup {k}) <= MinuteLimit
      BY <1>1, <3>2, <3>3, <3>4
    <3>7. QED
      BY <3>5, <3>6
  <2>3. CASE s \notin a .. a + Minute
    <3>1. i # k
      BY <1>1, <2>1, <2>3
    <3>2. i \in Sent(lg, u) /\ a = lg[i].at
      BY <1>2, <3>1
    <3>3. SentWithin(lh, u, a, a + Minute) = W
      BY <1>5, <2>3
    <3>4. QED
      BY <3>2, <3>3 DEF Limits
  <2>4. QED
    BY <2>2, <2>3
<1>10. ASSUME NEW i \in Sent(lh, u), NEW j \in Sent(lh, u),
              Cardinality(SentWithin(lh, u, lh[i].at, lh[j].at)) > RunLimit
       PROVE  Answered(lh, u, lh[i].at, lh[j].at)
  <2> DEFINE a == lh[i].at
             b == lh[j].at
             W == SentWithin(lg, u, a, b)
  <2>1. a \in Int /\ b \in Int /\ a <= s /\ b <= s
    BY <1>2
  <2>2. CASE s \in a .. b
    <3>1. b = s
      BY <2>1, <2>2
    <3>2. W \subseteq SentSince(lg, u, a)
      BY <1>2, <2>1 DEF SentWithin, SentSince
    <3>3. Cardinality(W) <= Cardinality(SentSince(lg, u, a))
      BY <1>3, <1>7, <3>2, FS_Subset
    <3>4. Cardinality(W) + 1 > RunLimit
      BY <1>3, <1>5, <1>6, <1>10, <2>2
    <3>5. Cardinality(W) \in Nat /\ Cardinality(SentSince(lg, u, a)) \in Nat
      BY <1>3, <1>6, <1>7
    <3>6. Cardinality(SentSince(lg, u, a)) >= RunLimit
      <4> HIDE DEF W
      <4>1. QED
        BY <1>1, <3>3, <3>4, <3>5
    <3>7. Answered(lg, u, a, s)
      BY <2>1, <3>6 DEF Interrupted
    <3>8. QED
      BY <1>4, <3>1, <3>7
  <2>3. CASE s \notin a .. b
    <3>1. SentWithin(lh, u, a, b) = W
      BY <1>5, <2>3
    <3>2. W # {}
      <4>1. Cardinality(W) # 0
        BY <1>1, <1>10, <3>1
      <4>2. QED
        BY <4>1, FS_EmptySet
    <3>3. a <= b /\ i # k /\ j # k
      BY <1>2, <2>1, <2>3, <3>2 DEF SentWithin
    <3>4. i \in Sent(lg, u) /\ j \in Sent(lg, u) /\ a = lg[i].at /\ b = lg[j].at
      BY <1>2, <3>3
    <3>5. Answered(lg, u, a, b)
      BY <1>10, <3>1, <3>4 DEF Limits
    <3>6. QED
      BY <1>4, <3>5
  <2>4. QED
    BY <2>2, <2>3
<1>11. QED
  BY <1>8, <1>9, <1>10 DEF Limits

\* What the checks establish for one time they establish for a later one.
LEMMA LaterIsFine ==
    ASSUME NEW lg, NEW u, IsLog(lg), NEW s \in Int, NEW t \in Int, s <= t
    PROVE  /\ LongAgo(lg, u, s) => LongAgo(lg, u, t)
           /\ FewSince(lg, u, s) => FewSince(lg, u, t)
           /\ Interrupted(lg, u, s) => Interrupted(lg, u, t)
<1>1. /\ Second \in Nat /\ Minute \in Nat /\ MinuteLimit \in Nat /\ RunLimit \in Nat
      /\ \A i \in DOMAIN lg : lg[i].at \in Int
  BY ConstantsAssumption DEF IsLog
<1>2. LongAgo(lg, u, s) => LongAgo(lg, u, t)
  BY <1>1 DEF LongAgo, Sent
<1>3. FewSince(lg, u, s) => FewSince(lg, u, t)
  <2> DEFINE S == SentSince(lg, u, s - Minute)
             T == SentSince(lg, u, t - Minute)
  <2>1. T \subseteq S /\ S \subseteq Sent(lg, u)
    BY <1>1 DEF SentSince, Sent
  <2>2. Cardinality(S) \in Nat /\ Cardinality(T) \in Nat /\ Cardinality(T) <= Cardinality(S)
    BY <2>1, SentIsFinite, FS_Subset
  <2> HIDE DEF S, T
  <2>3. Cardinality(S) < MinuteLimit => Cardinality(T) < MinuteLimit
    BY <1>1, <2>2
  <2>4. QED
    BY <2>3 DEF FewSince, S, T
<1>4. Interrupted(lg, u, s) => Interrupted(lg, u, t)
  <2>1. ASSUME NEW a \in Int, Answered(lg, u, a, s) PROVE Answered(lg, u, a, t)
    BY <1>1, <2>1 DEF Answered, SentByOthers
  <2>2. QED
    BY <2>1 DEF Interrupted
<1>5. QED
  BY <1>2, <1>3, <1>4
-----------------------------------------------------------------------------
(* The inductive invariant.                                                *)

\* The statements at which a handler has locked the sender's row, and those
\* it reaches after each of the three checks.
Locked      == {"last", "minute", "run", "stamp", "insert", "commit"}
PastLast    == {"minute", "run", "stamp", "insert", "commit"}
PastMinute  == {"run", "stamp", "insert", "commit"}
PastRun     == {"stamp", "insert", "commit"}
Stamped     == {"insert", "commit"}

\* The created_at that p's message will have, as far as it is known.
Time(p) == IF pc[p] \in Stamped THEN stamp[p] ELSE now

\* Whom p serves and what it holds and has inserted at each statement.
PlaceKept(p) ==
    /\ pc[p] = "idle" => who[p] = NoUser
    /\ pc[p] \in {"member", "last", "minute", "run"} => who[p] \in User
    /\ pc[p] \in Locked /\ who[p] \in User => ForUpdate(MemberRow(who[p])) \in held[p]
    /\ pc[p] \in Stamped => stamp[p] <= now
    /\ pc[p] # "commit" => row[p] = 0
    /\ pc[p] = "commit" =>
          /\ row[p] \in DOMAIN log
          /\ log[row[p]] = [sender |-> who[p], at |-> stamp[p], state |-> "open"]

SecondGuard(p) ==
    pc[p] \in PastLast /\ who[p] \in User => LongAgo(log, who[p], Time(p))

MinuteGuard(p) ==
    pc[p] \in PastMinute /\ who[p] \in User => FewSince(log, who[p], Time(p))

RunGuard(p) ==
    pc[p] \in PastRun /\ who[p] \in User => Interrupted(log, who[p], Time(p))

\* All that handler p relies on.
Checked(p) == PlaceKept(p) /\ SecondGuard(p) /\ MinuteGuard(p) /\ RunGuard(p)

\* No two handlers hold the same lock or have inserted the same row.
Apart ==
    \A p, q \in Proc : p # q =>
        /\ held[p] \cap held[q] = {}
        /\ row[p] # 0 => row[p] # row[q]

TimesPast == \A i \in DOMAIN log : log[i].at <= now

\* A reader has read nothing that is not there; what was due and is not read
\* yet is below the cursor.
PagesKept ==
    /\ page.got \subseteq Visible /\ page.due \subseteq Visible
    /\ page.at = "first" => page = Unread
    /\ page.at = "next" =>
          /\ page.cursor > 0
          /\ \A i \in page.due : i \in page.got \/ i < page.cursor
    /\ page.at = "done" => page.due \subseteq page.got

Inv ==
    /\ TypeOK /\ Apart /\ TimesPast
    /\ \A p \in Proc : Checked(p)
    /\ \A u \in User : Limits(log, u)
    /\ PagesKept

\* What the table of messages is.
MessageRow == [sender : User \cup {NoUser}, at : Nat,
               state : {"open", "committed", "void"}]

\* The table of messages of a typed state.
LEMMA LogIsLog ==
    ASSUME TypeOK
    PROVE  /\ log \in Seq(MessageRow) /\ IsLog(log)
           /\ \A i \in DOMAIN log : log[i] \in MessageRow
<1>1. log \in Seq(MessageRow)
  BY DEF TypeOK, MessageRow
<1>2. Len(log) \in Nat /\ DOMAIN log = 1 .. Len(log)
      /\ \A i \in DOMAIN log : log[i] \in MessageRow
  BY <1>1
<1>3. \A i \in DOMAIN log : log[i].at \in Int
  BY <1>2 DEF MessageRow
<1>4. QED
  BY <1>1, <1>2, <1>3 DEF IsLog

\* The invariants are what Limits says about each sender.
LEMMA LimitsAreKept ==
    (\A u \in User : Limits(log, u)) => OncePerSecond /\ MinuteHoldsFew /\ NoLongRun
<1>1. SUFFICES ASSUME \A u \in User : Limits(log, u)
               PROVE  OncePerSecond /\ MinuteHoldsFew /\ NoLongRun
  OBVIOUS
<1>2. ASSUME NEW u \in User
      PROVE  /\ ChatsOf(u) = Sent(log, u)
             /\ Chats \ ChatsOf(u) = SentByOthers(log, u)
  BY DEF ChatsOf, Chats, Visible, Sent, SentByOthers
<1>3. OncePerSecond
  BY <1>1, <1>2 DEF OncePerSecond, Limits
<1>4. MinuteHoldsFew
  BY <1>1, <1>2 DEF MinuteHoldsFew, Limits, SentWithin
<1>5. NoLongRun
  BY <1>1, <1>2 DEF NoLongRun, Limits, SentWithin, Answered
<1>6. QED
  BY <1>3, <1>4, <1>5

\* The table lh has all that lg has, and what was committed stays committed.
Grown(lg, lh) ==
    /\ DOMAIN lg \subseteq DOMAIN lh
    /\ \A i \in DOMAIN lg :
          /\ lh[i].at = lg[i].at /\ lh[i].sender = lg[i].sender
          /\ lg[i].state = "committed" => lh[i].state = "committed"

\* Chats of others are never lost.
LEMMA OthersGrow ==
    ASSUME NEW lg, NEW lh, Grown(lg, lh), NEW u
    PROVE  SentByOthers(lg, u) \subseteq SentByOthers(lh, u)
BY DEF Grown, SentByOthers

\* What q relies on stays so while other handlers commit no chat of q's sender.
LEMMA OthersStayChecked ==
    ASSUME Inv, NEW q \in Proc, pc'[q] = pc[q], who'[q] = who[q], held'[q] = held[q],
           stamp'[q] = stamp[q], row'[q] = row[q], now' \in Nat, now <= now',
           Grown(log, log'), row[q] # 0 => log'[row[q]] = log[row[q]],
           pc[q] \in Locked /\ who[q] \in User => Sent(log', who[q]) = Sent(log, who[q])
    PROVE  Checked(q)'
<1>1. Checked(q) /\ TypeOK /\ IsLog(log) /\ now \in Nat /\ stamp[q] \in Nat
      /\ (\A i \in DOMAIN log : log'[i].at = log[i].at)
      /\ pc[q] \in PC
  BY LogIsLog DEF Inv, TypeOK, Grown
<1>2. PlaceKept(q)'
  <2>1. PlaceKept(q) /\ DOMAIN log \subseteq DOMAIN log'
    BY <1>1 DEF Checked, Grown
  <2>2. pc[q] = "commit" => row[q] # 0
    BY <1>1, <2>1 DEF PlaceKept, IsLog
  <2>3. pc[q] \in Stamped => stamp[q] <= now'
    BY <1>1, <2>1 DEF PlaceKept
  <2>4. QED
    BY <2>1, <2>2, <2>3 DEF PlaceKept, Stamped
<1>3. CASE ~ (pc[q] \in Locked /\ who[q] \in User)
  BY <1>2, <1>3 DEF Checked, SecondGuard, MinuteGuard, RunGuard, Locked, PastLast,
                    PastMinute, PastRun
<1>4. CASE pc[q] \in Locked /\ who[q] \in User
  <2> DEFINE u == who[q]
             t == IF pc[q] \in Stamped THEN stamp[q] ELSE now'
  <2>1. Time(q) \in Int /\ t \in Int /\ Time(q) <= t /\ Time(q)' = t
    BY <1>1 DEF Time
  <2>2. SentByOthers(log, u) \subseteq SentByOthers(log', u) /\ Sent(log', u) = Sent(log, u)
    BY <1>4, OthersGrow
  <2>3. /\ LongAgo(log, u, Time(q)) => LongAgo(log', u, t)
        /\ FewSince(log, u, Time(q)) => FewSince(log', u, t)
        /\ Interrupted(log, u, Time(q)) => Interrupted(log', u, t)
    <3>1. /\ LongAgo(log, u, Time(q)) => LongAgo(log, u, t)
          /\ FewSince(log, u, Time(q)) => FewSince(log, u, t)
          /\ Interrupted(log, u, Time(q)) => Interrupted(log, u, t)
      BY <1>1, <2>1, LaterIsFine
    <3>2. /\ LongAgo(log, u, t) => LongAgo(log', u, t)
          /\ FewSince(log, u, t) => FewSince(log', u, t)
          /\ Interrupted(log, u, t) => Interrupted(log', u, t)
      BY <1>1, <2>2, SameChatsSameLimits
    <3>3. QED
      BY <3>1, <3>2
  <2>4. SecondGuard(q)' /\ MinuteGuard(q)' /\ RunGuard(q)'
    BY <1>1, <2>1, <2>3 DEF Checked, SecondGuard, MinuteGuard, RunGuard
  <2>5. QED
    BY <1>2, <2>4 DEF Checked
<1>5. QED
  BY <1>3, <1>4

\* A reader keeps what it has while the table only grows.
LEMMA PagesStayKept ==
    ASSUME PagesKept, Grown(log, log'), page' = page
    PROVE  PagesKept'
<1>1. Visible \subseteq Visible'
  BY DEF Visible, Grown
<1>2. QED
  BY <1>1 DEF PagesKept
-----------------------------------------------------------------------------
(* SendMessage.                                                            *)

\* The local state of the handlers other than p stays.
OthersStay(p) ==
    \A q \in Proc : q # p =>
        /\ pc'[q] = pc[q] /\ who'[q] = who[q] /\ held'[q] = held[q]
        /\ stamp'[q] = stamp[q] /\ row'[q] = row[q]

\* A step of p that leaves the table alone keeps the invariant if p itself is
\* as it should be.
LEMMA LocalStepKeepsInv ==
    ASSUME Inv, NEW p \in Proc, OthersStay(p), UNCHANGED <<now, log, row, page>>,
           TypeOK', Checked(p)',
           held'[p] # held[p] => \A q \in Proc \ {p} : held'[p] \cap held[q] = {}
    PROVE  Inv'
<1>1. /\ log' = log /\ now' = now /\ row' = row /\ page' = page /\ now \in Nat
      /\ \A q \in Proc : q # p => held'[q] = held[q]
  BY DEF Inv, TypeOK, OthersStay
<1>2. Grown(log, log')
  BY <1>1 DEF Grown
<1>3. ASSUME NEW q \in Proc PROVE Checked(q)'
  <2>1. CASE q = p
    BY <2>1
  <2>2. CASE q # p
    BY <1>1, <1>2, <2>2, OthersStayChecked DEF OthersStay
  <2>3. QED
    BY <2>1, <2>2
<1>4. Apart'
  BY <1>1 DEF Inv, Apart
<1>5. TimesPast' /\ \A u \in User : Limits(log, u)'
  BY <1>1 DEF Inv, TimesPast, Limits, Sent, SentWithin, Answered, SentByOthers
<1>6. PagesKept'
  BY <1>1, <1>2, PagesStayKept DEF Inv
<1>7. QED
  BY <1>3, <1>4, <1>5, <1>6 DEF Inv

\* A handler begins: of its sender it knows nothing yet.
LEMMA StartKeepsInv ==
    ASSUME Inv, NEW p \in Proc, (\E u \in User : StartChat(p, u)) \/ StartSystem(p)
    PROVE  Inv'
<1>1. /\ pc[p] = "idle" /\ UNCHANGED <<now, log, held, stamp, row, page>>
      /\ OthersStay(p)
  BY DEF Inv, TypeOK, StartChat, StartSystem, Goto, OthersStay
<1>2. PlaceKept(p) /\ TypeOK
  BY DEF Inv, Checked
<1>3. \/ \E u \in User : who'[p] = u /\ pc'[p] = "member"
      \/ who' = who /\ pc'[p] = "stamp"
  BY <1>2 DEF StartChat, StartSystem, Goto, TypeOK
<1>4. who[p] = NoUser /\ NoUser \notin User /\ row[p] = 0
  BY <1>1, <1>2, ConstantsAssumption DEF PlaceKept
<1>5. TypeOK'
  <2>1. pc' \in [Proc -> PC] /\ who' \in [Proc -> User \cup {NoUser}]
    BY <1>2 DEF TypeOK, PC, StartChat, StartSystem, Goto
  <2>2. QED
    BY <1>1, <1>2, <2>1 DEF TypeOK
<1>6. Checked(p)'
  BY <1>1, <1>3, <1>4 DEF Checked, PlaceKept, SecondGuard, MinuteGuard, RunGuard, Locked,
                          PastLast, PastMinute, PastRun, Stamped
<1>7. QED
  BY <1>1, <1>5, <1>6, LocalStepKeepsInv

\* The member row is locked; whoever else had it would have kept p waiting.
LEMMA LockMemberKeepsInv ==
    ASSUME Inv, NEW p \in Proc, LockMember(p)
    PROVE  Inv'
<1> DEFINE l == ForUpdate(MemberRow(who[p]))
<1>1. /\ pc[p] = "member" /\ pc'[p] = "last" /\ held'[p] = {l}
      /\ Holders(held, p, l) = {}
      /\ UNCHANGED <<now, log, who, stamp, row, page>>
      /\ OthersStay(p)
  BY DEF Inv, TypeOK, LockMember, Goto, OthersStay
<1>2. PlaceKept(p) /\ TypeOK
  BY DEF Inv, Checked
<1>3. who[p] \in User /\ row[p] = 0
  BY <1>1, <1>2 DEF PlaceKept
<1>4. TypeOK'
  <2>1. pc' \in [Proc -> PC]
        /\ held' \in [Proc -> SUBSET {ForUpdate(MemberRow(u)) : u \in User}]
    BY <1>2, <1>3 DEF TypeOK, PC, LockMember, Goto
  <2>2. QED
    BY <1>1, <1>2, <2>1 DEF TypeOK
<1>5. ASSUME NEW q \in Proc \ {p} PROVE held'[p] \cap held[q] = {}
  <2>1. held[q] \cap Excluding(l) = {}
    BY <1>1, <1>2 DEF Holders, TypeOK
  <2>2. l \in Excluding(l)
    BY DEF Excluding, ForUpdate
  <2>3. QED
    BY <1>1, <2>1, <2>2
<1>6. Checked(p)'
  BY <1>1, <1>3 DEF Checked, PlaceKept, SecondGuard, MinuteGuard, RunGuard, Locked,
                    PastLast, PastMinute, PastRun, Stamped
<1>7. QED
  BY <1>1, <1>4, <1>5, <1>6, LocalStepKeepsInv

\* A statement that only moves the handler on, to a statement before the
\* insert, and what it has checked.
LEMMA MoveOnKeepsInv ==
    ASSUME Inv, NEW p \in Proc, NEW next \in {"minute", "run", "stamp"},
           pc[p] \in {"last", "minute", "run"}, Goto(p, next),
           UNCHANGED <<now, log, held, who, stamp, row, page>>,
           LongAgo(log, who[p], now),
           next \in {"run", "stamp"} => FewSince(log, who[p], now),
           next = "stamp" => Interrupted(log, who[p], now)
    PROVE  Inv'
<1>1. /\ pc'[p] = next /\ OthersStay(p)
  BY DEF Inv, TypeOK, Goto, OthersStay
<1>2. PlaceKept(p) /\ TypeOK
  BY DEF Inv, Checked
<1>3. TypeOK'
  <2>1. pc' \in [Proc -> PC]
    BY <1>2 DEF TypeOK, PC, Goto
  <2>2. QED
    BY <1>2, <2>1 DEF TypeOK
<1>4. PlaceKept(p)'
  BY <1>1, <1>2 DEF PlaceKept, Locked, Stamped
<1>5. Time(p)' = now
  BY <1>1 DEF Time, Stamped
<1>6. Checked(p)'
  BY <1>1, <1>4, <1>5 DEF Checked, SecondGuard, MinuteGuard, RunGuard, PastLast,
                          PastMinute, PastRun
<1>7. QED
  BY <1>1, <1>3, <1>6, LocalStepKeepsInv

\* The end of a transaction that is rolled back, or commits what it inserted.
LEMMA FinishKeepsInv ==
    ASSUME Inv, NEW p \in Proc, NEW state \in {"void", "committed"},
           state = "committed" => pc[p] = "commit", Finish(p, state)
    PROVE  Inv'
<1> DEFINE r == row[p]
<1>1. /\ log' = [i \in DOMAIN log |-> IF i = r THEN [log[i] EXCEPT !.state = state]
                                               ELSE log[i]]
      /\ held' = [held EXCEPT ![p] = {}] /\ who' = [who EXCEPT ![p] = NoUser]
      /\ stamp' = [stamp EXCEPT ![p] = 0] /\ row' = [row EXCEPT ![p] = 0]
      /\ pc' = [pc EXCEPT ![p] = "idle"]
      /\ now' = now /\ page' = page
  BY DEF Finish, Goto
<1>2. TypeOK /\ Checked(p) /\ Apart /\ TimesPast /\ NoUser \notin User
  BY ConstantsAssumption DEF Inv
<1>3. /\ log \in Seq(MessageRow) /\ IsLog(log)
      /\ \A i \in DOMAIN log : log[i] \in MessageRow
  BY <1>2, LogIsLog
<1>4. /\ r # 0 => /\ pc[p] = "commit" /\ r \in DOMAIN log
                  /\ log[r] = [sender |-> who[p], at |-> stamp[p], state |-> "open"]
      /\ pc[p] = "commit" => r # 0
  BY <1>2, <1>3 DEF Checked, PlaceKept, IsLog
<1>5. /\ DOMAIN log' = DOMAIN log
      /\ \A i \in DOMAIN log : i # r => log'[i] = log[i]
      /\ \A i \in DOMAIN log : log'[i].at = log[i].at /\ log'[i].sender = log[i].sender
      /\ r \in DOMAIN log => log'[r].state = state
  BY <1>1, <1>3 DEF MessageRow
<1>6. TypeOK'
  <2>1. \A i \in DOMAIN log : log'[i] \in MessageRow
    BY <1>1, <1>3 DEF MessageRow
  <2>2. Len(log) \in Nat /\ DOMAIN log' = 1 .. Len(log)
    BY <1>3, <1>5 DEF IsLog
  <2>3. log' \in Seq(MessageRow)
    <3>1. log' = [i \in 1 .. Len(log) |-> log'[i]]
      BY <1>1, <2>2
    <3>2. \A i \in 1 .. Len(log) : log'[i] \in MessageRow
      BY <2>1, <2>2, <1>5
    <3>3. log' \in [1 .. Len(log) -> MessageRow]
      BY <3>1, <3>2
    <3>4. QED
      BY <2>2, <3>3, SeqDef
  <2>4. page \in [at : {"first", "next", "done"}, cursor : Nat,
                  got : SUBSET DOMAIN log', due : SUBSET DOMAIN log']
    BY <1>2, <1>5 DEF TypeOK
  <2>5. /\ held' \in [Proc -> SUBSET {ForUpdate(MemberRow(u)) : u \in User}]
        /\ who' \in [Proc -> User \cup {NoUser}] /\ stamp' \in [Proc -> Nat]
        /\ pc' \in [Proc -> PC]
    BY <1>1, <1>2 DEF TypeOK, PC
  <2>6. row' \in [Proc -> Nat] /\ \A q \in Proc : row'[q] \in DOMAIN log' \cup {0}
    BY <1>1, <1>2, <1>5 DEF TypeOK
  <2>7. QED
    BY <1>1, <1>2, <2>3, <2>4, <2>5, <2>6 DEF TypeOK, MessageRow
<1>7. Grown(log, log')
  <2>1. ASSUME NEW i \in DOMAIN log, log[i].state = "committed"
        PROVE  log'[i].state = "committed"
    <3>1. i # r
      BY <1>3, <1>4, <2>1 DEF IsLog
    <3>2. QED
      BY <1>5, <2>1, <3>1
  <2>2. QED
    BY <1>5, <2>1 DEF Grown
<1>8. ASSUME NEW u \in User, u # who[p] \/ state = "void"
      PROVE  Sent(log', u) = Sent(log, u)
  <2>1. r \in DOMAIN log => log[r].state = "open" /\ log[r].sender = who[p]
    BY <1>3, <1>4 DEF IsLog
  <2>2. ASSUME NEW i \in DOMAIN log
        PROVE  (log'[i].state = "committed" /\ log'[i].sender = u)
                  <=> (log[i].state = "committed" /\ log[i].sender = u)
    <3>1. CASE i = r
      BY <1>5, <1>8, <2>1, <3>1
    <3>2. CASE i # r
      BY <1>5, <3>2
    <3>3. QED
      BY <3>1, <3>2
  <2>3. QED
    BY <1>5, <2>2 DEF Sent
<1>9. ASSUME NEW q \in Proc PROVE Checked(q)'
  <2>1. CASE q = p
    <3>1. pc'[p] = "idle" /\ who'[p] = NoUser /\ row'[p] = 0
      BY <1>1, <1>2 DEF TypeOK
    <3>2. QED
      BY <1>2, <2>1, <3>1 DEF Checked, PlaceKept, SecondGuard, MinuteGuard, RunGuard,
                              Locked, PastLast, PastMinute, PastRun, Stamped
  <2>2. CASE q # p
    <3>1. /\ pc'[q] = pc[q] /\ who'[q] = who[q] /\ held'[q] = held[q]
          /\ stamp'[q] = stamp[q] /\ row'[q] = row[q]
          /\ now' \in Nat /\ now <= now'
      BY <1>1, <1>2, <2>2 DEF TypeOK
    <3>2. row[q] # 0 => log'[row[q]] = log[row[q]]
      <4>1. row[q] # 0 => row[q] # r
        BY <1>2, <2>2 DEF Apart
      <4>2. row[q] \in DOMAIN log \cup {0}
        BY <1>2 DEF TypeOK
      <4>3. QED
        BY <1>5, <4>1, <4>2
    <3>3. pc[q] \in Locked /\ who[q] \in User => Sent(log', who[q]) = Sent(log, who[q])
      <4>1. SUFFICES ASSUME pc[q] \in Locked, who[q] \in User, who[q] = who[p],
                            state = "committed"
                     PROVE  FALSE
        BY <1>8
      <4>2. /\ ForUpdate(MemberRow(who[q])) \in held[q]
            /\ ForUpdate(MemberRow(who[p])) \in held[p]
        BY <1>2, <4>1 DEF Inv, Checked, PlaceKept, Locked
      <4>3. QED
        BY <1>2, <2>2, <4>1, <4>2 DEF Apart
    <3>4. QED
      BY <1>7, <3>1, <3>2, <3>3, OthersStayChecked
  <2>3. QED
    BY <2>1, <2>2
<1>10. Apart'
  BY <1>1, <1>2 DEF Apart, TypeOK
<1>11. TimesPast'
  BY <1>1, <1>2, <1>5 DEF TimesPast
<1>12. ASSUME NEW u \in User PROVE Limits(log', u)
  <2>1. Limits(log, u) /\ SentByOthers(log, u) \subseteq SentByOthers(log', u)
    BY <1>7, OthersGrow DEF Inv
  <2>2. CASE u # who[p] \/ state = "void"
    BY <1>5, <1>8, <2>1, <2>2, SameChatsSameLimits
  <2>3. CASE u = who[p] /\ state = "committed"
    <3>1. pc[p] = "commit" /\ r \in DOMAIN log /\ log[r].state = "open"
          /\ log[r].sender = u /\ log[r].at = stamp[p] /\ stamp[p] \in Int
      BY <1>2, <1>4, <2>3 DEF TypeOK
    <3>2. LongAgo(log, u, stamp[p]) /\ FewSince(log, u, stamp[p])
          /\ Interrupted(log, u, stamp[p])
      BY <1>2, <2>3, <3>1 DEF Checked, SecondGuard, MinuteGuard, RunGuard, PastLast,
                              PastMinute, PastRun, Time, Stamped
    <3>3. r \notin Sent(log, u)
      BY <3>1 DEF Sent
    <3>4. Sent(log', u) = Sent(log, u) \cup {r}
      BY <1>5, <2>3, <3>1 DEF Sent
    <3>5. log'[r].at = stamp[p]
      BY <1>5, <3>1
    <3>6. \A i \in DOMAIN log : log'[i].at = log[i].at
      BY <1>5
    <3> HIDE DEF r
    <3>7. QED
      BY <1>3, <2>1, <3>1, <3>2, <3>3, <3>4, <3>5, <3>6, CommitKeepsLimits
  <2>4. QED
    BY <2>2, <2>3
<1>13. PagesKept'
  BY <1>1, <1>7, PagesStayKept DEF Inv
<1>14. QED
  BY <1>6, <1>9, <1>10, <1>11, <1>12, <1>13 DEF Inv

\* A refused or cancelled request leaves no chat behind.
LEMMA RefuseKeepsInv == ASSUME Inv, NEW p \in Proc, Refuse(p) PROVE Inv'
BY FinishKeepsInv DEF Refuse

\* The check of the last chat.
LEMMA CheckLastKeepsInv == ASSUME Inv, NEW p \in Proc, CheckLast(p) PROVE Inv'
<1>1. CASE Refuse(p)
  BY <1>1, RefuseKeepsInv
<1>2. CASE ~Refuse(p)
  <2>1. /\ pc[p] = "last" /\ Goto(p, "minute")
        /\ UNCHANGED <<now, log, held, who, stamp, row, page>>
        /\ \A i \in ChatsOf(who[p]) : now - log[i].at >= Second
    BY <1>2 DEF CheckLast, Check
  <2>2. LongAgo(log, who[p], now)
    BY <2>1 DEF LongAgo, ChatsOf, Visible, Sent
  <2>3. QED
    BY <2>1, <2>2, MoveOnKeepsInv
<1>3. QED
  BY <1>1, <1>2

\* The check of the minute; the chats it counts are those from that time on.
LEMMA CheckMinuteKeepsInv == ASSUME Inv, NEW p \in Proc, CheckMinute(p) PROVE Inv'
<1>1. CASE Refuse(p)
  BY <1>1, RefuseKeepsInv
<1>2. CASE ~Refuse(p)
  <2>1. /\ pc[p] = "minute" /\ Goto(p, "run")
        /\ UNCHANGED <<now, log, held, who, stamp, row, page>>
        /\ Cardinality({i \in ChatsOf(who[p]) : log[i].at >= now - Minute}) < MinuteLimit
    BY <1>2 DEF CheckMinute, Check
  <2>2. {i \in ChatsOf(who[p]) : log[i].at >= now - Minute}
           = SentSince(log, who[p], now - Minute)
    BY DEF ChatsOf, Visible, Sent, SentSince
  <2>3. FewSince(log, who[p], now)
    BY <2>1, <2>2 DEF FewSince
  <2>4. who[p] \in User /\ SecondGuard(p)
    BY <2>1 DEF Inv, Checked, PlaceKept
  <2>5. LongAgo(log, who[p], now)
    BY <2>1, <2>4 DEF SecondGuard, PastLast, Time, Stamped
  <2>6. QED
    BY <2>1, <2>3, <2>5, MoveOnKeepsInv
<1>3. QED
  BY <1>1, <1>2

\* The latest chats of a room: if they are not all the sender's, then one of
\* somebody else's is among any RunLimit latest of the sender's.
LEMMA LatestInterrupts ==
    ASSUME Inv, NEW u \in User, NEW S, Latest(S),
           Cardinality(S \cap ChatsOf(u)) < RunLimit
    PROVE  Interrupted(log, u, now)
<1>1. /\ IsLog(log) /\ TimesPast /\ RunLimit \in Nat /\ now \in Int
      /\ Chats \subseteq 1 .. Len(log) /\ ChatsOf(u) = Sent(log, u)
      /\ Chats \ ChatsOf(u) = SentByOthers(log, u) /\ ChatsOf(u) \subseteq Chats
      /\ \A i \in Chats : i \in DOMAIN log /\ log[i].at \in Int
  <2>1. IsLog(log) /\ RunLimit \in Nat /\ NoUser \notin User /\ TimesPast /\ now \in Int
    BY ConstantsAssumption, LogIsLog DEF Inv, TypeOK
  <2>2. QED
    BY <2>1 DEF IsLog, Chats, ChatsOf, Visible, Sent, SentByOthers
<1>2. /\ S \subseteq Chats
      /\ Cardinality(S) = RunLimit \/ S = Chats
      /\ \A i \in S, j \in Chats \ S : log[i].at >= log[j].at
  BY DEF Latest
<1>3. ASSUME NEW t \in Int, Cardinality(SentSince(log, u, t)) >= RunLimit
      PROVE  Answered(log, u, t, now)
  <2> DEFINE A == SentSince(log, u, t)
             B == S \cap ChatsOf(u)
  <2>1. A \subseteq Sent(log, u) /\ B \subseteq Sent(log, u)
    BY <1>1 DEF SentSince
  <2>2. /\ IsFiniteSet(B) /\ Cardinality(B) \in Nat
        /\ IsFiniteSet(A) /\ Cardinality(A) \in Nat
    BY <1>1, <2>1, SentIsFinite
  <2>3. PICK a \in A : a \notin S
    <3>1. ~ (A \subseteq B)
      <4>1. SUFFICES ASSUME A \subseteq B PROVE FALSE
        OBVIOUS
      <4>2. Cardinality(A) <= Cardinality(B)
        BY <2>2, <4>1, FS_Subset
      <4> HIDE DEF B
      <4>3. Cardinality(B) < RunLimit
        BY DEF B
      <4>4. Cardinality(A) >= RunLimit
        BY <1>3
      <4> HIDE DEF A
      <4>5. QED
        BY <1>1, <2>2, <4>2, <4>3, <4>4
    <3>2. QED
      BY <1>1, <2>1, <3>1
  <2>4. a \in Chats \ S /\ log[a].at >= t
    BY <1>1, <2>1, <2>3 DEF SentSince
  <2>5. Cardinality(S) = RunLimit
    BY <1>2, <2>4
  <2>6. PICK k \in S : k \notin ChatsOf(u)
    <3>1. Cardinality(B) < RunLimit
      OBVIOUS
    <3>2. B # S
      <4> HIDE DEF B
      <4>1. QED
        BY <1>1, <2>2, <2>5, <3>1
    <3>3. QED
      BY <3>2
  <2>7. k \in SentByOthers(log, u) /\ log[k].at >= log[a].at /\ log[k].at <= now
        /\ log[k].at \in Int /\ log[a].at \in Int
    BY <1>1, <1>2, <2>4, <2>6 DEF TimesPast
  <2>8. log[k].at \in t .. now
    BY <1>1, <2>4, <2>7
  <2>9. QED
    BY <2>7, <2>8 DEF Answered
<1>4. QED
  BY <1>3 DEF Interrupted

\* The check of the latest chats.
LEMMA CheckRunKeepsInv == ASSUME Inv, NEW p \in Proc, CheckRun(p) PROVE Inv'
<1>1. CASE Refuse(p)
  BY <1>1, RefuseKeepsInv
<1>2. CASE ~Refuse(p)
  <2>1. PICK S : /\ pc[p] = "run" /\ Goto(p, "stamp")
                 /\ UNCHANGED <<now, log, held, who, stamp, row, page>>
                 /\ Latest(S)
                 /\ Cardinality(S \cap ChatsOf(who[p])) < RunLimit
    BY <1>2 DEF CheckRun, Check
  <2>2. who[p] \in User /\ SecondGuard(p) /\ MinuteGuard(p)
    BY <2>1 DEF Inv, Checked, PlaceKept
  <2>3. LongAgo(log, who[p], now) /\ FewSince(log, who[p], now)
    BY <2>1, <2>2 DEF SecondGuard, MinuteGuard, PastLast, PastMinute, Time, Stamped
  <2>4. Interrupted(log, who[p], now)
    BY <2>1, <2>2, LatestInterrupts
  <2>5. QED
    BY <2>1, <2>3, <2>4, MoveOnKeepsInv
<1>3. QED
  BY <1>1, <1>2

\* The time of the message is that of the clock.
LEMMA StampKeepsInv == ASSUME Inv, NEW p \in Proc, Stamp(p) PROVE Inv'
<1>1. /\ pc[p] = "stamp" /\ pc'[p] = "insert" /\ stamp'[p] = now
      /\ UNCHANGED <<now, log, held, who, row, page>>
      /\ OthersStay(p)
  BY DEF Inv, TypeOK, Stamp, Goto, OthersStay
<1>2. Checked(p) /\ TypeOK
  BY DEF Inv
<1>3. TypeOK'
  <2>1. pc' \in [Proc -> PC] /\ stamp' \in [Proc -> Nat]
    BY <1>2 DEF TypeOK, PC, Stamp, Goto
  <2>2. QED
    BY <1>1, <1>2, <2>1 DEF TypeOK
<1>4. Time(p)' = now /\ Time(p) = now /\ now \in Int
  BY <1>1, <1>2 DEF Time, Stamped, TypeOK
<1>5. Checked(p)'
  BY <1>1, <1>2, <1>4 DEF Checked, PlaceKept, SecondGuard, MinuteGuard, RunGuard, Locked,
                          PastLast, PastMinute, PastRun, Stamped
<1>6. QED
  BY <1>1, <1>3, <1>5, LocalStepKeepsInv

\* The new row is nobody else's and nobody sees it yet.
LEMMA InsertKeepsInv == ASSUME Inv, NEW p \in Proc, Insert(p) PROVE Inv'
<1> DEFINE m == [sender |-> who[p], at |-> stamp[p], state |-> "open"]
           n == Len(log)
<1>1. /\ TypeOK /\ Checked(p) /\ Apart /\ TimesPast
      /\ log \in Seq(MessageRow) /\ IsLog(log) /\ m \in MessageRow
  <2>1. TypeOK /\ Checked(p) /\ Apart /\ TimesPast
    BY DEF Inv
  <2>2. m \in MessageRow
    BY <2>1 DEF TypeOK, MessageRow
  <2>3. QED
    BY <2>1, <2>2, LogIsLog
<1>2. /\ pc[p] = "insert" /\ log' = Append(log, m)
      /\ row' = [row EXCEPT ![p] = Len(log')] /\ pc' = [pc EXCEPT ![p] = "commit"]
      /\ UNCHANGED <<now, held, who, stamp, page>>
  BY DEF Insert, Goto
<1>3. /\ n \in Nat /\ DOMAIN log = 1 .. n /\ DOMAIN log' = 1 .. n + 1 /\ Len(log') = n + 1
      /\ log'[n + 1] = m /\ \A i \in DOMAIN log : log'[i] = log[i]
      /\ log' \in Seq(MessageRow)
  BY <1>1, <1>2, AppendProperties DEF IsLog
<1>4. m.state = "open" /\ m.at = stamp[p] /\ m.sender = who[p]
  OBVIOUS
<1> HIDE DEF m, n
<1>5. TypeOK'
  <2>1. row' \in [Proc -> Nat] /\ pc' \in [Proc -> PC]
        /\ \A q \in Proc : row'[q] \in DOMAIN log' \cup {0}
    BY <1>1, <1>2, <1>3 DEF TypeOK, PC
  <2>2. page \in [at : {"first", "next", "done"}, cursor : Nat,
                  got : SUBSET DOMAIN log', due : SUBSET DOMAIN log']
    <3>1. DOMAIN log \subseteq DOMAIN log'
      BY <1>3
    <3>2. QED
      BY <1>1, <3>1 DEF TypeOK
  <2>3. QED
    BY <1>1, <1>2, <1>3, <2>1, <2>2 DEF TypeOK, MessageRow
<1>6. Grown(log, log')
  BY <1>3 DEF Grown
<1>7. ASSUME NEW u PROVE Sent(log', u) = Sent(log, u)
  <2>1. n + 1 \notin Sent(log', u)
    BY <1>3, <1>4 DEF Sent
  <2>2. \A i \in DOMAIN log : i \in Sent(log', u) <=> i \in Sent(log, u)
    BY <1>3 DEF Sent
  <2>3. QED
    BY <1>3, <2>1, <2>2 DEF Sent
<1>8. row'[p] = n + 1 /\ pc'[p] = "commit"
      /\ \A q \in Proc : q # p => row'[q] = row[q] /\ pc'[q] = pc[q]
  BY <1>1, <1>2, <1>3 DEF TypeOK
<1>9. ASSUME NEW q \in Proc PROVE Checked(q)'
  <2>1. CASE q = p
    <3>1. Time(p)' = Time(p)
      BY <1>2, <1>8 DEF Time, Stamped
    <3>2. row'[p] \in DOMAIN log'
          /\ log'[row'[p]] = [sender |-> who'[p], at |-> stamp'[p], state |-> "open"]
      BY <1>2, <1>3, <1>8 DEF m
    <3>3. PlaceKept(p)'
      BY <1>1, <1>2, <1>8, <3>2 DEF Checked, PlaceKept, Locked, Stamped
    <3>4. ASSUME NEW u
          PROVE  /\ \A s : LongAgo(log, u, s) => LongAgo(log', u, s)
                 /\ \A s : FewSince(log, u, s) => FewSince(log', u, s)
                 /\ \A s : Interrupted(log, u, s) => Interrupted(log', u, s)
      BY <1>3, <1>6, <1>7, OthersGrow, SameChatsSameLimits
    <3>5. SecondGuard(p)' /\ MinuteGuard(p)' /\ RunGuard(p)'
      BY <1>1, <1>2, <1>8, <3>1, <3>4 DEF Checked, SecondGuard, MinuteGuard, RunGuard,
                                          PastLast, PastMinute, PastRun
    <3>6. QED
      BY <2>1, <3>3, <3>5 DEF Checked
  <2>2. CASE q # p
    <3>1. row[q] # 0 => log'[row[q]] = log[row[q]]
      BY <1>1, <1>3 DEF TypeOK
    <3>2. now' \in Nat /\ now <= now'
      BY <1>1, <1>2 DEF TypeOK
    <3>3. QED
      BY <1>2, <1>6, <1>7, <1>8, <2>2, <3>1, <3>2, OthersStayChecked
  <2>3. QED
    BY <2>1, <2>2
<1>10. Apart'
  <2>1. \A q \in Proc : row[q] # n + 1
    BY <1>1, <1>3 DEF TypeOK
  <2>2. QED
    BY <1>1, <1>2, <1>8, <2>1 DEF Apart
<1>11. TimesPast'
  <2>1. stamp[p] <= now
    BY <1>1, <1>2 DEF Checked, PlaceKept, Stamped
  <2>2. QED
    BY <1>1, <1>2, <1>3, <1>4, <2>1 DEF TimesPast
<1>12. ASSUME NEW u \in User PROVE Limits(log', u)
  <2>1. Limits(log, u) /\ SentByOthers(log, u) \subseteq SentByOthers(log', u)
    BY <1>6, OthersGrow DEF Inv
  <2>2. QED
    BY <1>3, <1>7, <2>1, SameChatsSameLimits
<1>13. PagesKept'
  BY <1>2, <1>6, PagesStayKept DEF Inv
<1>14. QED
  BY <1>5, <1>9, <1>10, <1>11, <1>12, <1>13 DEF Inv

\* The clock goes on.
LEMMA TickKeepsInv == ASSUME Inv, Tick PROVE Inv'
<1>1. /\ now' = now + 1 /\ UNCHANGED <<log, held, pc, who, stamp, row, page>>
      /\ TypeOK /\ now \in Nat
  BY DEF Inv, TypeOK, Tick
<1>2. Grown(log, log') /\ now' \in Nat /\ now <= now'
  BY <1>1 DEF Grown
<1>3. ASSUME NEW q \in Proc PROVE Checked(q)'
  BY <1>1, <1>2, OthersStayChecked
<1>4. TypeOK' /\ Apart'
  BY <1>1 DEF Inv, TypeOK, Apart
<1>5. TimesPast'
  <2>1. \A i \in DOMAIN log : log[i].at \in Int /\ log[i].at <= now
    BY <1>1, LogIsLog DEF Inv, TimesPast, IsLog
  <2>2. QED
    BY <1>1, <2>1 DEF TimesPast
<1>6. ASSUME NEW u \in User PROVE Limits(log', u)
  BY <1>1 DEF Inv
<1>7. PagesKept'
  BY <1>1, <1>2, PagesStayKept DEF Inv
<1>8. QED
  BY <1>3, <1>4, <1>5, <1>6, <1>7 DEF Inv
-----------------------------------------------------------------------------
(* ListMessages.                                                           *)

\* A set of natural numbers that is not empty has a least element, and a
\* greatest one if it has a bound.
LEMMA Extremes ==
    ASSUME NEW T \in SUBSET Nat, T # {}
    PROVE  /\ \E i \in T : \A j \in T : i <= j
           /\ \A n \in Nat : T \subseteq 1 .. n => \E i \in T : \A j \in T : j <= i
<1>1. ASSUME NEW S \in SUBSET Nat, S # {} PROVE \E i \in S : \A j \in S : i <= j
  <2> DEFINE less == OpToRel(<, Nat)
  <2>1. IsWellFoundedOn(less, Nat)
    BY NatLessThanWellFounded
  <2> HIDE DEF less
  <2>2. PICK i \in S : \A j \in S : ~ (<<j, i>> \in less)
    BY <1>1, <2>1, WFMin
  <2>3. ASSUME NEW j \in S PROVE i <= j
    <3>1. j < i => <<j, i>> \in less
      BY DEF less, OpToRel
    <3>2. QED
      BY <2>2, <3>1
  <2>4. QED
    BY <2>3
<1>2. ASSUME NEW n \in Nat, T \subseteq 1 .. n PROVE \E i \in T : \A j \in T : j <= i
  <2> DEFINE S == {k \in Nat : n - k \in T}
  <2>1. S \in SUBSET Nat /\ S # {}
    <3>1. PICK i \in T : TRUE
      OBVIOUS
    <3>2. n - i \in S
      BY <1>2, <3>1
    <3>3. QED
      BY <3>2
  <2>2. PICK k \in S : \A j \in S : k <= j
    BY <1>1, <2>1
  <2>3. ASSUME NEW j \in T PROVE j <= n - k
    <3>1. n - j \in S
      BY <1>2
    <3>2. k <= n - j
      BY <2>2, <3>1
    <3>3. QED
      BY <1>2, <3>2
  <2>4. QED
    BY <2>2, <2>3
<1>3. QED
  BY <1>1, <1>2

\* The elements of B above i, and the PageSize greatest ones of B.
Above(B, i) == {j \in B : j > i}
Top(B) == {i \in B : Cardinality(Above(B, i)) < PageSize}

\* The higher an element, the fewer are above it.
LEMMA FewerAreAbove ==
    ASSUME NEW n \in Nat, NEW B \in SUBSET (1 .. n), NEW i \in B, NEW j \in B, j <= i
    PROVE  /\ Cardinality(Above(B, i)) <= Cardinality(Above(B, j))
           /\ Cardinality(Above(B, i)) \in Nat /\ Cardinality(Above(B, j)) \in Nat
<1>1. IsFiniteSet(1 .. n)
  BY FS_Interval
<1>2. IsFiniteSet(B)
  BY <1>1, FS_Subset
<1>3. Above(B, i) \in SUBSET B /\ Above(B, j) \in SUBSET B
  BY DEF Above
<1>4. IsFiniteSet(Above(B, i)) /\ IsFiniteSet(Above(B, j))
  BY <1>2, <1>3, FS_Subset
<1>5. B \subseteq Nat /\ i \in Nat /\ j \in Nat
  OBVIOUS
<1>6. Above(B, i) \in SUBSET Above(B, j)
  <2>1. ASSUME NEW k \in Above(B, i) PROVE k \in Above(B, j)
    <3>1. k \in B /\ k > i
      BY DEF Above
    <3>2. k > j
      BY <1>5, <3>1
    <3>3. QED
      BY <3>1, <3>2 DEF Above
  <2>2. QED
    BY <2>1
<1>7. QED
  BY <1>4, <1>6, FS_Subset, FS_CardinalityType

\* The greatest elements of a set B of positive numbers: none only if B is
\* empty, and above all the rest of B.
LEMMA TopOfSet ==
    ASSUME NEW n \in Nat, NEW B \in SUBSET (1 .. n), NEW S, S = Top(B)
    PROVE  /\ S = {} => B = {}
           /\ \A i \in B \ S : \A j \in S : i < j
           /\ S # {} => Min(S) \in S
<1>1. /\ PageSize \in Nat \ {0} /\ B \in SUBSET Nat
      /\ \A i \in B : i \in S <=> Cardinality(Above(B, i)) < PageSize
      /\ S \subseteq B /\ S \in SUBSET Nat
  <2>1. S \subseteq B /\ \A i \in B : i \in S <=> Cardinality(Above(B, i)) < PageSize
    BY Zenon DEF Top
  <2>2. PageSize \in Nat \ {0} /\ B \in SUBSET Nat
    BY ConstantsAssumption
  <2>3. QED
    BY <2>1, <2>2
<1>2. ASSUME B # {} PROVE S # {}
  <2>1. PICK m \in B : \A j \in B : j <= m
    BY <1>1, <1>2, Extremes
  <2>2. ASSUME NEW j \in B PROVE ~ (j > m)
    BY <1>1, <2>1
  <2>3. Above(B, m) = {}
    BY <2>2 DEF Above
  <2>4. Cardinality(Above(B, m)) < PageSize
    BY <1>1, <2>3, FS_EmptySet
  <2>5. QED
    BY <1>1, <2>4
<1>3. ASSUME NEW i \in B \ S, NEW j \in S PROVE i < j
  <2>1. i \in Nat /\ j \in Nat /\ j \in B
    BY <1>1
  <2>2. SUFFICES ASSUME j <= i PROVE FALSE
    BY <2>1
  <2>3. Cardinality(Above(B, j)) < PageSize /\ ~ (Cardinality(Above(B, i)) < PageSize)
    BY <1>1, <1>3, <2>1
  <2>4. /\ Cardinality(Above(B, i)) <= Cardinality(Above(B, j))
        /\ Cardinality(Above(B, i)) \in Nat /\ Cardinality(Above(B, j)) \in Nat
    BY <1>3, <2>1, <2>2, FewerAreAbove
  <2>5. QED
    BY <1>1, <2>3, <2>4
<1>4. ASSUME S # {} PROVE Min(S) \in S
  <2>1. \E i \in S : \A j \in S : i <= j
    BY <1>1, <1>4, Extremes
  <2>2. QED
    BY <2>1 DEF Min
<1>5. QED
  BY <1>2, <1>3, <1>4

\* A page is empty only if there is nothing before the cursor; otherwise all
\* that is before the cursor and not on the page is below the whole page.
LEMMA PageIsTop ==
    ASSUME TypeOK, NEW c \in Nat
    PROVE  /\ Page(c) \subseteq Before(c) /\ Before(c) \subseteq Visible
           /\ Visible \in SUBSET (Nat \ {0})
           /\ Page(c) = {} => Before(c) = {}
           /\ \A i \in Before(c) \ Page(c) : \A j \in Page(c) : i < j
           /\ Page(c) # {} => Min(Page(c)) \in Page(c)
<1>1. /\ Before(c) \subseteq Visible
      /\ Visible \subseteq 1 .. Len(log) /\ Len(log) \in Nat
  BY LogIsLog DEF Before, Visible, IsLog
<1>2. Page(c) = Top(Before(c)) /\ Page(c) \subseteq Before(c)
  BY Zenon DEF Page, Top, Above
<1>3. Before(c) \in SUBSET (1 .. Len(log))
  BY <1>1
<1>4. /\ Page(c) = {} => Before(c) = {}
      /\ \A i \in Before(c) \ Page(c) : \A j \in Page(c) : i < j
      /\ Page(c) # {} => Min(Page(c)) \in Page(c)
  BY <1>1, <1>2, <1>3, TopOfSet
<1>5. Visible \in SUBSET (Nat \ {0})
  BY <1>1
<1>6. QED
  BY <1>1, <1>2, <1>4, <1>5

\* A page more: what was due is read or still below the cursor.
LEMMA ListKeepsInv == ASSUME Inv, ListMessages PROVE Inv'
<1> DEFINE c == page.cursor
           read == Page(c)
<1>1. TypeOK /\ PagesKept /\ c \in Nat
  BY DEF Inv, TypeOK
<1>2. /\ page.at # "done"
      /\ page' = [at     |-> IF read = {} THEN "done" ELSE "next",
                  cursor |-> IF read = {} THEN c ELSE Min(read),
                  got    |-> page.got \cup read,
                  due    |-> IF page.at = "first" THEN Visible ELSE page.due]
      /\ UNCHANGED <<now, log, held, pc, who, stamp, row>>
  BY DEF ListMessages
<1>3. /\ read \subseteq Before(c) /\ Before(c) \subseteq Visible
      /\ Visible \in SUBSET (Nat \ {0})
      /\ read = {} => Before(c) = {}
      /\ \A i \in Before(c) \ read : \A j \in read : i < j
      /\ read # {} => Min(read) \in read
  BY <1>1, PageIsTop
<1>4. Visible' = Visible /\ Visible \subseteq DOMAIN log
  BY <1>2 DEF Visible
<1>5. \A i \in Visible : i \in Before(c) \/ (c > 0 /\ ~ (i < c))
  BY <1>1 DEF Before
<1>6. page.at \in {"first", "next", "done"}
  BY <1>1 DEF TypeOK
<1> DEFINE due == IF page.at = "first" THEN Visible ELSE page.due
<1>7. ASSUME NEW i \in due PROVE i \in page.got \/ i \in Before(c)
  <2>1. CASE page.at = "first"
    <3>1. c = 0
      BY <1>1, <2>1 DEF PagesKept, Unread
    <3>2. QED
      BY <1>5, <2>1, <3>1
  <2>2. CASE page.at = "next"
    <3>1. i \in page.due /\ i \in Visible /\ (i \in page.got \/ i < c)
      BY <1>1, <2>2 DEF PagesKept
    <3>2. QED
      BY <1>1, <1>5, <3>1
  <2>3. QED
    BY <1>2, <1>6, <2>1, <2>2
<1> HIDE DEF read, c
<1>8. due \subseteq Visible /\ page.got \cup read \subseteq Visible
  BY <1>1, <1>3 DEF PagesKept
<1>9. PagesKept'
  <2>1. page'.got \subseteq Visible' /\ page'.due \subseteq Visible'
    BY <1>2, <1>4, <1>8
  <2>2. CASE read = {}
    <3>1. page'.at = "done" /\ page'.got = page.got \cup read /\ page'.due = due
      BY <1>2, <2>2
    <3>2. page'.due \subseteq page'.got
      BY <1>3, <1>7, <2>2, <3>1
    <3>3. QED
      BY <2>1, <3>1, <3>2 DEF PagesKept
  <2>3. CASE read # {}
    <3>1. /\ page'.at = "next" /\ page'.got = page.got \cup read /\ page'.due = due
          /\ page'.cursor = Min(read)
      BY <1>2, <2>3
    <3>2. Min(read) > 0
      <4>1. Min(read) \in Nat \ {0}
        BY <1>3, <2>3
      <4>2. QED
        BY <4>1
    <3>3. ASSUME NEW i \in due PROVE i \in page.got \cup read \/ i < Min(read)
      BY <1>3, <1>7, <2>3
    <3>4. QED
      BY <2>1, <3>1, <3>2, <3>3 DEF PagesKept
  <2>4. QED
    BY <2>2, <2>3
<1>10. TypeOK'
  <2>1. page' \in [at : {"first", "next", "done"}, cursor : Nat,
                   got : SUBSET DOMAIN log, due : SUBSET DOMAIN log]
    <3>1. (IF read = {} THEN c ELSE Min(read)) \in Nat
      BY <1>1, <1>3
    <3>2. page.got \cup read \in SUBSET DOMAIN log /\ due \in SUBSET DOMAIN log
      BY <1>4, <1>8
    <3> HIDE DEF due
    <3>3. QED
      BY <1>2, <3>1, <3>2 DEF due
  <2>2. QED
    BY <1>1, <1>2, <2>1 DEF TypeOK
<1>11. /\ Apart' /\ TimesPast' /\ \A p \in Proc : Checked(p)'
       /\ \A u \in User : Limits(log, u)'
  BY <1>2 DEF Inv, Apart, TimesPast, Checked, PlaceKept, SecondGuard, MinuteGuard,
              RunGuard, Time
<1>12. QED
  BY <1>9, <1>10, <1>11 DEF Inv

\* A reader starts again.
LEMMA RestartKeepsInv == ASSUME Inv, Restart PROVE Inv'
<1>1. page' = Unread /\ UNCHANGED <<now, log, held, pc, who, stamp, row>>
  BY DEF Restart
<1>2. TypeOK'
  BY <1>1 DEF Inv, TypeOK, Unread
<1>3. PagesKept'
  BY <1>1 DEF PagesKept, Unread
<1>4. /\ Apart' /\ TimesPast' /\ \A p \in Proc : Checked(p)'
      /\ \A u \in User : Limits(log, u)'
  BY <1>1 DEF Inv, Apart, TimesPast, Checked, PlaceKept, SecondGuard, MinuteGuard,
              RunGuard, Time
<1>5. QED
  BY <1>2, <1>3, <1>4 DEF Inv
-----------------------------------------------------------------------------
(* The theorems.                                                           *)

\* The invariant holds before anything is sent.
LEMMA InitIsInv == Init => Inv
<1>1. SUFFICES ASSUME Init PROVE Inv
  OBVIOUS
<1>2. TypeOK
  BY <1>1 DEF Init, TypeOK, Unread, PC
<1>3. DOMAIN log = {}
  BY <1>1 DEF Init
<1>4. Apart /\ TimesPast
  BY <1>1, <1>3 DEF Init, Apart, TimesPast
<1>5. \A p \in Proc : Checked(p)
  BY <1>1 DEF Init, Checked, PlaceKept, SecondGuard, MinuteGuard, RunGuard, Locked,
              PastLast, PastMinute, PastRun, Stamped
<1>6. \A u \in User : Limits(log, u)
  BY <1>3 DEF Limits, Sent
<1>7. PagesKept
  BY <1>1 DEF Init, PagesKept, Unread
<1>8. QED
  BY <1>2, <1>4, <1>5, <1>6, <1>7 DEF Inv

\* Every step keeps the invariant.
LEMMA NextKeepsInv == Inv /\ [Next]_vars => Inv'
<1>1. SUFFICES ASSUME Inv, [Next]_vars PROVE Inv'
  OBVIOUS
<1>2. ASSUME NEW p \in Proc, SendMessage(p) PROVE Inv'
  <2>1. CASE Commit(p)
    BY <1>1, <2>1, FinishKeepsInv DEF Commit
  <2>2. QED
    BY <1>1, <1>2, <2>1, LockMemberKeepsInv, CheckLastKeepsInv, CheckMinuteKeepsInv,
       CheckRunKeepsInv, StampKeepsInv, InsertKeepsInv DEF SendMessage
<1>3. CASE UNCHANGED vars
  <2>1. UNCHANGED <<now, log, held, pc, who, stamp, row, page>>
    BY <1>3 DEF vars
  <2>2. TypeOK' /\ Apart' /\ TimesPast' /\ PagesKept'
    BY <1>1, <2>1 DEF Inv, TypeOK, Apart, TimesPast, PagesKept, Visible
  <2>3. \A p \in Proc : Checked(p)'
    BY <1>1, <2>1 DEF Inv, Checked, PlaceKept, SecondGuard, MinuteGuard, RunGuard, Time
  <2>4. \A u \in User : Limits(log, u)'
    BY <1>1, <2>1 DEF Inv
  <2>5. QED
    BY <2>2, <2>3, <2>4 DEF Inv
<1>4. QED
  BY <1>1, <1>2, <1>3, StartKeepsInv, RefuseKeepsInv, ListKeepsInv, RestartKeepsInv,
     TickKeepsInv DEF Next

\* The invariant holds in every behaviour.
LEMMA InvAlways == Spec => []Inv
BY InitIsInv, NextKeepsInv, PTL DEF Spec

\* The table, the handlers and the reader keep their types.
THEOREM TypeCorrect == Spec => []TypeOK
<1>1. Inv => TypeOK
  BY DEF Inv
<1>2. QED
  BY <1>1, InvAlways, PTL

\* However many requests of one sender are in flight, no two of the chats they
\* commit are less than a second apart.
THEOREM SecondIsKept == Spec => []OncePerSecond
<1>1. Inv => OncePerSecond
  BY LimitsAreKept DEF Inv
<1>2. QED
  BY <1>1, InvAlways, PTL

\* No minute holds more of a sender's chats than SendMessage counts up to,
\* although it counts before it takes the time of the new message.
THEOREM MinuteIsKept == Spec => []MinuteHoldsFew
<1>1. Inv => MinuteHoldsFew
  BY LimitsAreKept DEF Inv
<1>2. QED
  BY <1>1, InvAlways, PTL

\* A sender's run of chats that nobody answers is no longer than the limit,
\* although the answers are inserted and committed in other orders.
THEOREM RunIsKept == Spec => []NoLongRun
<1>1. Inv => NoLongRun
  BY LimitsAreKept DEF Inv
<1>2. QED
  BY <1>1, InvAlways, PTL

\* A client that pages to the end with ListMessages misses nothing that was
\* there when it began and reads nothing that was rolled back.
THEOREM PagesAreComplete == Spec => []PagingIsComplete
<1>1. Inv => PagingIsComplete
  BY DEF Inv, PagesKept, PagingIsComplete
<1>2. QED
  BY <1>1, InvAlways, PTL
=============================================================================
