--------------------------- MODULE ProcessProofs ---------------------------
(***************************************************************************)
(* Proofs about the start of the process: its types, and that nothing is   *)
(* served before the tables and the check on amounts are there.  A start   *)
(* that goes wrong proves nothing about the next one, so the invariant     *)
(* says of every phase what this process has seen or done itself: of the   *)
(* bootstrap, the statements that are behind it (BootstrapKept); of        *)
(* ensureTransferAmountConstraint, the checks it has dropped and added     *)
(* (AmountKept); of a behaviour without a fault, that a start creates      *)
(* either nothing or everything (FaultFree).  That a start never stops at  *)
(* a statement that cannot be run is part of it: what each statement needs *)
(* is created by an earlier one (NeedsAreMet), and the check it adds has   *)
(* been dropped before.                                                    *)
(***************************************************************************)
EXTENDS Process, SequenceTheorems, TLAPS

\* The members of a list, by the positions they are at.
Names(list) == {list[i] : i \in DOMAIN list}

\* What statements create, drop or add.
Named == Names(Types) \cup Names(Tables) \cup Names(Indexes)
            \cup {"amount_check", "amount_nonzero_check"}

\* The statements of the scripts.
StatementType == [op : {"create", "drop", "add"}, name : Named]

\* A list that follows another one.
LEMMA ConcatAt ==
    ASSUME NEW S, NEW s \in Seq(S), NEW t \in Seq(S)
    PROVE  /\ s \o t \in Seq(S) /\ Len(s \o t) = Len(s) + Len(t)
           /\ \A i \in 1 .. Len(s) : (s \o t)[i] = s[i]
           /\ \A i \in Len(s) + 1 .. Len(s) + Len(t) : (s \o t)[i] = t[i - Len(s)]
OBVIOUS

\* The lists of what there is to create.
LEMMA Lists ==
    /\ Types \in Seq(Named) /\ Len(Types) = 4
    /\ Tables \in Seq(Named) /\ Len(Tables) = 10
    /\ Indexes \in Seq(Named) /\ Len(Indexes) = 8
    /\ \A i \in 1 .. 10 : Tables[i] \in Named
<1>1. DOMAIN Types = 1 .. 4 /\ Types = [i \in 1 .. 4 |-> Types[i]]
  BY DEF Types
<1>2. DOMAIN Tables = 1 .. 10 /\ Tables = [i \in 1 .. 10 |-> Tables[i]]
  BY DEF Tables
<1>3. DOMAIN Indexes = 1 .. 8 /\ Indexes = [i \in 1 .. 8 |-> Indexes[i]]
  BY DEF Indexes
<1>4. /\ \A i \in DOMAIN Types : Types[i] \in Named
      /\ \A i \in DOMAIN Tables : Tables[i] \in Named
      /\ \A i \in DOMAIN Indexes : Indexes[i] \in Named
  BY DEF Named, Names
<1>5. QED
  BY <1>1, <1>2, <1>3, <1>4


\* The statements that create the objects of a list.
LEMMA CreatingAt ==
    ASSUME NEW names \in Seq(Named), NEW n \in Nat, Len(names) = n
    PROVE  /\ Creating(names) \in Seq(StatementType) /\ Len(Creating(names)) = n
           /\ \A i \in 1 .. n : Creating(names)[i] = Statement("create", names[i])
<1>1. DOMAIN names = 1 .. n /\ \A i \in 1 .. n : names[i] \in Named
  OBVIOUS
<1>2. \A x \in Named : Statement("create", x) \in StatementType
  BY DEF Statement, StatementType
<1>3. Creating(names) = [i \in 1 .. n |-> Statement("create", names[i])]
  BY <1>1 DEF Creating
<1>4. Creating(names) \in [1 .. n -> StatementType]
  BY <1>1, <1>2, <1>3
<1>5. Creating(names) \in Seq(StatementType) /\ Len(Creating(names)) = n
  BY <1>4
<1>6. QED
  BY <1>3, <1>5

\* The three statements about the check of the amounts.
LEMMA AmountStatements ==
    /\ AmountScript \in Seq(StatementType) /\ Len(AmountScript) = 3
    /\ AmountScript[1] = Statement("drop", "amount_check")
    /\ AmountScript[2] = Statement("drop", "amount_nonzero_check")
    /\ AmountScript[3] = Statement("add", "amount_nonzero_check")
<1>1. "amount_check" \in Named /\ "amount_nonzero_check" \in Named
  BY DEF Named
<1>2. /\ Statement("drop", "amount_check") \in StatementType
      /\ Statement("drop", "amount_nonzero_check") \in StatementType
      /\ Statement("add", "amount_nonzero_check") \in StatementType
  BY <1>1 DEF Statement, StatementType
<1>3. QED
  BY <1>2 DEF AmountScript

\* The script, statement by statement.
LEMMA ScriptStatements ==
    /\ Script \in Seq(StatementType) /\ Len(Script) = 25
    /\ \A i \in 1 .. 4 : Script[i] = Statement("create", Types[i])
    /\ \A i \in 5 .. 10 : Script[i] = Statement("create", Tables[i - 4])
    /\ \A i \in 11 .. 13 : Script[i] = AmountScript[i - 10]
    /\ \A i \in 14 .. 17 : Script[i] = Statement("create", Tables[i - 7])
    /\ \A i \in 18 .. 25 : Script[i] = Statement("create", Indexes[i - 17])
<1>1. /\ Creating(Types) \in Seq(StatementType) /\ Len(Creating(Types)) = 4
      /\ \A i \in 1 .. 4 : Creating(Types)[i] = Statement("create", Types[i])
  BY Lists, CreatingAt
<1>2. /\ Creating(Indexes) \in Seq(StatementType) /\ Len(Creating(Indexes)) = 8
      /\ \A i \in 1 .. 8 : Creating(Indexes)[i] = Statement("create", Indexes[i])
  BY Lists, CreatingAt
<1> DEFINE first == SubSeq(Tables, 1, 6)
           last  == SubSeq(Tables, 7, 10)
<1>3. /\ first \in Seq(Named) /\ Len(first) = 6
      /\ \A i \in 1 .. 6 : first[i] = Tables[i]
  <2>1. \A i \in 1 .. 6 : Tables[i] \in Named
    BY Lists
  <2>2. /\ first \in Seq(Named) /\ Len(first) = IF 1 <= 6 THEN 6 - 1 + 1 ELSE 0
        /\ \A i \in 1 .. 6 - 1 + 1 : first[i] = Tables[1 + i - 1]
    BY <2>1, SubSeqProperties
  <2>3. 6 - 1 + 1 = 6 /\ \A i \in 1 .. 6 : 1 + i - 1 = i
    OBVIOUS
  <2>4. QED
    BY <2>2, <2>3
<1>4. /\ last \in Seq(Named) /\ Len(last) = 4
      /\ \A i \in 1 .. 4 : last[i] = Tables[6 + i]
  <2>1. \A i \in 7 .. 10 : Tables[i] \in Named
    BY Lists
  <2>2. /\ last \in Seq(Named) /\ Len(last) = IF 7 <= 10 THEN 10 - 7 + 1 ELSE 0
        /\ \A i \in 1 .. 10 - 7 + 1 : last[i] = Tables[7 + i - 1]
    BY <2>1, SubSeqProperties
  <2>3. 10 - 7 + 1 = 4 /\ \A i \in 1 .. 4 : 7 + i - 1 = 6 + i
    OBVIOUS
  <2>4. QED
    BY <2>2, <2>3
<1>5. Script = Creating(Types) \o Creating(first) \o AmountScript \o Creating(last)
                  \o Creating(Indexes)
  BY DEF Script
<1> HIDE DEF first, last
<1>6. /\ Creating(first) \in Seq(StatementType) /\ Len(Creating(first)) = 6
      /\ \A i \in 1 .. 6 : Creating(first)[i] = Statement("create", Tables[i])
  BY <1>3, CreatingAt
<1>7. /\ Creating(last) \in Seq(StatementType) /\ Len(Creating(last)) = 4
      /\ \A i \in 1 .. 4 : Creating(last)[i] = Statement("create", Tables[6 + i])
  BY <1>4, CreatingAt
<1> DEFINE S == StatementType
           a == Creating(Types)
           b == Creating(first)
           c == AmountScript
           d == Creating(last)
           e == Creating(Indexes)
           f == a \o b
           g == f \o c
           h == g \o d
           s == h \o e
<1>8. /\ a \in Seq(S) /\ Len(a) = 4 /\ \A i \in 1 .. 4 : a[i] = Statement("create", Types[i])
      /\ b \in Seq(S) /\ Len(b) = 6 /\ \A i \in 1 .. 6 : b[i] = Statement("create", Tables[i])
      /\ c \in Seq(S) /\ Len(c) = 3 /\ c = AmountScript
      /\ d \in Seq(S) /\ Len(d) = 4 /\ \A i \in 1 .. 4 : d[i] = Statement("create", Tables[6 + i])
      /\ e \in Seq(S) /\ Len(e) = 8 /\ \A i \in 1 .. 8 : e[i] = Statement("create", Indexes[i])
  BY <1>1, <1>2, <1>6, <1>7, AmountStatements
<1>9. Script = s
  BY <1>5
<1> HIDE DEF a, b, c, d, e, f, g, h, s
<1>10. /\ f \in Seq(S) /\ Len(f) = 10
       /\ \A i \in 1 .. 4 : f[i] = a[i]
       /\ \A i \in 5 .. 10 : f[i] = b[i - 4]
  <2>1. a \in Seq(S) /\ b \in Seq(S)
    BY <1>8
  <2>2. Len(a) = 4 /\ Len(a) + 1 = 5 /\ Len(a) + Len(b) = 10
    BY <1>8
  <2>3. /\ f \in Seq(S) /\ Len(f) = Len(a) + Len(b)
        /\ \A i \in 1 .. Len(a) : f[i] = a[i]
        /\ \A i \in Len(a) + 1 .. Len(a) + Len(b) : f[i] = b[i - Len(a)]
    BY Zenon, <2>1, ConcatAt DEF f
  <2>4. QED
    BY <2>2, <2>3
<1>11. /\ g \in Seq(S) /\ Len(g) = 13
       /\ \A i \in 1 .. 10 : g[i] = f[i]
       /\ \A i \in 11 .. 13 : g[i] = c[i - 10]
  <2>1. f \in Seq(S) /\ c \in Seq(S)
    BY <1>8, <1>10
  <2>2. Len(f) = 10 /\ Len(f) + 1 = 11 /\ Len(f) + Len(c) = 13
    BY <1>8, <1>10
  <2>3. /\ g \in Seq(S) /\ Len(g) = Len(f) + Len(c)
        /\ \A i \in 1 .. Len(f) : g[i] = f[i]
        /\ \A i \in Len(f) + 1 .. Len(f) + Len(c) : g[i] = c[i - Len(f)]
    BY Zenon, <2>1, ConcatAt DEF g
  <2>4. QED
    BY <2>2, <2>3
<1>12. /\ h \in Seq(S) /\ Len(h) = 17
       /\ \A i \in 1 .. 13 : h[i] = g[i]
       /\ \A i \in 14 .. 17 : h[i] = d[i - 13]
  <2>1. g \in Seq(S) /\ d \in Seq(S)
    BY <1>8, <1>11
  <2>2. Len(g) = 13 /\ Len(g) + 1 = 14 /\ Len(g) + Len(d) = 17
    BY <1>8, <1>11
  <2>3. /\ h \in Seq(S) /\ Len(h) = Len(g) + Len(d)
        /\ \A i \in 1 .. Len(g) : h[i] = g[i]
        /\ \A i \in Len(g) + 1 .. Len(g) + Len(d) : h[i] = d[i - Len(g)]
    BY Zenon, <2>1, ConcatAt DEF h
  <2>4. QED
    BY <2>2, <2>3
<1>13. /\ s \in Seq(S) /\ Len(s) = 25
       /\ \A i \in 1 .. 17 : s[i] = h[i]
       /\ \A i \in 18 .. 25 : s[i] = e[i - 17]
  <2>1. h \in Seq(S) /\ e \in Seq(S)
    BY <1>8, <1>12
  <2>2. Len(h) = 17 /\ Len(h) + 1 = 18 /\ Len(h) + Len(e) = 25
    BY <1>8, <1>12
  <2>3. /\ s \in Seq(S) /\ Len(s) = Len(h) + Len(e)
        /\ \A i \in 1 .. Len(h) : s[i] = h[i]
        /\ \A i \in Len(h) + 1 .. Len(h) + Len(e) : s[i] = e[i - Len(h)]
    BY Zenon, <2>1, ConcatAt DEF s
  <2>4. QED
    BY <2>2, <2>3
<1>14. \A i \in 1 .. 17 : s[i] = h[i]
  BY <1>13
<1>15. \A i \in 1 .. 13 : s[i] = g[i]
  <2>1. \A i \in 1 .. 13 : i \in 1 .. 17
    OBVIOUS
  <2>2. QED
    BY <1>12, <1>14, <2>1
<1>16. \A i \in 1 .. 10 : s[i] = f[i]
  <2>1. \A i \in 1 .. 10 : i \in 1 .. 13
    OBVIOUS
  <2>2. QED
    BY <1>11, <1>15, <2>1
<1>17. \A i \in 1 .. 4 : s[i] = Statement("create", Types[i])
  <2>1. \A i \in 1 .. 4 : i \in 1 .. 10
    OBVIOUS
  <2>2. QED
    BY <1>8, <1>10, <1>16, <2>1
<1>18. \A i \in 5 .. 10 : s[i] = Statement("create", Tables[i - 4])
  <2>1. \A i \in 5 .. 10 : i \in 1 .. 10 /\ i - 4 \in 1 .. 6
    OBVIOUS
  <2>2. QED
    BY <1>8, <1>10, <1>16, <2>1
<1>19. \A i \in 11 .. 13 : s[i] = AmountScript[i - 10]
  <2>1. \A i \in 11 .. 13 : i \in 1 .. 13
    OBVIOUS
  <2>2. QED
    BY <1>8, <1>11, <1>15, <2>1
<1>20. \A i \in 14 .. 17 : s[i] = Statement("create", Tables[i - 7])
  <2>1. \A i \in 14 .. 17 : i \in 1 .. 17 /\ i - 13 \in 1 .. 4 /\ 6 + (i - 13) = i - 7
    OBVIOUS
  <2>2. QED
    BY <1>8, <1>12, <1>14, <2>1
<1>21. \A i \in 18 .. 25 : s[i] = Statement("create", Indexes[i - 17])
  <2>1. \A i \in 18 .. 25 : i - 17 \in 1 .. 8
    OBVIOUS
  <2>2. \A i \in 18 .. 25 : s[i] = e[i - 17]
    BY <1>13
  <2>3. \A i \in 1 .. 8 : e[i] = Statement("create", Indexes[i])
    BY <1>8
  <2>4. QED
    BY <2>1, <2>2, <2>3
<1>22. QED
  BY Zenon, <1>9, <1>13, <1>17, <1>18, <1>19, <1>20, <1>21 DEF S

\* Where the objects that others need are created.
LEMMA Positions ==
    /\ Script[1] = Statement("create", "user_role")
    /\ Script[2] = Statement("create", "room_status")
    /\ Script[3] = Statement("create", "message_type")
    /\ Script[4] = Statement("create", "transfer_status")
    /\ Script[5] = Statement("create", "users")
    /\ Script[6] = Statement("create", "activation_codes")
    /\ Script[7] = Statement("create", "activation_redeems")
    /\ Script[8] = Statement("create", "rooms")
    /\ Script[9] = Statement("create", "room_members")
    /\ Script[10] = Statement("create", "score_transfers")
    /\ Script[14] = Statement("create", "room_messages")
    /\ Script[15] = Statement("create", "room_events")
    /\ Script[16] = Statement("create", "match_records")
    /\ Script[17] = Statement("create", "match_record_players")
    /\ Script[18] = Statement("create", "idx_users")
    /\ Script[19] = Statement("create", "idx_rooms")
    /\ Script[20] = Statement("create", "idx_rooms_status")
    /\ Script[21] = Statement("create", "idx_members_online")
    /\ Script[22] = Statement("create", "idx_members_seq")
    /\ Script[23] = Statement("create", "idx_messages")
    /\ Script[24] = Statement("create", "idx_transfers")
    /\ Script[25] = Statement("create", "idx_players")
<1>1. /\ Types[1] = "user_role" /\ Types[2] = "room_status" /\ Types[3] = "message_type"
      /\ Types[4] = "transfer_status"
  BY DEF Types
<1>2. /\ Tables[1] = "users"
      /\ Tables[2] = "activation_codes"
      /\ Tables[3] = "activation_redeems"
      /\ Tables[4] = "rooms"
      /\ Tables[5] = "room_members"
      /\ Tables[6] = "score_transfers"
      /\ Tables[7] = "room_messages"
      /\ Tables[8] = "room_events"
      /\ Tables[9] = "match_records"
      /\ Tables[10] = "match_record_players"
  BY DEF Tables
<1>3. /\ Indexes[1] = "idx_users"
      /\ Indexes[2] = "idx_rooms"
      /\ Indexes[3] = "idx_rooms_status"
      /\ Indexes[4] = "idx_members_online"
      /\ Indexes[5] = "idx_members_seq"
      /\ Indexes[6] = "idx_messages"
      /\ Indexes[7] = "idx_transfers"
      /\ Indexes[8] = "idx_players"
  BY DEF Indexes
<1>4. /\ 5 - 4 = 1 /\ 6 - 4 = 2 /\ 7 - 4 = 3 /\ 8 - 4 = 4 /\ 9 - 4 = 5 /\ 10 - 4 = 6
      /\ 14 - 7 = 7 /\ 15 - 7 = 8 /\ 16 - 7 = 9 /\ 17 - 7 = 10
      /\ \A k \in 1 .. 8 : (k + 17) - 17 = k /\ k + 17 \in 18 .. 25
      /\ 18 - 17 = 1 /\ 19 - 17 = 2 /\ 20 - 17 = 3 /\ 21 - 17 = 4 /\ 22 - 17 = 5
      /\ 23 - 17 = 6 /\ 24 - 17 = 7 /\ 25 - 17 = 8
  OBVIOUS
<1>5. QED
  BY <1>1, <1>2, <1>3, <1>4, ScriptStatements

\* Objects are the members of the three lists.
LEMMA ObjectsAre == Objects = Names(Types) \cup Names(Tables) \cup Names(Indexes)
<1> DEFINE a == Types
           b == Tables
           c == Indexes
           f == a \o b
           g == f \o c
<1>1. /\ a \in Seq(Named) /\ Len(a) = 4 /\ DOMAIN a = 1 .. 4
      /\ b \in Seq(Named) /\ Len(b) = 10 /\ DOMAIN b = 1 .. 10
      /\ c \in Seq(Named) /\ Len(c) = 8 /\ DOMAIN c = 1 .. 8
  BY Lists
<1>2. Objects = {g[i] : i \in DOMAIN g}
  BY DEF Objects, ToSet
<1> HIDE DEF a, b, c, f, g
<1>3. /\ f \in Seq(Named) /\ DOMAIN f = 1 .. 14 /\ Len(f) = 14
      /\ \A i \in 1 .. 4 : f[i] = a[i]
      /\ \A i \in 5 .. 14 : f[i] = b[i - 4]
  <2>1. a \in Seq(Named) /\ b \in Seq(Named)
    BY <1>1
  <2>2. Len(a) = 4 /\ Len(a) + 1 = 5 /\ Len(a) + Len(b) = 14
    BY <1>1
  <2>3. /\ f \in Seq(Named) /\ Len(f) = Len(a) + Len(b)
        /\ \A i \in 1 .. Len(a) : f[i] = a[i]
        /\ \A i \in Len(a) + 1 .. Len(a) + Len(b) : f[i] = b[i - Len(a)]
    BY Zenon, <2>1, ConcatAt DEF f
  <2>4. QED
    BY <2>2, <2>3
<1>4. /\ DOMAIN g = 1 .. 22
      /\ \A i \in 1 .. 14 : g[i] = f[i]
      /\ \A i \in 15 .. 22 : g[i] = c[i - 14]
  <2>1. f \in Seq(Named) /\ c \in Seq(Named)
    BY <1>1, <1>3
  <2>2. Len(f) = 14 /\ Len(f) + 1 = 15 /\ Len(f) + Len(c) = 22
    BY <1>1, <1>3
  <2>3. /\ g \in Seq(Named) /\ Len(g) = Len(f) + Len(c)
        /\ \A i \in 1 .. Len(f) : g[i] = f[i]
        /\ \A i \in Len(f) + 1 .. Len(f) + Len(c) : g[i] = c[i - Len(f)]
    BY Zenon, <2>1, ConcatAt DEF g
  <2>4. DOMAIN g = 1 .. Len(g)
    BY <2>3
  <2>5. QED
    BY <2>2, <2>3, <2>4
<1>5. \A i \in 1 .. 4 : i \in 1 .. 22 /\ g[i] = a[i]
  <2>1. \A i \in 1 .. 4 : i \in 1 .. 14 /\ i \in 1 .. 22
    OBVIOUS
  <2>2. QED
    BY <1>3, <1>4, <2>1
<1>6. \A i \in 1 .. 10 : i + 4 \in 1 .. 22 /\ g[i + 4] = b[i]
  <2>1. \A i \in 1 .. 10 : i + 4 \in 5 .. 14 /\ i + 4 \in 1 .. 14 /\ i + 4 \in 1 .. 22 /\ (i + 4) - 4 = i
    OBVIOUS
  <2>2. QED
    BY <1>3, <1>4, <2>1
<1>7. \A i \in 1 .. 8 : i + 14 \in 1 .. 22 /\ g[i + 14] = c[i]
  <2>1. \A i \in 1 .. 8 : i + 14 \in 15 .. 22 /\ i + 14 \in 1 .. 22 /\ (i + 14) - 14 = i
    OBVIOUS
  <2>2. QED
    BY <1>4, <2>1
<1>8. \A i \in 1 .. 22 : \/ i \in 1 .. 4
                         \/ \E j \in 1 .. 10 : i = j + 4
                         \/ \E j \in 1 .. 8 : i = j + 14
  <2>1. \A i \in 5 .. 14 : i - 4 \in 1 .. 10 /\ i = (i - 4) + 4
    OBVIOUS
  <2>2. \A i \in 15 .. 22 : i - 14 \in 1 .. 8 /\ i = (i - 14) + 14
    OBVIOUS
  <2>3. \A i \in 1 .. 22 : i \in 1 .. 4 \/ i \in 5 .. 14 \/ i \in 15 .. 22
    OBVIOUS
  <2>4. QED
    BY <2>1, <2>2, <2>3
<1>9. {g[i] : i \in 1 .. 22} =
          {a[i] : i \in 1 .. 4} \cup {b[i] : i \in 1 .. 10} \cup {c[i] : i \in 1 .. 8}
  BY <1>5, <1>6, <1>7, <1>8
<1>10. /\ Names(Types) = {a[i] : i \in 1 .. 4}
       /\ Names(Tables) = {b[i] : i \in 1 .. 10}
       /\ Names(Indexes) = {c[i] : i \in 1 .. 8}
  BY <1>1 DEF a, b, c, Names
<1>11. QED
  BY <1>2, <1>4, <1>9, <1>10

\* All statements but the three about the check of the amounts create an
\* object, and every object is created by one.
LEMMA ScriptCreates ==
    /\ \A i \in 1 .. 25 : i \notin 11 .. 13 =>
          \E o \in Objects : Script[i] = Statement("create", o)
    /\ \A o \in Objects : \E i \in 1 .. 25 : Script[i] = Statement("create", o)
<1>1. /\ \A i \in 1 .. 4 : Types[i] \in Objects
      /\ \A i \in 1 .. 10 : Tables[i] \in Objects
      /\ \A i \in 1 .. 8 : Indexes[i] \in Objects
      /\ \A o \in Objects : \/ \E i \in 1 .. 4 : o = Types[i]
                            \/ \E i \in 1 .. 10 : o = Tables[i]
                            \/ \E i \in 1 .. 8 : o = Indexes[i]
  <2>1. DOMAIN Types = 1 .. 4 /\ DOMAIN Tables = 1 .. 10 /\ DOMAIN Indexes = 1 .. 8
    BY Lists
  <2>2. QED
    BY <2>1, ObjectsAre DEF Names
<1>2. ASSUME NEW i \in 1 .. 25, i \notin 11 .. 13
      PROVE  \E o \in Objects : Script[i] = Statement("create", o)
  <2>1. CASE i \in 1 .. 4
    BY <1>1, <2>1, ScriptStatements
  <2>2. CASE i \in 5 .. 10
    <3>1. i - 4 \in 1 .. 10
      BY <2>2
    <3>2. Script[i] = Statement("create", Tables[i - 4])
      BY <2>2, ScriptStatements
    <3>3. QED
      BY <1>1, <3>1, <3>2
  <2>3. CASE i \in 14 .. 17
    <3>1. i - 7 \in 1 .. 10
      BY <2>3
    <3>2. Script[i] = Statement("create", Tables[i - 7])
      BY <2>3, ScriptStatements
    <3>3. QED
      BY <1>1, <3>1, <3>2
  <2>4. CASE i \in 18 .. 25
    <3>1. i - 17 \in 1 .. 8
      BY <2>4
    <3>2. Script[i] = Statement("create", Indexes[i - 17])
      BY <2>4, ScriptStatements
    <3>3. QED
      BY <1>1, <3>1, <3>2
  <2>5. i \in 1 .. 4 \/ i \in 5 .. 10 \/ i \in 14 .. 17 \/ i \in 18 .. 25
    BY <1>2
  <2>6. QED
    BY <2>1, <2>2, <2>3, <2>4, <2>5
<1>3. \A i \in 1 .. 4 : i \in 1 .. 25 /\ Script[i] = Statement("create", Types[i])
  BY ScriptStatements
<1>4. ASSUME NEW i \in 1 .. 10
      PROVE  \E j \in 1 .. 25 : Script[j] = Statement("create", Tables[i])
  <2>1. CASE i \in 1 .. 6
    <3>1. i + 4 \in 5 .. 10 /\ i + 4 \in 1 .. 25 /\ (i + 4) - 4 = i
      BY <2>1
    <3>2. QED
      BY <3>1, ScriptStatements
  <2>2. CASE i \in 7 .. 10
    <3>1. i + 7 \in 14 .. 17 /\ i + 7 \in 1 .. 25 /\ (i + 7) - 7 = i
      BY <2>2
    <3>2. QED
      BY <3>1, ScriptStatements
  <2>3. QED
    BY <2>1, <2>2
<1>5. ASSUME NEW i \in 1 .. 8
      PROVE  \E j \in 1 .. 25 : Script[j] = Statement("create", Indexes[i])
  <2>1. i + 17 \in 18 .. 25 /\ i + 17 \in 1 .. 25 /\ (i + 17) - 17 = i
    OBVIOUS
  <2>2. QED
    BY <2>1, ScriptStatements
<1>6. QED
  BY <1>1, <1>2, <1>3, <1>4, <1>5

\* Whatever a statement that creates an object needs has been created by the
\* statements before it.
LEMMA NeedsAreMet ==
    ASSUME NEW i \in 1 .. 25, i \notin 11 .. 13, NEW made,
           \A j \in 1 .. i - 1 : j \notin 11 .. 13 => Script[j].name \in made
    PROVE  Script[i].name \in DOMAIN Needs => Needs[Script[i].name] \subseteq made
<1>1. \A j \in 1 .. 25 : j <= i - 1 /\ j \notin 11 .. 13 => Script[j].name \in made
  OBVIOUS
<1>2. CASE i \in 1 .. 4
  <2>1. Script[i].name \in {"user_role", "room_status", "message_type", "transfer_status"}
    BY <1>2, Positions DEF Statement
  <2>2. QED
    BY <2>1 DEF Needs
<1>3. CASE i = 5
  BY <1>1, <1>3, Positions DEF Statement, Needs
<1>4. CASE i = 6
  BY <1>1, <1>4, Positions DEF Statement, Needs
<1>5. CASE i = 7
  BY <1>1, <1>5, Positions DEF Statement, Needs
<1>6. CASE i = 8
  BY <1>1, <1>6, Positions DEF Statement, Needs
<1>7. CASE i = 9
  BY <1>1, <1>7, Positions DEF Statement, Needs
<1>8. CASE i = 10
  BY <1>1, <1>8, Positions DEF Statement, Needs
<1>9. CASE i = 14
  BY <1>1, <1>9, Positions DEF Statement, Needs
<1>10. CASE i = 15
  BY <1>1, <1>10, Positions DEF Statement, Needs
<1>11. CASE i = 16
  BY <1>1, <1>11, Positions DEF Statement, Needs
<1>12. CASE i = 17
  BY <1>1, <1>12, Positions DEF Statement, Needs
<1>13. CASE i \in 18 .. 25
  BY <1>1, <1>13, Positions DEF Statement, Needs
<1>14. QED
  BY <1>2, <1>3, <1>4, <1>5, <1>6, <1>7, <1>8, <1>9, <1>10, <1>11, <1>12, <1>13
-----------------------------------------------------------------------------
(* The inductive invariant.                                                *)

Checks == {"amount_check", "amount_nonzero_check"}

\* The types of the process and the database.
Typed ==
    /\ schema \subseteq Objects
    /\ constraints \subseteq Checks
    /\ phase \in {"down", "config", "connect", "probe", "bootstrap", "recheck", "amount",
                  "wire", "listen", "serving"}
    /\ {blind, cleaner, signalled, closed} \subseteq BOOLEAN
    /\ faults \in 0 .. MaxFaults

\* Where the scripts are.
Stepping ==
    /\ phase = "bootstrap" => step \in 1 .. 26
    /\ phase = "amount" => step \in 1 .. 4
    /\ phase \notin {"bootstrap", "amount"} => step = 1

\* What bootstrapSchema has created by now is there, and the check that it is
\* about to add is not.
BootstrapKept ==
    phase = "bootstrap" =>
        /\ \A i \in 1 .. step - 1 : i \notin 11 .. 13 => Script[i].name \in schema
        /\ step = 13 => "amount_nonzero_check" \notin constraints

\* The checks as ensureTransferAmountConstraint leaves them.
AmountKept ==
    phase = "amount" =>
        /\ step > 1 => "amount_check" \notin constraints
        /\ step = 4 => "amount_nonzero_check" \in constraints

\* The tables are there once they have been looked for with success, and the
\* checks once the process has seen to them.
Complete ==
    /\ phase \in {"amount", "wire", "listen", "serving"} => Missing = {}
    /\ phase \in {"wire", "listen", "serving"} /\ ~blind =>
           constraints = {"amount_nonzero_check"}

\* Without a fault no start stops half-way.
FaultFree ==
    faults = 0 =>
        /\ ~signalled /\ ~closed
        /\ phase \in {"down", "config", "connect", "probe"} => schema \in {{}, Objects}
        /\ phase \in {"recheck", "amount", "wire", "listen", "serving"} => schema = Objects

Inv == Typed /\ Stepping /\ BootstrapKept /\ AmountKept /\ Complete /\ FaultFree

\* The tables are objects.
LEMMA TablesAreObjects == ToSet(Tables) \subseteq Objects
BY ObjectsAre DEF ToSet, Names

\* Once there is no process, what counts is what it leaves to the next one.
LEMMA ExitKeepsInv ==
    ASSUME Inv, Exit, UNCHANGED database, faults' \in 0 .. MaxFaults,
           faults' = 0 => schema \in {{}, Objects}
    PROVE  Inv'
<1>1. /\ phase' = "down" /\ step' = 1 /\ blind' = FALSE /\ cleaner' = FALSE
      /\ signalled' = FALSE /\ closed' = FALSE /\ schema' = schema /\ constraints' = constraints
  BY DEF Exit, database
<1>2. Typed'
  BY <1>1 DEF Inv, Typed
<1>3. Stepping' /\ BootstrapKept' /\ AmountKept' /\ Complete' /\ FaultFree'
  BY <1>1 DEF Stepping, BootstrapKept, AmountKept, Complete, FaultFree
<1>4. QED
  BY <1>2, <1>3 DEF Inv

\* A process that ends by itself, or by a failure that no fault explains, has
\* created nothing or everything.
LEMMA FatalKeepsInv ==
    ASSUME Inv, Fatal, faults = 0 => schema \in {{}, Objects}
    PROVE  Inv'
BY ExitKeepsInv DEF Fatal, Inv, Typed

\* A phase that does nothing but lead to the next one.
LEMMA GoToKeepsInv ==
    ASSUME Inv, NEW next, GoTo(next), UNCHANGED database,
           next \in {"config", "connect", "probe", "bootstrap", "recheck", "amount", "wire"},
           blind' \in BOOLEAN, faults' \in 0 .. MaxFaults,
           next \in {"amount", "wire"} => Missing = {},
           next = "wire" /\ ~blind' => constraints = {"amount_nonzero_check"},
           faults' = 0 =>
              /\ faults = 0
              /\ next \in {"config", "connect", "probe"} => schema \in {{}, Objects}
              /\ next \in {"recheck", "amount", "wire"} => schema = Objects
    PROVE  Inv'
<1>1. /\ phase' = next /\ step' = 1 /\ UNCHANGED <<cleaner, signalled, closed>>
      /\ schema' = schema /\ constraints' = constraints
  BY DEF GoTo, database
<1>2. Typed'
  BY <1>1 DEF Inv, Typed
<1>3. Stepping' /\ AmountKept'
  BY <1>1 DEF Stepping, AmountKept
<1>4. BootstrapKept'
  BY <1>1 DEF BootstrapKept
<1>5. Complete'
  BY <1>1 DEF Complete, Missing
<1>6. FaultFree'
  BY <1>1 DEF Inv, FaultFree
<1>7. QED
  BY <1>2, <1>3, <1>4, <1>5, <1>6 DEF Inv
-----------------------------------------------------------------------------
(* Start.                                                                  *)

\* Starting a process, reading its configuration and connecting change nothing
\* in the database.
LEMMA StartKeepsInv ==
    ASSUME Inv, Launch \/ LoadConfig \/ Connect
    PROVE  Inv'
<1>1. /\ blind \in BOOLEAN /\ faults \in 0 .. MaxFaults
      /\ phase \in {"down", "config", "connect"} =>
            (faults = 0 => schema \in {{}, Objects})
  BY DEF Inv, Typed, FaultFree
<1>2. CASE Launch
  BY <1>1, <1>2, GoToKeepsInv DEF Launch
<1>3. CASE LoadConfig
  <2>1. CASE GoTo("connect") /\ UNCHANGED <<blind, faults>> /\ UNCHANGED database
    BY <1>1, <1>3, <2>1, GoToKeepsInv DEF LoadConfig
  <2>2. CASE Fatal
    BY <1>1, <1>3, <2>2, FatalKeepsInv DEF LoadConfig
  <2>3. QED
    BY <1>3, <2>1, <2>2 DEF LoadConfig
<1>4. CASE Connect
  <2>1. CASE GoTo("probe") /\ UNCHANGED <<blind, faults>> /\ UNCHANGED database
    BY <1>1, <1>4, <2>1, GoToKeepsInv DEF Connect
  <2>2. CASE Fatal
    BY <1>1, <1>4, <2>2, FatalKeepsInv DEF Connect
  <2>3. QED
    BY <1>4, <2>1, <2>2 DEF Connect
<1>5. QED
  BY <1>2, <1>3, <1>4

\* The look for the tables.
LEMMA ProbeKeepsInv ==
    ASSUME Inv, Probe
    PROVE  Inv'
<1>1. /\ blind \in BOOLEAN /\ faults \in 0 .. MaxFaults /\ phase = "probe"
      /\ faults = 0 => schema \in {{}, Objects}
  BY DEF Inv, Typed, FaultFree, Probe
<1>2. Missing = {} => schema # {}
  <2>1. 1 \in DOMAIN Tables
    BY Lists
  <2>2. ToSet(Tables) # {}
    BY <2>1 DEF ToSet
  <2>3. QED
    BY <2>2 DEF Missing
<1>3. UNCHANGED database
  BY DEF Probe
<1>4. CASE GoTo(IF Missing = {} THEN "amount" ELSE "bootstrap") /\ UNCHANGED <<blind, faults>>
  <2>1. CASE Missing = {}
    <3>1. GoTo("amount")
      BY <1>4, <2>1
    <3>2. QED
      BY <1>1, <1>2, <1>3, <1>4, <2>1, <3>1, GoToKeepsInv
  <2>2. CASE Missing # {}
    <3>1. GoTo("bootstrap")
      BY <1>4, <2>2
    <3>2. QED
      BY <1>1, <1>3, <1>4, <3>1, GoToKeepsInv
  <2>3. QED
    BY <2>1, <2>2
<1>5. CASE ProbeFails /\ GoTo("bootstrap")
  <2>1. faults' \in 0 .. MaxFaults /\ faults' # 0 /\ blind' \in BOOLEAN
    BY <1>1, <1>5, ConstantsAssumption DEF ProbeFails
  <2>2. QED
    BY <1>3, <1>5, <2>1, GoToKeepsInv
<1>6. QED
  BY <1>4, <1>5 DEF Probe

\* What a statement does, if it is one of these scripts.
LEMMA EffectFacts ==
    ASSUME Typed, NEW s,
           \/ \E o \in Objects : s = Statement("create", o)
           \/ \E k \in Checks : s = Statement("drop", k) \/ s = Statement("add", k),
           Effect(s)
    PROVE  /\ schema \subseteq schema' /\ schema' \subseteq Objects
           /\ constraints' \subseteq Checks
           /\ s.op = "create" => s.name \in schema'
           /\ s.op = "drop" => constraints' = constraints \ {s.name} /\ schema' = schema
           /\ s.op = "add" => constraints' = constraints \cup {s.name} /\ schema' = schema
<1> USE DEF Typed, Statement
<1>1. ASSUME NEW o \in Objects, s = Statement("create", o)
      PROVE  /\ schema \subseteq schema' /\ schema' \subseteq Objects
             /\ constraints' \subseteq Checks
             /\ s.op = "create" /\ s.name \in schema'
  <2>1. s.op = "create" /\ s.name = o
    BY <1>1
  <2>2. schema' = schema \cup {o} /\ (constraints' = {"amount_check"} \/ constraints' = constraints)
    BY <2>1 DEF Effect
  <2>3. QED
    BY <2>1, <2>2 DEF Checks
<1>2. ASSUME NEW k \in Checks, s = Statement("drop", k)
      PROVE  s.op = "drop" /\ s.name = k /\ constraints' = constraints \ {k} /\ schema' = schema
  <2>1. s.op = "drop" /\ s.name = k
    BY <1>2
  <2>2. QED
    BY <2>1 DEF Effect
<1>3. ASSUME NEW k \in Checks, s = Statement("add", k)
      PROVE  s.op = "add" /\ s.name = k /\ constraints' = constraints \cup {k} /\ schema' = schema
  <2>1. s.op = "add" /\ s.name = k
    BY <1>3
  <2>2. QED
    BY <2>1 DEF Effect
<1>4. QED
  BY <1>1, <1>2, <1>3

\* Every statement of the scripts is one of these.
LEMMA StatementsKnown ==
    /\ \A i \in 1 .. 25 :
          \/ i \notin 11 .. 13 /\ Script[i].op = "create"
             /\ \E o \in Objects : Script[i] = Statement("create", o)
          \/ i = 11 /\ Script[i] = Statement("drop", "amount_check")
          \/ i = 12 /\ Script[i] = Statement("drop", "amount_nonzero_check")
          \/ i = 13 /\ Script[i] = Statement("add", "amount_nonzero_check")
    /\ Len(Script) = 25 /\ Len(AmountScript) = 3
<1>1. ASSUME NEW i \in 1 .. 25, i \notin 11 .. 13
      PROVE  Script[i].op = "create" /\ \E o \in Objects : Script[i] = Statement("create", o)
  <2>1. PICK o \in Objects : Script[i] = Statement("create", o)
    BY <1>1, ScriptCreates
  <2>2. QED
    BY <2>1 DEF Statement
<1>2. /\ Script[11] = AmountScript[1] /\ Script[12] = AmountScript[2]
      /\ Script[13] = AmountScript[3]
  <2>1. 11 - 10 = 1 /\ 12 - 10 = 2 /\ 13 - 10 = 3
    OBVIOUS
  <2>2. QED
    BY <2>1, ScriptStatements
<1>3. \A i \in 1 .. 25 : i \notin 11 .. 13 \/ i = 11 \/ i = 12 \/ i = 13
  OBVIOUS
<1>4. QED
  BY <1>1, <1>2, <1>3, AmountStatements, ScriptStatements

\* A statement of bootstrapSchema that the database accepts.
LEMMA CreateKeepsInv ==
    ASSUME Inv, phase = "bootstrap", step <= Len(Script), Effect(Script[step]),
           step' = step + 1,
           UNCHANGED <<env, phase, blind, cleaner, signalled, closed, faults>>
    PROVE  Inv'
<1>1. step \in 1 .. 25 /\ step + 1 \in 1 .. 26 /\ (step + 1) - 1 = step
  BY StatementsKnown DEF Inv, Stepping
<1>2. \/ step \notin 11 .. 13 /\ Script[step].op = "create"
      \/ step = 11 /\ Script[step] = Statement("drop", "amount_check")
      \/ step = 12 /\ Script[step] = Statement("drop", "amount_nonzero_check")
      \/ step = 13 /\ Script[step] = Statement("add", "amount_nonzero_check")
  BY <1>1, StatementsKnown
<1>3. /\ schema \subseteq schema' /\ schema' \subseteq Objects /\ constraints' \subseteq Checks
      /\ Script[step].op = "create" => Script[step].name \in schema'
      /\ Script[step].op = "drop" =>
            constraints' = constraints \ {Script[step].name} /\ schema' = schema
  <2>1. \/ \E o \in Objects : Script[step] = Statement("create", o)
        \/ \E k \in Checks : Script[step] = Statement("drop", k) \/ Script[step] = Statement("add", k)
    BY <1>1, StatementsKnown DEF Checks
  <2>2. QED
    BY <2>1, EffectFacts DEF Inv
<1>4. Typed' /\ Stepping'
  BY <1>1, <1>3 DEF Inv, Typed, Stepping
<1>5. BootstrapKept'
  <2>1. ASSUME NEW i \in 1 .. step, i \notin 11 .. 13
        PROVE  Script[i].name \in schema'
    <3>1. CASE i = step
      BY <1>2, <1>3, <2>1, <3>1
    <3>2. CASE i # step
      <4>1. i \in 1 .. step - 1
        BY <1>1, <3>2
      <4>2. Script[i].name \in schema
        BY <2>1, <4>1 DEF Inv, BootstrapKept
      <4>3. QED
        BY <1>3, <4>2
    <3>3. QED
      BY <3>1, <3>2
  <2>2. step = 12 => "amount_nonzero_check" \notin constraints'
    <3>1. step = 12 => Script[step].op = "drop" /\ Script[step].name = "amount_nonzero_check"
      BY <1>2 DEF Statement
    <3>2. QED
      BY <1>3, <3>1
  <2>3. step' - 1 = step /\ (step' = 13 => step = 12)
    BY <1>1
  <2>4. QED
    BY <2>1, <2>2, <2>3 DEF BootstrapKept
<1>6. AmountKept' /\ Complete'
  BY DEF AmountKept, Complete
<1>7. FaultFree'
  BY DEF Inv, FaultFree
<1>8. QED
  BY <1>4, <1>5, <1>6, <1>7 DEF Inv

\* In a fault-free start every statement of bootstrapSchema is possible: what
\* it needs is there, and the check that it adds is not.
LEMMA CreateIsPossible ==
    ASSUME Inv, phase = "bootstrap", step <= Len(Script)
    PROVE  Possible(Script[step])
<1>1. step \in 1 .. 25 /\ \A i \in 1 .. step - 1 : i \in 1 .. 25
  BY StatementsKnown DEF Inv, Stepping
<1>2. \A i \in 1 .. step - 1 : i \notin 11 .. 13 => Script[i].name \in schema
  BY DEF Inv, BootstrapKept
<1>3. CASE step \notin 11 .. 13
  <2>1. Script[step].op = "create"
    BY <1>1, <1>3, StatementsKnown
  <2>2. Script[step].name \in DOMAIN Needs => Needs[Script[step].name] \subseteq schema
    BY <1>1, <1>2, <1>3, NeedsAreMet
  <2>3. QED
    BY <2>1, <2>2 DEF Possible
<1>4. CASE step \in 11 .. 13
  <2>1. 10 \in 1 .. step - 1 /\ 10 \notin 11 .. 13
    BY <1>1, <1>4
  <2>2. "score_transfers" \in schema
    BY <1>2, <2>1, Positions DEF Statement
  <2>3. CASE step \in {11, 12}
    <3>1. Script[step].op = "drop"
      BY <1>1, <2>3, StatementsKnown DEF Statement
    <3>2. QED
      BY <2>2, <3>1 DEF Possible
  <2>4. CASE step = 13
    <3>1. Script[step].op = "add" /\ Script[step].name = "amount_nonzero_check"
      BY <1>1, <2>4, StatementsKnown DEF Statement
    <3>2. "amount_nonzero_check" \notin constraints
      BY <2>4 DEF Inv, BootstrapKept
    <3>3. QED
      BY <2>2, <3>1, <3>2 DEF Possible
  <2>5. QED
    BY <1>1, <1>4, <2>3, <2>4
<1>5. QED
  BY <1>3, <1>4

\* bootstrapSchema and the second look for the tables.
LEMMA BootstrapKeepsInv ==
    ASSUME Inv, Bootstrap \/ Recheck
    PROVE  Inv'
<1>1. blind \in BOOLEAN /\ faults \in 0 .. MaxFaults /\ schema \subseteq Objects
  BY DEF Inv, Typed
<1>2. CASE Bootstrap
  <2>1. phase = "bootstrap" /\ step \in 1 .. 26 /\ Len(Script) = 25
    BY <1>2, StatementsKnown DEF Bootstrap, Inv, Stepping
  <2>2. CASE /\ step <= Len(Script)
             /\ Effect(Script[step])
             /\ step' = step + 1
             /\ UNCHANGED <<env, phase, blind, cleaner, signalled, closed, faults>>
    BY <2>1, <2>2, CreateKeepsInv
  <2>3. CASE step <= Len(Script) /\ (signalled \/ ~Possible(Script[step])) /\ Fatal
    <3>1. signalled
      BY <2>1, <2>3, CreateIsPossible
    <3>2. faults # 0
      BY <3>1 DEF Inv, FaultFree
    <3>3. QED
      BY <2>3, <3>2, FatalKeepsInv
  <2>4. CASE step = Len(Script) + 1 /\ GoTo("recheck") /\ UNCHANGED <<blind, faults>>
             /\ UNCHANGED database
    <3>1. step - 1 = 25
      BY <2>1, <2>4
    <3>2. \A i \in 1 .. 25 : i \notin 11 .. 13 => Script[i].name \in schema
      BY <2>1, <3>1 DEF Inv, BootstrapKept
    <3>3. ASSUME NEW o \in Objects
          PROVE  o \in schema
      <4>1. PICK i \in 1 .. 25 : Script[i] = Statement("create", o)
        BY ScriptCreates
      <4>2. Script[i].op = "create" /\ Script[i].name = o
        BY <4>1 DEF Statement
      <4>3. i \notin 11 .. 13
        BY <4>2, StatementsKnown DEF Statement
      <4>4. QED
        BY <3>2, <4>2, <4>3
    <3>4. schema = Objects
      BY <1>1, <3>3
    <3>5. QED
      BY <1>1, <2>4, <3>4, GoToKeepsInv
  <2>5. QED
    BY <1>2, <2>2, <2>3, <2>4 DEF Bootstrap, Exec
<1>3. CASE Recheck
  <2>1. phase = "recheck" /\ (faults = 0 => schema = Objects)
    BY <1>3 DEF Recheck, Inv, FaultFree
  <2>2. CASE Missing = {} /\ GoTo("amount") /\ UNCHANGED <<blind, faults>> /\ UNCHANGED database
    BY <1>1, <2>1, <2>2, GoToKeepsInv
  <2>3. CASE Fatal
    BY <2>1, <2>3, FatalKeepsInv
  <2>4. QED
    BY <1>3, <2>2, <2>3 DEF Recheck
<1>4. QED
  BY <1>2, <1>3

\* ensureTransferAmountConstraint.
LEMMA AmountKeepsInv ==
    ASSUME Inv, AmountCheck
    PROVE  Inv'
<1>1. /\ phase = "amount" /\ step \in 1 .. 4 /\ Missing = {} /\ constraints \subseteq Checks
      /\ blind \in BOOLEAN /\ faults \in 0 .. MaxFaults /\ (faults = 0 => schema = Objects)
  BY DEF AmountCheck, Inv, Typed, Stepping, Complete, FaultFree
<1>2. Len(AmountScript) = 3
  BY StatementsKnown
<1>3. CASE /\ step <= Len(AmountScript)
           /\ Effect(AmountScript[step])
           /\ step' = step + 1
           /\ UNCHANGED <<env, phase, blind, cleaner, signalled, closed, faults>>
  <2>1. step \in 1 .. 3 /\ step' \in 2 .. 4
    BY <1>1, <1>2, <1>3
  <2>2. \/ step = 1 /\ AmountScript[step] = Statement("drop", "amount_check")
        \/ step = 2 /\ AmountScript[step] = Statement("drop", "amount_nonzero_check")
        \/ step = 3 /\ AmountScript[step] = Statement("add", "amount_nonzero_check")
    BY <2>1, AmountStatements
  <2>3. /\ \E k \in Checks : \/ AmountScript[step] = Statement("drop", k)
                             \/ AmountScript[step] = Statement("add", k)
        /\ AmountScript[step].op \in {"drop", "add"}
    BY <2>2 DEF Checks, Statement
  <2>4. /\ schema' = schema /\ constraints' \subseteq Checks
        /\ AmountScript[step].op = "drop" => constraints' = constraints \ {AmountScript[step].name}
        /\ AmountScript[step].op = "add" => constraints' = constraints \cup {AmountScript[step].name}
    BY <1>3, <2>3, EffectFacts DEF Inv
  <2>5. /\ step = 1 => constraints' = constraints \ {"amount_check"}
        /\ step = 2 => constraints' = constraints \ {"amount_nonzero_check"}
        /\ step = 3 => constraints' = constraints \cup {"amount_nonzero_check"}
    BY <2>2, <2>4 DEF Statement
  <2>6. AmountKept'
    <3>1. step > 1 => "amount_check" \notin constraints
      BY <1>1 DEF Inv, AmountKept
    <3>2. step' = 4 => step = 3
      BY <1>3, <2>1
    <3>3. "amount_check" \notin constraints'
      BY <2>1, <2>5, <3>1
    <3>4. QED
      BY <2>5, <3>2, <3>3 DEF AmountKept
  <2>7. Typed' /\ Stepping'
    BY <1>1, <1>3, <2>1, <2>4 DEF Inv, Typed, Stepping
  <2>8. BootstrapKept' /\ Complete' /\ FaultFree'
    BY <1>1, <1>3, <2>4 DEF Inv, BootstrapKept, Complete, Missing, FaultFree
  <2>9. QED
    BY <2>6, <2>7, <2>8 DEF Inv
<1>4. CASE Fatal
  BY <1>1, <1>4, FatalKeepsInv
<1>5. CASE step = Len(AmountScript) + 1 /\ GoTo("wire") /\ UNCHANGED <<blind, faults>>
           /\ UNCHANGED database
  <2>1. step = 4
    BY <1>2, <1>5
  <2>2. constraints = {"amount_nonzero_check"}
    <3>1. "amount_check" \notin constraints /\ "amount_nonzero_check" \in constraints
      <4>1. step > 1
        BY <2>1
      <4>2. QED
        BY <1>1, <2>1, <4>1 DEF Inv, AmountKept
    <3>2. \A k \in constraints : k \in {"amount_check", "amount_nonzero_check"}
      BY <1>1 DEF Checks
    <3>3. QED
      BY <3>1, <3>2
  <2>3. QED
    BY <1>1, <1>5, <2>2, GoToKeepsInv
<1>6. CASE ProbeFails /\ GoTo("wire") /\ UNCHANGED database
  <2>1. faults' \in 0 .. MaxFaults /\ faults' # 0 /\ blind' = TRUE
    BY <1>1, <1>6, ConstantsAssumption DEF ProbeFails
  <2>2. QED
    BY <1>1, <1>6, <2>1, GoToKeepsInv
<1>7. QED
  BY <1>3, <1>4, <1>5, <1>6 DEF AmountCheck, Exec
-----------------------------------------------------------------------------
(* Serving and the end.                                                    *)

\* From the wiring to the listener.
LEMMA ServeKeepsInv ==
    ASSUME Inv, Wire \/ Listen \/ Return
    PROVE  Inv'
<1>1. CASE Wire
  <2>1. /\ phase = "wire" /\ phase' = "listen" /\ cleaner' = TRUE
        /\ UNCHANGED <<step, blind, signalled, closed, faults, schema, constraints>>
    BY <1>1 DEF Wire, database
  <2>2. Typed' /\ Stepping' /\ BootstrapKept' /\ AmountKept'
    BY <2>1 DEF Inv, Typed, Stepping, BootstrapKept, AmountKept
  <2>3. Complete' /\ FaultFree'
    BY <2>1 DEF Inv, Complete, Missing, FaultFree
  <2>4. QED
    BY <2>2, <2>3 DEF Inv
<1>2. CASE Listen
  <2>1. phase = "listen" /\ (faults = 0 => schema = Objects)
    BY <1>2 DEF Listen, Inv, FaultFree
  <2>2. CASE /\ phase' = "serving"
             /\ UNCHANGED <<env, step, blind, cleaner, signalled, closed, faults>>
             /\ UNCHANGED database
    <3>1. UNCHANGED <<schema, constraints>>
      BY <2>2 DEF database
    <3>2. Typed' /\ Stepping' /\ BootstrapKept' /\ AmountKept'
      BY <2>1, <2>2, <3>1 DEF Inv, Typed, Stepping, BootstrapKept, AmountKept
    <3>3. Complete' /\ FaultFree'
      BY <2>1, <2>2, <3>1 DEF Inv, Complete, Missing, FaultFree
    <3>4. QED
      BY <3>2, <3>3 DEF Inv
  <2>3. CASE Fatal
    BY <2>1, <2>3, FatalKeepsInv
  <2>4. QED
    BY <1>2, <2>2, <2>3 DEF Listen
<1>3. CASE Return
  <2>1. Fatal /\ (faults = 0 => schema = Objects)
    BY <1>3 DEF Return, Inv, FaultFree
  <2>2. QED
    BY <2>1, FatalKeepsInv
<1>4. QED
  BY <1>1, <1>2, <1>3

\* A signal, which may come in any phase, and what two goroutines make of it.
LEMMA SignalKeepsInv ==
    ASSUME Inv, Signal \/ StopCleaner \/ Shutdown
    PROVE  Inv'
<1>1. /\ UNCHANGED <<phase, step, blind, schema, constraints>>
      /\ {cleaner', signalled', closed'} \subseteq BOOLEAN
  BY DEF Signal, StopCleaner, Shutdown, database, Inv, Typed
<1>2. faults' \in 0 .. MaxFaults /\ faults' # 0
  <2>1. CASE Signal
    BY <2>1, ConstantsAssumption DEF Signal, Inv, Typed
  <2>2. CASE StopCleaner \/ Shutdown
    <3>1. signalled /\ faults' = faults
      BY <2>2 DEF StopCleaner, Shutdown
    <3>2. QED
      BY <3>1 DEF Inv, Typed, FaultFree
  <2>3. QED
    BY <2>1, <2>2
<1>3. Typed' /\ Stepping' /\ BootstrapKept' /\ AmountKept'
  BY <1>1, <1>2 DEF Inv, Typed, Stepping, BootstrapKept, AmountKept
<1>4. Complete' /\ FaultFree'
  BY <1>1, <1>2 DEF Inv, Complete, Missing, FaultFree
<1>5. QED
  BY <1>3, <1>4 DEF Inv

\* A crash, at whichever statement.
LEMMA CrashKeepsInv ==
    ASSUME Inv, Crash
    PROVE  Inv'
<1>1. faults' \in 0 .. MaxFaults /\ faults' # 0
  BY ConstantsAssumption DEF Crash, Inv, Typed
<1>2. QED
  BY <1>1, ExitKeepsInv DEF Crash
-----------------------------------------------------------------------------
(* The process.                                                            *)

\* A new database holds nothing, a migrated one everything.
LEMMA InitIsInv ==
    ASSUME Init
    PROVE  Inv
<1>1. /\ phase = "down" /\ step = 1 /\ faults = 0
      /\ blind = FALSE /\ cleaner = FALSE /\ signalled = FALSE /\ closed = FALSE
      /\ schema \in {{}, Objects} /\ constraints \subseteq Checks
  BY DEF Init, Checks
<1>2. Typed
  <2>1. schema \subseteq Objects
    BY <1>1
  <2>2. {blind, cleaner, signalled, closed} \subseteq BOOLEAN
    BY <1>1
  <2>3. faults \in 0 .. MaxFaults
    BY <1>1, ConstantsAssumption
  <2>4. QED
    BY <1>1, <2>1, <2>2, <2>3 DEF Typed
<1>3. Stepping /\ BootstrapKept /\ AmountKept /\ Complete /\ FaultFree
  BY <1>1 DEF Stepping, BootstrapKept, AmountKept, Complete, FaultFree
<1>4. QED
  BY <1>2, <1>3 DEF Inv

\* Every step of the process keeps the invariant.
LEMMA NextKeepsInv ==
    ASSUME Inv, [Next]_vars
    PROVE  Inv'
<1>1. CASE Launch \/ LoadConfig \/ Connect
  BY <1>1, StartKeepsInv
<1>2. CASE Probe
  BY <1>2, ProbeKeepsInv
<1>3. CASE Bootstrap \/ Recheck
  BY <1>3, BootstrapKeepsInv
<1>4. CASE AmountCheck
  BY <1>4, AmountKeepsInv
<1>5. CASE Wire \/ Listen \/ Return
  BY <1>5, ServeKeepsInv
<1>6. CASE Signal \/ StopCleaner \/ Shutdown
  BY <1>6, SignalKeepsInv
<1>7. CASE Crash
  BY <1>7, CrashKeepsInv
<1>8. CASE UNCHANGED vars
  BY <1>8 DEF vars, Inv, Typed, Stepping, BootstrapKept, AmountKept, Complete, Missing,
              FaultFree
<1>9. QED
  BY <1>1, <1>2, <1>3, <1>4, <1>5, <1>6, <1>7, <1>8 DEF Next, Main

\* The invariant holds in every state of every behaviour.
THEOREM InvAlways == Spec => []Inv
<1>1. Inv /\ [Next]_vars => Inv'
  BY NextKeepsInv
<1>2. QED
  BY InitIsInv, <1>1, PTL DEF Spec

\* The process and the database keep their types, and neither script is run
\* past its end, wherever a start is cut off.
THEOREM TypeCorrect == Spec => []TypeOK
<1>1. ASSUME Inv
      PROVE  TypeOK
  <2>1. Len(Script) = 25 /\ Len(AmountScript) = 3
    BY StatementsKnown
  <2>2. step \in 1 .. CASE phase = "bootstrap" -> Len(Script) + 1
                          [] phase = "amount" -> Len(AmountScript) + 1
                          [] OTHER -> 1
    <3>1. CASE phase = "bootstrap"
      BY <1>1, <2>1, <3>1 DEF Inv, Stepping
    <3>2. CASE phase = "amount"
      BY <1>1, <2>1, <3>2 DEF Inv, Stepping
    <3>3. CASE phase \notin {"bootstrap", "amount"}
      BY <1>1, <3>3 DEF Inv, Stepping
    <3>4. QED
      BY <3>1, <3>2, <3>3
  <2>3. QED
    BY <1>1, <2>2 DEF Inv, Typed, Checks, TypeOK
<1>2. QED
  BY InvAlways, <1>1, PTL

\* Whatever earlier starts have left behind, and at whichever statement they
\* were cut off, the listener is reached only with every table there and with
\* the right check on amounts, but for a HasTable that fails; without a fault
\* the whole schema is there.
THEOREM ServingAlwaysComplete == Spec => []ServingIsComplete
<1>1. ASSUME Inv
      PROVE  ServingIsComplete
  BY <1>1 DEF Inv, Complete, FaultFree, ServingIsComplete
<1>2. QED
  BY InvAlways, <1>1, PTL
=============================================================================
