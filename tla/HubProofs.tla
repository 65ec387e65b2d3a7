------------------------------ MODULE HubProofs ------------------------------
(***************************************************************************)
(* Proofs about Hub, for any connections, any goroutines that broadcast    *)
(* and any capacities of the channels.                                     *)
(*                                                                         *)
(* That the map holds no client whose channel is closed is not inductive:  *)
(* a client could be registered again.  Lifecycle says that it cannot: it  *)
(* waits in the register channel at most once (OnceRegistered), is then in *)
(* the map, and then has its channel closed, in this order.                *)
(***************************************************************************)
EXTENDS Hub, SequenceTheorems, TLAPS

\* A client is added at most once.
OnceRegistered ==
    \A i, j \in 1 .. Len(register) : register[i] = register[j] => i = j

\* Before a connection's reader has registered it the hub knows nothing of it;
\* while it waits to be added it is neither in the map nor closed.
Lifecycle ==
    /\ \A c \in members \cup closed : reader[c] \notin {"none", "register"}
    /\ \A i \in 1 .. Len(register) :
          /\ reader[register[i]] \notin {"none", "register"}
          /\ register[i] \notin members \cup closed

\* A broadcast that sends, or waits to hand a client over, has picked one.
Aimed == \A k \in Caster : caster[k].at \in {"send", "unregister"} => caster[k].to \in Client

Inv == TypeOK /\ OnceRegistered /\ Lifecycle /\ MembersAreOpen /\ Aimed

\* A goroutine that may broadcast.
CasterType ==
    [at : {"idle", "range", "send", "unregister"}, to : Client \cup {NoClient},
     must : SUBSET Client, done : SUBSET Client, stale : BOOLEAN]

\* The invariant is about the channels and, of the readers, only about whether
\* they have registered.
LEMMA ReadersMoveOn ==
    ASSUME Inv, TypeOK', Aimed', UNCHANGED <<members, register, closed>>,
           \A c \in Client : reader[c] \notin {"none", "register"} =>
                             reader'[c] \notin {"none", "register"}
    PROVE  Inv'
<1>1. OnceRegistered' /\ MembersAreOpen'
  BY DEF Inv, OnceRegistered, MembersAreOpen
<1>2. Lifecycle'
  <2>1. \A i \in 1 .. Len(register) : register[i] \in Client
    BY DEF Inv, TypeOK
  <2>2. members \cup closed \subseteq Client
    BY DEF Inv, TypeOK
  <2>3. QED
    BY <2>1, <2>2 DEF Inv, Lifecycle
<1>3. QED
  BY <1>1, <1>2 DEF Inv

\* What Append makes of the register channel.
LEMMA AppendIsLast ==
    ASSUME NEW s \in Seq(Client), NEW c \in Client
    PROVE  /\ Append(s, c) \in Seq(Client)
           /\ Len(Append(s, c)) = Len(s) + 1
           /\ \A i \in 1 .. Len(s) : Append(s, c)[i] = s[i]
           /\ Append(s, c)[Len(s) + 1] = c
OBVIOUS

\* What is left of a channel when its first entry has been taken.
LEMMA TailIsRest ==
    ASSUME NEW s \in Seq(Client), s # <<>>
    PROVE  /\ Tail(s) \in Seq(Client) /\ Head(s) = s[1] /\ Head(s) \in Client
           /\ Len(s) \in Nat \ {0} /\ Len(Tail(s)) = Len(s) - 1
           /\ \A i \in 1 .. Len(s) - 1 : Tail(s)[i] = s[i + 1]
BY HeadTailProperties
-----------------------------------------------------------------------------
(* Connections.                                                            *)

\* A new connection, or one whose reader or writer stops or writes.
LEMMA QuietPumpKeepsInv ==
    ASSUME Inv, NEW c \in Client, UNCHANGED alive,
           \/ Connect(c) \/ ReadFails(c) \/ UnregisterReader(c)
           \/ WriteEvent(c) \/ WriteClose(c) \/ PingFails(c)
    PROVE  Inv'
<1>1. UNCHANGED <<members, register, closed>>
  BY DEF Connect, ReadFails, UnregisterReader, WriteEvent, WriteClose, PingFails, channels
<1>2. \A d \in Client : reader[d] \notin {"none", "register"} =>
                        reader'[d] \notin {"none", "register"}
  BY DEF Inv, TypeOK, Connect, ReadFails, UnregisterReader, WriteEvent, WriteClose,
         PingFails, StopWriter, pumps
<1>3. TypeOK'
  <2>1. CASE Connect(c) \/ ReadFails(c)
    BY <2>1 DEF Inv, TypeOK, Connect, ReadFails, channels
  <2>2. CASE UnregisterReader(c)
    BY <2>2, AppendIsLast, ConstantsAssumption DEF Inv, TypeOK, UnregisterReader
  <2>3. CASE WriteEvent(c)
    <3>1. pending[c] - 1 \in 0 .. SendCap /\ pending \in [Client -> 0 .. SendCap]
      BY <2>3, ConstantsAssumption DEF Inv, TypeOK, WriteEvent
    <3>2. pending' \in [Client -> 0 .. SendCap]
      BY <2>3, <3>1 DEF WriteEvent
    <3>3. QED
      BY <2>3, <3>2 DEF Inv, TypeOK, WriteEvent, StopWriter, pumps
  <2>4. CASE WriteClose(c) \/ PingFails(c)
    BY <2>4 DEF Inv, TypeOK, WriteClose, PingFails, StopWriter, channels
  <2>5. QED
    BY <2>1, <2>2, <2>3, <2>4
<1>4. Aimed'
  BY DEF Inv, Aimed, Connect, ReadFails, UnregisterReader, WriteEvent, WriteClose,
         PingFails, StopWriter
<1>5. QED
  BY <1>1, <1>2, <1>3, <1>4, ReadersMoveOn

\* A reader registers its connection once, when the hub knows nothing of it.
LEMMA RegisterKeepsInv ==
    ASSUME Inv, NEW c \in Client, Register(c), UNCHANGED alive
    PROVE  Inv'
<1>1. /\ reader[c] = "register" /\ Len(register) < QueueCap
      /\ register' = Append(register, c)
      /\ reader' = [reader EXCEPT ![c] = "reading"]
      /\ writer' = [writer EXCEPT ![c] = "running"]
      /\ UNCHANGED <<members, unreg, pending, closed, open, caster, alive>>
  BY DEF Register
<1>2. /\ register \in Seq(Client) /\ register' \in Seq(Client)
      /\ Len(register') = Len(register) + 1
      /\ \A i \in 1 .. Len(register) : register'[i] = register[i]
      /\ register'[Len(register) + 1] = c
  BY <1>1, AppendIsLast DEF Inv, TypeOK
<1>3. Len(register) \in Nat
  BY <1>2
<1>4. /\ c \notin members \cup closed
      /\ \A i \in 1 .. Len(register) : register[i] # c
  BY <1>1 DEF Inv, Lifecycle
<1>5. TypeOK'
  BY <1>1, <1>2, <1>3, ConstantsAssumption DEF Inv, TypeOK
<1>6. OnceRegistered'
  <2>1. SUFFICES ASSUME NEW i \in 1 .. Len(register'), NEW j \in 1 .. Len(register'),
                        register'[i] = register'[j]
                 PROVE  i = j
    BY DEF OnceRegistered
  <2>2. /\ i \in 1 .. Len(register) \/ i = Len(register) + 1
        /\ j \in 1 .. Len(register) \/ j = Len(register) + 1
    BY <1>2, <1>3
  <2>3. QED
    BY <1>2, <1>4, <2>1, <2>2 DEF Inv, OnceRegistered
<1>7. Lifecycle'
  <2>1. \A d \in Client : reader[d] \notin {"none", "register"} =>
                          reader'[d] \notin {"none", "register"}
    BY <1>1 DEF Inv, TypeOK
  <2>2. reader'[c] = "reading"
    BY <1>1 DEF Inv, TypeOK
  <2>3. \A d \in members' \cup closed' : reader'[d] \notin {"none", "register"}
    BY <1>1, <2>1 DEF Inv, TypeOK, Lifecycle
  <2>4. ASSUME NEW i \in 1 .. Len(register')
        PROVE  /\ reader'[register'[i]] \notin {"none", "register"}
               /\ register'[i] \notin members' \cup closed'
    <3>1. CASE i \in 1 .. Len(register)
      <4>1. register'[i] = register[i] /\ register[i] \in Client
        BY <1>2, <3>1
      <4>2. QED
        BY <1>1, <2>1, <3>1, <4>1 DEF Inv, Lifecycle
    <3>2. CASE i = Len(register) + 1
      BY <1>1, <1>2, <1>4, <2>2, <3>2
    <3>3. QED
      BY <1>2, <1>3, <3>1, <3>2
  <2>5. QED
    BY <2>3, <2>4 DEF Lifecycle
<1>8. MembersAreOpen' /\ Aimed'
  BY <1>1 DEF Inv, MembersAreOpen, Aimed
<1>9. QED
  BY <1>5, <1>6, <1>7, <1>8 DEF Inv
-----------------------------------------------------------------------------
(* The hub's goroutine.                                                    *)

\* The map keeps its type, and so do the broadcasts that lose it.
LEMMA WriteMapType ==
    ASSUME TypeOK, NEW new \in SUBSET Client, WriteMap(new)
    PROVE  /\ members' = new /\ alive' \in BOOLEAN
           /\ caster' \in [Caster -> CasterType]
           /\ \A k \in Caster : caster'[k].at = caster[k].at /\ caster'[k].to = caster[k].to
<1>1. members' = new /\ alive' \in BOOLEAN
  BY DEF WriteMap, TypeOK
<1>2. caster \in [Caster -> CasterType]
  BY DEF TypeOK, CasterType
<1>3. CASE new = {}
  <2>1. caster' = [k \in Caster |-> [caster[k] EXCEPT !.stale = @ \/ caster[k].at # "idle"]]
    BY <1>3 DEF WriteMap
  <2>2. ASSUME NEW k \in Caster
        PROVE  [caster[k] EXCEPT !.stale = @ \/ caster[k].at # "idle"] \in CasterType
    <3>1. caster[k] \in CasterType
      BY <1>2
    <3>2. (caster[k].stale \/ caster[k].at # "idle") \in BOOLEAN
      OBVIOUS
    <3> DEFINE b == caster[k].stale \/ caster[k].at # "idle"
    <3> HIDE DEF b
    <3>3. [caster[k] EXCEPT !.stale = b] \in CasterType
      BY <3>1, <3>2 DEF CasterType, b
    <3>4. QED
      BY <3>3 DEF b
  <2>3. ASSUME NEW k \in Caster
        PROVE  caster'[k].at = caster[k].at /\ caster'[k].to = caster[k].to
    BY <1>2, <2>1 DEF CasterType
  <2>4. QED
    BY <1>1, <2>1, <2>2, <2>3
<1>4. CASE new # {}
  BY <1>1, <1>2, <1>4 DEF WriteMap
<1>5. QED
  BY <1>3, <1>4

\* The client that is added has never been in the map.
LEMMA AddClientKeepsInv == ASSUME Inv, AddClient PROVE Inv'
<1> DEFINE c == Head(register)
           n == Len(register)
<1>1. /\ register # <<>> /\ register' = Tail(register)
      /\ WriteMap(members \cup {c})
      /\ UNCHANGED <<unreg, pending, closed, open, reader, writer>>
  BY DEF AddClient, pumps
<1>2. /\ register' \in Seq(Client) /\ c = register[1] /\ c \in Client
      /\ n \in Nat \ {0} /\ Len(register') = n - 1
      /\ \A i \in 1 .. n - 1 : register'[i] = register[i + 1]
  BY <1>1, TailIsRest DEF Inv, TypeOK
<1>3. /\ members' = members \cup {c} /\ alive' \in BOOLEAN
      /\ caster' \in [Caster -> CasterType] /\ Aimed'
  BY <1>1, <1>2, WriteMapType DEF Inv, TypeOK, Aimed
<1>4. TypeOK'
  BY <1>1, <1>2, <1>3, ConstantsAssumption DEF Inv, TypeOK, CasterType
<1>5. 1 \in 1 .. n
  BY <1>2
<1>6. reader[c] \notin {"none", "register"} /\ c \notin members \cup closed
  BY <1>2, <1>5 DEF Inv, Lifecycle
<1>7. \A i \in 1 .. n - 1 : i + 1 \in 1 .. n /\ i + 1 # 1
  BY <1>2
<1>8. OnceRegistered'
  <2>1. SUFFICES ASSUME NEW i \in 1 .. n - 1, NEW j \in 1 .. n - 1,
                        register'[i] = register'[j]
                 PROVE  i = j
    BY <1>2 DEF OnceRegistered
  <2>2. register[i + 1] = register[j + 1]
    BY <1>2, <2>1
  <2>3. i + 1 = j + 1
    BY <1>7, <2>2 DEF Inv, OnceRegistered
  <2>4. QED
    BY <1>2, <2>3
<1>9. Lifecycle'
  <2>1. ASSUME NEW i \in 1 .. n - 1
        PROVE  /\ reader[register'[i]] \notin {"none", "register"}
               /\ register'[i] \notin members' \cup closed
    <3>1. register'[i] = register[i + 1] /\ i + 1 \in 1 .. n /\ i + 1 # 1
      BY <1>2, <1>7
    <3>2. register[i + 1] # c
      BY <1>2, <1>5, <3>1 DEF Inv, OnceRegistered
    <3>3. QED
      BY <1>3, <3>1, <3>2 DEF Inv, Lifecycle
  <2>2. QED
    BY <1>1, <1>2, <1>3, <1>6, <2>1 DEF Inv, Lifecycle
<1>10. MembersAreOpen'
  BY <1>1, <1>3, <1>6 DEF Inv, MembersAreOpen
<1>11. QED
  BY <1>3, <1>4, <1>8, <1>9, <1>10 DEF Inv

\* A client leaves the map as its channel is closed.
LEMMA RemoveClientKeepsInv == ASSUME Inv, RemoveClient PROVE Inv'
<1> DEFINE c == Head(unreg)
<1>1. /\ unreg # <<>> /\ unreg' = Tail(unreg)
      /\ UNCHANGED <<register, pending, open, reader, writer>>
  BY DEF RemoveClient, pumps
<1>2. unreg' \in Seq(Client) /\ Len(unreg) \in Nat \ {0} /\ Len(unreg') = Len(unreg) - 1
  BY <1>1, TailIsRest DEF Inv, TypeOK
<1>3. CASE c \in members /\ WriteMap(members \ {c}) /\ closed' = closed \cup {c}
  <2>1. /\ members' = members \ {c} /\ alive' \in BOOLEAN
        /\ caster' \in [Caster -> CasterType] /\ Aimed'
    BY <1>3, WriteMapType DEF Inv, TypeOK, Aimed
  <2>2. TypeOK'
    BY <1>1, <1>2, <1>3, <2>1, ConstantsAssumption DEF Inv, TypeOK, CasterType
  <2>3. OnceRegistered' /\ MembersAreOpen'
    BY <1>1, <1>3, <2>1 DEF Inv, OnceRegistered, MembersAreOpen
  <2>4. members' \cup closed' = members \cup closed
    BY <1>3, <2>1
  <2>5. Lifecycle'
    BY <1>1, <2>4 DEF Inv, Lifecycle
  <2>6. QED
    BY <2>1, <2>2, <2>3, <2>5 DEF Inv
<1>4. CASE c \notin members /\ UNCHANGED <<members, closed, caster, alive>>
  <2>1. TypeOK'
    BY <1>1, <1>2, <1>4, ConstantsAssumption DEF Inv, TypeOK
  <2>2. Aimed'
    BY <1>4 DEF Inv, Aimed
  <2>3. QED
    BY <1>1, <1>4, <2>1, <2>2, ReadersMoveOn
<1>5. QED
  BY <1>3, <1>4 DEF RemoveClient
-----------------------------------------------------------------------------
(* Broadcast.                                                              *)

\* A broadcast changes neither the map nor who is registered or closed.
LEMMA BroadcastKeepsInv ==
    ASSUME Inv, NEW k \in Caster, Lookup(k) \/ Cast(k)
    PROVE  Inv'
<1>1. UNCHANGED <<members, register, closed, reader, open, writer>>
  BY DEF Lookup, Cast, Pick, EndRange, Send, UnregisterSlow, channels, pumps
<1>2. caster \in [Caster -> CasterType]
  BY DEF Inv, TypeOK, CasterType
<1>3. Idle \in CasterType
  BY DEF Idle, CasterType
<1>4. \A at \in {"range", "unregister"} : [caster EXCEPT ![k].at = at] \in [Caster -> CasterType]
  BY <1>2 DEF CasterType
<1>5. TypeOK'
  <2>1. CASE Lookup(k)
    <3>1. [Idle EXCEPT !.at = "range", !.must = members] \in CasterType
      BY DEF Idle, CasterType, Inv, TypeOK
    <3>2. caster' \in [Caster -> CasterType]
      BY <1>2, <2>1, <3>1 DEF Lookup
    <3>3. QED
      BY <2>1, <3>2 DEF Inv, TypeOK, CasterType, Lookup, channels, pumps
  <2>2. ASSUME NEW c \in Client, Pick(k, c)
        PROVE  TypeOK'
    <3>1. caster' \in [Caster -> CasterType]
      BY <1>2, <2>2 DEF Pick, CasterType
    <3>2. QED
      BY <2>2, <3>1 DEF Inv, TypeOK, CasterType, Pick, channels, pumps
  <2>3. CASE EndRange(k)
    <3>1. caster' \in [Caster -> CasterType]
      BY <1>2, <1>3, <2>3 DEF EndRange
    <3>2. QED
      BY <2>3, <3>1 DEF Inv, TypeOK, CasterType, EndRange, channels, pumps
  <2>4. CASE Send(k)
    <3>1. caster' \in [Caster -> CasterType]
      BY <1>2, <1>3, <1>4, <2>4 DEF Send, Goto
    <3>2. pending' \in [Client -> 0 .. SendCap]
      <4> DEFINE c == caster[k].to
      <4>1. c \in Client /\ pending \in [Client -> 0 .. SendCap]
        BY <2>4 DEF Inv, TypeOK, Aimed, Send
      <4>2. CASE pending[c] < SendCap /\ pending' = [pending EXCEPT ![c] = @ + 1]
        <5>1. pending[c] + 1 \in 0 .. SendCap
          BY <4>1, <4>2, ConstantsAssumption
        <5>2. QED
          BY <4>1, <4>2, <5>1
      <4>3. CASE pending' = pending
        BY <4>1, <4>3
      <4>4. QED
        BY <2>4, <4>2, <4>3 DEF Send
    <3>3. alive' \in BOOLEAN
      BY <2>4 DEF Inv, TypeOK, Send
    <3>4. QED
      BY <2>4, <3>1, <3>2, <3>3 DEF Inv, TypeOK, CasterType, Send, pumps
  <2>5. CASE UnregisterSlow(k)
    <3>1. caster' \in [Caster -> CasterType]
      BY <1>2, <1>4, <2>5 DEF UnregisterSlow, Goto
    <3>2. caster[k].to \in Client
      BY <2>5 DEF UnregisterSlow, Inv, Aimed
    <3>3. unreg' \in Seq(Client) /\ Len(unreg') <= QueueCap
      BY <2>5, <3>2, AppendIsLast, ConstantsAssumption DEF Inv, TypeOK, UnregisterSlow
    <3>4. QED
      BY <2>5, <3>1, <3>3 DEF Inv, TypeOK, CasterType, UnregisterSlow, channels, pumps
  <2>6. QED
    BY <2>1, <2>2, <2>3, <2>4, <2>5 DEF Cast
<1>6. Aimed'
  <2>1. \A j \in Caster : j # k => caster'[j] = caster[j]
    BY <1>2 DEF Lookup, Cast, Pick, EndRange, Send, UnregisterSlow, Goto
  <2>2. CASE Lookup(k) \/ EndRange(k) \/ UnregisterSlow(k)
    <3>1. caster'[k].at \in {"range", "idle"}
      <4>1. CASE Lookup(k)
        BY <1>2, <4>1 DEF Lookup, Idle
      <4>2. CASE EndRange(k)
        BY <1>2, <4>2 DEF EndRange, Idle
      <4>3. CASE UnregisterSlow(k)
        BY <1>2, <4>3 DEF UnregisterSlow, Goto, CasterType
      <4>4. QED
        BY <2>2, <4>1, <4>2, <4>3
    <3>2. QED
      BY <2>1, <3>1 DEF Inv, Aimed
  <2>3. CASE \E c \in Client : Pick(k, c)
    <3>1. caster'[k].to \in Client
      BY <1>2, <2>3 DEF Pick, CasterType
    <3>2. QED
      BY <2>1, <3>1 DEF Inv, Aimed
  <2>4. CASE Send(k)
    <3>1. caster'[k].at = "idle" \/ caster'[k].to \in Client
      <4>1. caster[k].to \in Client
        BY <2>4 DEF Send, Inv, Aimed
      <4>2. QED
        BY <1>2, <2>4, <4>1 DEF Send, Goto, Idle, CasterType
    <3>2. QED
      BY <2>1, <3>1 DEF Inv, Aimed
  <2>5. QED
    BY <2>2, <2>3, <2>4 DEF Cast
<1>7. QED
  BY <1>1, <1>5, <1>6, ReadersMoveOn
-----------------------------------------------------------------------------
\* The invariant holds before anybody connects.
LEMMA InitIsInv == Init => Inv
<1>1. SUFFICES ASSUME Init PROVE Inv
  OBVIOUS
<1>2. <<>> \in Seq(Client) /\ Len(<<>>) = 0
  OBVIOUS
<1>3. TypeOK
  BY <1>1, <1>2, ConstantsAssumption DEF Init, TypeOK, Idle
<1>4. OnceRegistered /\ Lifecycle /\ MembersAreOpen
  BY <1>1, <1>2 DEF Init, OnceRegistered, Lifecycle, MembersAreOpen
<1>5. Aimed
  BY <1>1 DEF Init, Idle, Aimed
<1>6. QED
  BY <1>3, <1>4, <1>5 DEF Inv

\* Every step keeps the invariant.
LEMMA NextKeepsInv == Inv /\ [Next]_vars => Inv'
<1>1. SUFFICES ASSUME Inv, [Next]_vars PROVE Inv'
  OBVIOUS
<1>2. CASE UNCHANGED vars
  BY <1>1, <1>2 DEF vars, Inv, TypeOK, OnceRegistered, Lifecycle, MembersAreOpen, Aimed
<1>3. ASSUME NEW c \in Client, Pump(c) PROVE Inv'
  BY <1>1, <1>3, QuietPumpKeepsInv, RegisterKeepsInv DEF Pump
<1>4. CASE Run
  BY <1>1, <1>4, AddClientKeepsInv, RemoveClientKeepsInv DEF Run
<1>5. ASSUME NEW k \in Caster, Lookup(k) \/ Cast(k) PROVE Inv'
  BY <1>1, <1>5, BroadcastKeepsInv
<1>6. QED
  BY <1>1, <1>2, <1>3, <1>4, <1>5 DEF Next

\* The invariant holds in every behaviour.
LEMMA InvAlways == Spec => []Inv
BY InitIsInv, NextKeepsInv, PTL DEF Spec

\* No channel ever holds more than its capacity, whoever waits for it, and
\* every goroutine keeps its type.
THEOREM TypeCorrect == Spec => []TypeOK
<1>1. Inv => TypeOK
  BY DEF Inv
<1>2. QED
  BY <1>1, InvAlways, PTL

\* No client in the map has a closed channel, so that removeClient closes each
\* channel once at most.
THEOREM MembersAlwaysOpen == Spec => []MembersAreOpen
<1>1. Inv => MembersAreOpen
  BY DEF Inv
<1>2. QED
  BY <1>1, InvAlways, PTL
=============================================================================
