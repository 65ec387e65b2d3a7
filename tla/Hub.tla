-------------------------------- MODULE Hub --------------------------------
(***************************************************************************)
(* The WebSocket hub, for the connections of one room: the hub's own       *)
(* goroutine, a reader and a writer goroutine per connection, and the      *)
(* goroutines that broadcast (request handlers and the cleaner).           *)
(***************************************************************************)
EXTENDS Integers, Sequences, FiniteSets

CONSTANTS Client,       \* connections; each is opened once
          NoClient,
          Caster,       \* goroutines that call Broadcast
          Unrecovered,  \* those without gin's recovery: the cleaner
          SendCap,      \* capacity of Client.send
          QueueCap      \* capacity of Hub.register and of Hub.unreg

ASSUME ConstantsAssumption ==
    /\ NoClient \notin Client
    /\ Unrecovered \subseteq Caster
    /\ SendCap \in Nat \ {0} /\ QueueCap \in Nat \ {0}

VARIABLES members,   \* the map hub.rooms[roomNo]; an empty map is dropped
          register,  \* the channel of clients to add
          unreg,     \* the channel of clients to remove
          pending,   \* how many events wait in each Client.send
          closed,    \* the clients whose send is closed
          open,      \* the clients whose connection is open
          reader,    \* ServeRoom and readPump, per client
          writer,    \* writePump, per client
          caster,    \* Broadcast, per goroutine
          alive      \* the process has not died

channels == <<members, register, unreg, pending, closed>>
pumps    == <<open, reader, writer>>
vars     == <<members, register, unreg, pending, closed, open, reader, writer,
              caster, alive>>

\* A broadcast that is ranging over the map still owes an event to the clients
\* of `must' and has visited those of `done'; `stale' once the map it fetched
\* has been emptied and dropped.
Idle == [at |-> "idle", to |-> NoClient, must |-> {}, done |-> {}, stale |-> FALSE]

Init ==
    /\ members = {}
    /\ register = <<>> /\ unreg = <<>>
    /\ pending = [c \in Client |-> 0]
    /\ closed = {}
    /\ open = {}
    /\ reader = [c \in Client |-> "none"]
    /\ writer = [c \in Client |-> "none"]
    /\ caster = [k \in Caster |-> Idle]
    /\ alive = TRUE
-----------------------------------------------------------------------------
(* Connections.                                                            *)

\* ServeRoom has upgraded the connection and is about to register.
Connect(c) ==
    /\ reader[c] = "none"
    /\ reader' = [reader EXCEPT ![c] = "register"]
    /\ open' = open \cup {c}
    /\ UNCHANGED <<writer, caster>> /\ UNCHANGED channels

\* Register sends on a buffered channel, then the pumps start.
Register(c) ==
    /\ reader[c] = "register"
    /\ Len(register) < QueueCap
    /\ register' = Append(register, c)
    /\ reader' = [reader EXCEPT ![c] = "reading"]
    /\ writer' = [writer EXCEPT ![c] = "running"]
    /\ UNCHANGED <<members, unreg, pending, closed, open, caster>>

\* The peer goes away, is silent for too long or sends too much.
ReadFails(c) ==
    /\ reader[c] = "reading"
    /\ reader' = [reader EXCEPT ![c] = "unregister"]
    /\ UNCHANGED <<open, writer, caster>> /\ UNCHANGED channels

\* A read on a connection that writePump has closed fails.
ReadClosed(c) == c \notin open /\ ReadFails(c)

\* Mutant: a leaving reader does not wait when the channel is full.
UnregisterReader_Drops(c) ==
    /\ reader[c] = "unregister"
    /\ unreg' = IF Len(unreg) < QueueCap THEN Append(unreg, c) ELSE unreg
    /\ reader' = [reader EXCEPT ![c] = "done"]
    /\ open' = open \ {c}
    /\ UNCHANGED <<members, register, pending, closed, writer, caster>>

\* readPump's deferred calls: Unregister, which waits for room in the channel,
\* and the close of the connection.
UnregisterReader(c) ==
    /\ reader[c] = "unregister"
    /\ Len(unreg) < QueueCap
    /\ unreg' = Append(unreg, c)
    /\ reader' = [reader EXCEPT ![c] = "done"]
    /\ open' = open \ {c}
    /\ UNCHANGED <<members, register, pending, closed, writer, caster>>

\* writePump returns and closes the connection.
StopWriter(c) ==
    /\ writer' = [writer EXCEPT ![c] = "done"]
    /\ open' = open \ {c}
    /\ UNCHANGED <<reader, caster>>

\* writePump takes an event and writes it, which may fail.
WriteEvent(c) ==
    /\ writer[c] = "running"
    /\ pending[c] > 0
    /\ pending' = [pending EXCEPT ![c] = @ - 1]
    /\ \/ UNCHANGED <<pumps, caster>>
       \/ StopWriter(c)
    /\ UNCHANGED <<members, register, unreg, closed>>

\* It stops at the closed channel ...
WriteClose(c) ==
    /\ writer[c] = "running"
    /\ c \in closed /\ pending[c] = 0
    /\ StopWriter(c)
    /\ UNCHANGED channels

\* ... or when a ping cannot be written.
PingFails(c) ==
    /\ writer[c] = "running"
    /\ StopWriter(c)
    /\ UNCHANGED channels
-----------------------------------------------------------------------------
(* The hub's goroutine.                                                    *)

\* A write of the map while a broadcast steps through it is a data race that
\* the runtime may answer with a fatal error, which nothing recovers.
WriteMap(new) ==
    /\ members' = new
    /\ IF \E k \in Caster : caster[k].at = "range" /\ ~caster[k].stale
       THEN alive' \in BOOLEAN
       ELSE UNCHANGED alive
    /\ caster' = IF new = {} THEN [k \in Caster |-> [caster[k] EXCEPT !.stale = @ \/ caster[k].at # "idle"]]
                 ELSE caster

AddClient ==
    /\ register # <<>>
    /\ register' = Tail(register)
    /\ WriteMap(members \cup {Head(register)})
    /\ UNCHANGED <<unreg, pending, closed>> /\ UNCHANGED pumps

\* Mutants: the client stays in the map; the lock that RemoveClient needs is
\* held by broadcasts until they end.
RemoveClient_Keeps ==
    /\ unreg # <<>>
    /\ unreg' = Tail(unreg)
    /\ closed' = closed \cup (members \cap {Head(unreg)})
    /\ UNCHANGED <<members, register, pending, caster, alive>> /\ UNCHANGED pumps
RemoveClient_Waits ==
    LET c == Head(unreg)
    IN  /\ unreg # <<>>
        /\ \A k \in Caster : caster[k].at = "idle"
        /\ unreg' = Tail(unreg)
        /\ \/ /\ c \in members
              /\ WriteMap(members \ {c})
              /\ closed' = closed \cup {c}
           \/ c \notin members /\ UNCHANGED <<members, closed, caster, alive>>
        /\ UNCHANGED <<register, pending>> /\ UNCHANGED pumps

\* removeClient deletes a client and closes its channel; one that is not in
\* the map it leaves alone.
RemoveClient ==
    LET c == Head(unreg)
    IN  /\ unreg # <<>>
        /\ unreg' = Tail(unreg)
        /\ \/ /\ c \in members
              /\ WriteMap(members \ {c})
              /\ closed' = closed \cup {c}
           \/ c \notin members /\ UNCHANGED <<members, closed, caster, alive>>
        /\ UNCHANGED <<register, pending>> /\ UNCHANGED pumps

Run == AddClient \/ RemoveClient
-----------------------------------------------------------------------------
(* Broadcast.                                                              *)

Goto(k, at) == caster' = [caster EXCEPT ![k].at = at]

\* The lock is held only to fetch the map, not while ranging over it.
Lookup(k) ==
    /\ caster[k].at = "idle"
    /\ members # {}
    /\ caster' = [caster EXCEPT ![k] = [Idle EXCEPT !.at = "range", !.must = members]]
    /\ UNCHANGED alive /\ UNCHANGED channels /\ UNCHANGED pumps

\* range yields every entry that stays in the map, and perhaps new ones.
Pick(k, c) ==
    /\ caster[k].at = "range"
    /\ ~caster[k].stale
    /\ c \in members \ caster[k].done
    /\ caster' = [caster EXCEPT ![k].at = "send", ![k].to = c,
                                ![k].must = @ \ {c}, ![k].done = @ \cup {c}]
    /\ UNCHANGED alive /\ UNCHANGED channels /\ UNCHANGED pumps

EndRange(k) ==
    /\ caster[k].at = "range"
    /\ caster[k].stale \/ caster[k].must \cap members = {}
    /\ caster' = [caster EXCEPT ![k] = Idle]
    /\ UNCHANGED alive /\ UNCHANGED channels /\ UNCHANGED pumps

\* A send on a closed channel panics: gin recovers a handler's goroutine, the
\* cleaner's takes the process with it.  A full channel means Unregister.
Send(k) ==
    LET c == caster[k].to
    IN  /\ caster[k].at = "send"
        /\ \/ /\ c \in closed
              /\ caster' = [caster EXCEPT ![k] = Idle]
              /\ alive' = (k \notin Unrecovered)
              /\ UNCHANGED pending
           \/ /\ c \notin closed /\ pending[c] < SendCap
              /\ pending' = [pending EXCEPT ![c] = @ + 1]
              /\ Goto(k, "range") /\ UNCHANGED alive
           \/ /\ c \notin closed /\ pending[c] = SendCap
              /\ Goto(k, "unregister") /\ UNCHANGED <<pending, alive>>
        /\ UNCHANGED <<members, register, unreg, closed>> /\ UNCHANGED pumps

\* Mutant: the channel is given more clients than it holds.
UnregisterSlow_Unbounded(k) ==
    /\ caster[k].at = "unregister"
    /\ unreg' = Append(unreg, caster[k].to)
    /\ Goto(k, "range")
    /\ UNCHANGED alive
    /\ UNCHANGED <<members, register, pending, closed>> /\ UNCHANGED pumps

\* Mutant: when the channel is full the broadcast does not wait for it.
UnregisterSlow_Skips(k) ==
    /\ caster[k].at = "unregister"
    /\ unreg' = IF Len(unreg) < QueueCap THEN Append(unreg, caster[k].to) ELSE unreg
    /\ Goto(k, "range")
    /\ UNCHANGED alive
    /\ UNCHANGED <<members, register, pending, closed>> /\ UNCHANGED pumps

UnregisterSlow(k) ==
    /\ caster[k].at = "unregister"
    /\ Len(unreg) < QueueCap
    /\ unreg' = Append(unreg, caster[k].to)
    /\ Goto(k, "range")
    /\ UNCHANGED alive
    /\ UNCHANGED <<members, register, pending, closed>> /\ UNCHANGED pumps

Cast(k) == \/ \E c \in Client : Pick(k, c)
           \/ EndRange(k) \/ Send(k) \/ UnregisterSlow(k)
-----------------------------------------------------------------------------
Pump(c) ==
    /\ \/ Connect(c) \/ Register(c) \/ ReadFails(c) \/ UnregisterReader(c)
       \/ WriteEvent(c) \/ WriteClose(c) \/ PingFails(c)
    /\ UNCHANGED alive

Next ==
    /\ alive
    /\ \/ \E c \in Client : Pump(c)
       \/ Run
       \/ \E k \in Caster : Lookup(k) \/ Cast(k)

Spec == Init /\ [][Next]_vars

\* Runnable goroutines run, and the senders that wait for a channel are served
\* first come, first served.  Peers and requests may stay away for ever.
Fairness ==
    /\ WF_vars(alive /\ Run)
    /\ \A c \in Client :
          /\ SF_vars(alive /\ (Register(c) \/ UnregisterReader(c)) /\ UNCHANGED alive)
          /\ WF_vars(alive /\ (ReadClosed(c) \/ WriteEvent(c) \/ WriteClose(c)) /\ UNCHANGED alive)
    /\ \A k \in Caster : SF_vars(alive /\ Cast(k))

FairSpec == Spec /\ Fairness
-----------------------------------------------------------------------------
(* Properties.                                                             *)

\* The channels keep their capacities and every goroutine its type.
TypeOK ==
    /\ members \subseteq Client
    /\ register \in Seq(Client) /\ Len(register) <= QueueCap
    /\ unreg \in Seq(Client) /\ Len(unreg) <= QueueCap
    /\ pending \in [Client -> 0 .. SendCap]
    /\ closed \subseteq Client /\ open \subseteq Client
    /\ reader \in [Client -> {"none", "register", "reading", "unregister", "done"}]
    /\ writer \in [Client -> {"none", "running", "done"}]
    /\ caster \in [Caster ->
          [at : {"idle", "range", "send", "unregister"}, to : Client \cup {NoClient},
           must : SUBSET Client, done : SUBSET Client, stale : BOOLEAN]]
    /\ alive \in BOOLEAN

\* The map never holds a client whose channel is closed, though its reader and
\* any number of broadcasts ask for its removal: removeClient never closes a
\* channel twice, which would kill the hub's goroutine.
MembersAreOpen == members \cap closed = {}

\* The hub never waits for anybody who waits for the hub: a broadcast that
\* hands over slow clients, and a reader that leaves, get on with it.
NobodyIsStuck ==
    /\ \A k \in Caster : caster[k].at = "unregister" ~> caster[k].at # "unregister" \/ ~alive
    /\ \A c \in Client : reader[c] = "unregister" ~> reader[c] = "done" \/ ~alive

\* A client that is in the map when its reader stops is taken out, and its
\* writer ends and closes the connection.
LeaverIsRemoved ==
    \A c \in Client :
        c \in members /\ reader[c] = "unregister"
            ~> (c \notin members /\ writer[c] = "done" /\ c \notin open) \/ ~alive

\* A client too slow for its channel, which has missed an event, does not stay
\* connected as if nothing had happened: it is removed and its channel closed.
SlowIsRemoved ==
    \A k \in Caster, c \in Client :
        caster[k].at = "unregister" /\ caster[k].to = c ~> c \in closed \/ ~alive

\* README.md:14 promises broadcasts to a room's members, and hub.go:26 guards
\* the map with a lock: a broadcast would never bring the process down.
ProcessSurvives == alive
=============================================================================
