------------------------------ MODULE Process ------------------------------
(***************************************************************************)
(* The life of the server process: configuration, connection, creation of  *)
(* the schema, serving and shutdown, over a database that outlives it.     *)
(* Every DDL statement commits on its own, so that a process that ends     *)
(* between two of them leaves a part of the schema to the next one.        *)
(***************************************************************************)
EXTENDS Naturals, Sequences, SequencesExt

CONSTANT MaxFaults  \* bound: crashes, failures and signals in a behaviour

ASSUME ConstantsAssumption == MaxFaults \in Nat

VARIABLES env,         \* the environment variables that may be malformed
          schema,      \* the types, tables and indexes that exist
          constraints  \* the checks of score_transfers.amount, by name

VARIABLES phase,     \* where main is; "down" when there is no process
          step,      \* the next statement of a script
          blind,     \* a HasTable of this process has failed
          cleaner,   \* the cleaner's goroutine runs
          signalled, \* the context of main is cancelled
          closed,    \* Shutdown has been called
          faults     \* how often something has gone wrong

database == <<schema, constraints>>
vars     == <<env, schema, constraints, phase, step, blind, cleaner, signalled,
              closed, faults>>
-----------------------------------------------------------------------------
(* The schema.                                                             *)

Types == <<"user_role", "room_status", "message_type", "transfer_status">>

\* requiredTables, in the order in which bootstrapSchema creates them.
Tables == <<"users", "activation_codes", "activation_redeems", "rooms", "room_members",
            "score_transfers", "room_messages", "room_events", "match_records",
            "match_record_players">>

Indexes == <<"idx_users", "idx_rooms", "idx_rooms_status", "idx_members_online",
             "idx_members_seq", "idx_messages", "idx_transfers", "idx_players">>

\* What has to exist before a table or an index is created.
Needs == [users |-> {"user_role"},
          activation_codes |-> {"user_role", "users"},
          activation_redeems |-> {"activation_codes", "users"},
          rooms |-> {"users", "room_status"},
          room_members |-> {"rooms", "users"},
          score_transfers |-> {"rooms", "users", "transfer_status"},
          room_messages |-> {"rooms", "users", "message_type", "score_transfers"},
          room_events |-> {"rooms", "users"},
          match_records |-> {"rooms"},
          match_record_players |-> {"match_records", "users"},
          idx_users |-> {"users"}, idx_rooms |-> {"rooms"}, idx_rooms_status |-> {"rooms"},
          idx_members_online |-> {"room_members"}, idx_members_seq |-> {"room_members"},
          idx_messages |-> {"room_messages"}, idx_transfers |-> {"score_transfers"},
          idx_players |-> {"match_record_players"}]

Statement(op, name) == [op |-> op, name |-> name]

Creating(names) == [i \in DOMAIN names |-> Statement("create", names[i])]

\* The check that CREATE TABLE has made gives way to the named one.
AmountScript == <<Statement("drop", "amount_check"),
                  Statement("drop", "amount_nonzero_check"),
                  Statement("add", "amount_nonzero_check")>>

Script == Creating(Types) \o Creating(SubSeq(Tables, 1, 6)) \o AmountScript
          \o Creating(SubSeq(Tables, 7, 10)) \o Creating(Indexes)

Objects == ToSet(Types \o Tables \o Indexes)

\* Mutant: CREATE without IF NOT EXISTS.
Possible_Once(s) ==
    CASE s.op = "create" -> /\ s.name \notin schema
                            /\ s.name \in DOMAIN Needs => Needs[s.name] \subseteq schema
      [] s.op = "drop" -> "score_transfers" \in schema
      [] s.op = "add" -> "score_transfers" \in schema /\ s.name \notin constraints

\* The database accepts s: a CREATE or DROP of what is there already, or not
\* there, does nothing.
Possible(s) ==
    CASE s.op = "create" -> s.name \in DOMAIN Needs => Needs[s.name] \subseteq schema
      [] s.op = "drop" -> "score_transfers" \in schema
      [] s.op = "add" -> "score_transfers" \in schema /\ s.name \notin constraints

\* CREATE TABLE score_transfers brings an unnamed check along.
Effect(s) ==
    LET new == s.name \notin schema
    IN  CASE s.op = "create" ->
                 /\ schema' = schema \cup {s.name}
                 /\ constraints' = IF new /\ s.name = "score_transfers"
                                   THEN {"amount_check"} ELSE constraints
          [] s.op = "drop" -> constraints' = constraints \ {s.name} /\ UNCHANGED schema
          [] s.op = "add"  -> constraints' = constraints \cup {s.name} /\ UNCHANGED schema

\* The database is new, or the migration of this or of an older release has
\* been run by hand.
Init ==
    /\ env \in [TOKEN_TTL_MINUTES : {"number", "garbage"},
                DISCONNECT_TIMEOUT_MINUTES : {"number", "garbage"},
                AVATAR_PUBLIC_BASE_URL : {"unset", "https", "other"}]
    /\ \/ schema = {} /\ constraints = {}
       \/ schema = Objects /\ constraints \in {{"amount_check"}, {"amount_nonzero_check"}}
    /\ phase = "down" /\ step = 1
    /\ blind = FALSE /\ cleaner = FALSE /\ signalled = FALSE /\ closed = FALSE
    /\ faults = 0
-----------------------------------------------------------------------------
(* Start.                                                                  *)

\* The process is gone, with its goroutines and its state.
Exit ==
    /\ phase' = "down" /\ step' = 1
    /\ blind' = FALSE /\ cleaner' = FALSE /\ signalled' = FALSE /\ closed' = FALSE
    /\ UNCHANGED env

\* log.Fatalf, or the end of main.
Fatal == Exit /\ UNCHANGED faults /\ UNCHANGED database

\* Mutant: the next script goes on where the last one ended.
GoTo_KeepsStep(next) ==
    /\ phase' = next
    /\ UNCHANGED <<env, step, cleaner, signalled, closed>>

GoTo(next) ==
    /\ phase' = next /\ step' = 1
    /\ UNCHANGED <<env, cleaner, signalled, closed>>

\* Somebody, or a supervisor, starts the process.
Launch ==
    /\ phase = "down"
    /\ GoTo("config")
    /\ UNCHANGED <<blind, faults>> /\ UNCHANGED database

Valid(e) ==
    /\ e.TOKEN_TTL_MINUTES = "number" /\ e.DISCONNECT_TIMEOUT_MINUTES = "number"
    /\ e.AVATAR_PUBLIC_BASE_URL \in {"unset", "https"}

LoadConfig ==
    /\ phase = "config"
    /\ \/ Valid(env) /\ GoTo("connect") /\ UNCHANGED <<blind, faults>> /\ UNCHANGED database
       \/ ~Valid(env) /\ Fatal

\* NewGorm pings the database with the context of main.
Connect ==
    /\ phase = "connect"
    /\ \/ ~signalled /\ GoTo("probe") /\ UNCHANGED <<blind, faults>> /\ UNCHANGED database
       \/ signalled /\ Fatal

Missing == ToSet(Tables) \ schema

\* HasTable takes no context and answers no if its query fails.
ProbeFails ==
    /\ faults < MaxFaults
    /\ faults' = faults + 1
    /\ blind' = TRUE

\* Mutant: the check is only seen to when the tables have been created.
Probe_TablesOnly ==
    /\ phase = "probe"
    /\ \/ GoTo(IF Missing = {} THEN "wire" ELSE "bootstrap") /\ UNCHANGED <<blind, faults>>
       \/ ProbeFails /\ GoTo("bootstrap")
    /\ UNCHANGED database

Probe ==
    /\ phase = "probe"
    /\ \/ GoTo(IF Missing = {} THEN "amount" ELSE "bootstrap") /\ UNCHANGED <<blind, faults>>
       \/ ProbeFails /\ GoTo("bootstrap")
    /\ UNCHANGED database

\* The next statement of a script, which ends the process if it fails.
Exec(script, next) ==
    \/ /\ step <= Len(script)
       /\ ~signalled /\ Possible(script[step])
       /\ Effect(script[step])
       /\ step' = step + 1
       /\ UNCHANGED <<env, phase, blind, cleaner, signalled, closed, faults>>
    \/ /\ step <= Len(script)
       /\ signalled \/ ~Possible(script[step])
       /\ Fatal
    \/ /\ step = Len(script) + 1
       /\ GoTo(next)
       /\ UNCHANGED <<blind, faults>> /\ UNCHANGED database

Bootstrap == phase = "bootstrap" /\ Exec(Script, "recheck")

Recheck ==
    /\ phase = "recheck"
    /\ \/ Missing = {} /\ GoTo("amount") /\ UNCHANGED <<blind, faults>> /\ UNCHANGED database
       \/ Missing # {} /\ Fatal

\* ensureTransferAmountConstraint does nothing if score_transfers seems to be
\* missing.
AmountCheck ==
    /\ phase = "amount"
    /\ \/ Exec(AmountScript, "wire")
       \/ step = 1 /\ ProbeFails /\ GoTo("wire") /\ UNCHANGED database

\* The hub, the service and the router are made and the cleaner starts.
Wire ==
    /\ phase = "wire"
    /\ phase' = "listen"
    /\ cleaner' = TRUE
    /\ UNCHANGED <<env, step, blind, signalled, closed, faults>> /\ UNCHANGED database
-----------------------------------------------------------------------------
(* Serving and shutdown.                                                   *)

\* ListenAndServe returns at once if Shutdown has been called before it.
Listen ==
    /\ phase = "listen"
    /\ \/ /\ ~closed
          /\ phase' = "serving"
          /\ UNCHANGED <<env, step, blind, cleaner, signalled, closed, faults>>
          /\ UNCHANGED database
       \/ closed /\ Fatal

Signal ==
    /\ phase # "down" /\ ~signalled
    /\ faults < MaxFaults
    /\ faults' = faults + 1
    /\ signalled' = TRUE
    /\ UNCHANGED <<env, phase, step, blind, cleaner, closed>> /\ UNCHANGED database

StopCleaner ==
    /\ cleaner /\ signalled
    /\ cleaner' = FALSE
    /\ UNCHANGED <<env, phase, step, blind, signalled, closed, faults>> /\ UNCHANGED database

\* Mutant: with a channel in place of a context only one goroutine would hear
\* of the signal.
Shutdown_Channel ==
    /\ phase \in {"listen", "serving"}
    /\ signalled /\ ~closed /\ cleaner
    /\ closed' = TRUE
    /\ UNCHANGED <<env, phase, step, blind, cleaner, signalled, faults>> /\ UNCHANGED database

Shutdown ==
    /\ phase \in {"listen", "serving"}
    /\ signalled /\ ~closed
    /\ closed' = TRUE
    /\ UNCHANGED <<env, phase, step, blind, cleaner, signalled, faults>> /\ UNCHANGED database

\* ListenAndServe returns as soon as Shutdown is called, and main with it: the
\* requests being served are cut off, not waited for.
Return == phase = "serving" /\ closed /\ Fatal

\* A crash, or a statement, a connection or a listener that fails.
Crash ==
    /\ phase # "down"
    /\ faults < MaxFaults
    /\ faults' = faults + 1
    /\ Exit
    /\ UNCHANGED database
-----------------------------------------------------------------------------
Main == LoadConfig \/ Connect \/ Probe \/ Bootstrap \/ Recheck \/ AmountCheck
        \/ Wire \/ Listen \/ Return

Next == Launch \/ Main \/ Signal \/ StopCleaner \/ Shutdown \/ Crash

Spec == Init /\ [][Next]_vars

\* The goroutines of the process run, and somebody starts it again.
Fairness == WF_vars(Launch) /\ WF_vars(Main) /\ WF_vars(StopCleaner) /\ WF_vars(Shutdown)

FairSpec == Spec /\ Fairness
-----------------------------------------------------------------------------
(* Properties.                                                             *)

\* The process and the database keep their types.
TypeOK ==
    /\ schema \subseteq Objects
    /\ constraints \subseteq {"amount_check", "amount_nonzero_check"}
    /\ phase \in {"down", "config", "connect", "probe", "bootstrap", "recheck", "amount",
                  "wire", "listen", "serving"}
    /\ step \in 1 .. CASE phase = "bootstrap" -> Len(Script) + 1
                        [] phase = "amount" -> Len(AmountScript) + 1
                        [] OTHER -> 1
    /\ {blind, cleaner, signalled, closed} \subseteq BOOLEAN
    /\ faults \in 0 .. MaxFaults

\* Whatever earlier starts have left behind, and at whichever statement they
\* were cut off, nothing is served and no sweep runs before every table
\* exists and amounts may be negative, but not zero.  Two gaps are left: a
\* HasTable that fails, and indexes that an earlier start did not come to.
ServingIsComplete ==
    phase \in {"listen", "serving"} =>
        /\ Missing = {}
        /\ ~blind => constraints = {"amount_nonzero_check"}
        /\ faults = 0 => schema = Objects

\* With a configuration that can be read, however often a start is cut off
\* between two statements, one that is left alone gets through: every
\* statement can be repeated and finds what it needs.
EventuallyServes == Valid(env) => <>[](phase = "serving")

\* A signal ends the process, in whatever phase it arrives: during the
\* creation of the schema, and before there is a listener to close.
SignalIsObeyed == signalled ~> ~signalled
=============================================================================
