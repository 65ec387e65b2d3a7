# A verification of go_mini_server

TLA+ models of the card-game score server in `src/` (Go, Gin, GORM over
PostgreSQL, a WebSocket hub), TLC runs over small instances of them, and TLAPS
proofs of every safety property that these runs find to hold, for any number of
users, handlers, connections and faults.  All paths below
are relative to `src/`; `service.go` is `internal/service/service.go`.

## 1. The system

| Component | State | Operations | Modelled in |
|---|---|---|---|
| Rooms (`service.go` 346-989, 1190-1226) | tables `rooms`, `room_members`, `score_transfers`, `room_messages`, `match_records`, `match_record_players` | CreateRoom, JoinRoom, LeaveRoom, KickMember, ToggleRoomChat, CreateTransfer, TransferAction (rollback, reject), SendMessage, settleRoomTx | `Room`, `RoomTransactions` |
| Users and codes (`service.go` 44-344) | `users`, `activation_codes`, `activation_redeems` | WechatLogin, Register, Login, UpdateMe, CreateActivationCode, RedeemCode | `Accounts` |
| Presence (`service.go` 636-686, 1144-1188; `internal/scheduler/disconnect.go`) | `left_at`, `is_online`, `last_seen_at` of `room_members` | Heartbeat, UpdateRoomNickname, CleanupDisconnected once a minute | `Presence` |
| WebSocket hub (`internal/ws/hub.go`, `handler.go`) | the map of rooms to clients, the channels `register`, `unreg` and one `send` per client | ServeRoom, readPump, writePump, run, removeClient, Broadcast | `Hub` |
| Event feed (`service.go` 1228-1232 and its callers) | none of its own | notify, after the commit of most handlers; clients that read the room again | `Feed` |
| Chat rate limit (`service.go` 939-974) | reads `room_messages` | three limits per sender | `Messages` |
| Listing (`service.go` 991-1142) | reads only | messages by page; records | `Messages`; records not: they never change |
| HTTP API, middleware, avatar upload (`internal/handler`) | files | parse, call the service, format | not modelled: thin |
| Tokens (`internal/auth`) | none | sign and parse a JWT | not modelled: stateless |
| Bootstrap, configuration (`internal/db`, `internal/config`) | the schema | Load, NewGorm, EnsureSchema, at every start | `Process` |
| Process (`cmd/api/main.go`) | the context, the cleaner's and the shutdown goroutine | wiring, serving, shutdown | `Process` |

**How they interact.**  Request handlers run concurrently, one goroutine each,
and share nothing but the database; every handler that writes is a transaction
at READ COMMITTED and relies on row locks (`clause.Locking`).  The cleaner is
one more goroutine that calls LeaveRoom.  After their commit, handlers and
cleaner call `notify`, which calls `Hub.Broadcast` in their own goroutine; the
hub's goroutine and two pumps per connection share the map and the channels.

**What is hard.**

* The lock discipline is not uniform.  Join, leave, kick, toggle and transfer
  lock the `rooms` row first.  Rollback, reject and chat read it *without* a
  lock, lock a transfer or member rows, and touch `rooms` only at the end,
  through the foreign key of the message they insert.  So they act on a status
  and an owner that may be stale, and they take locks in another order.
* `settleRoomTx` reads all scores without locks while undos are under way.
* Join, leave, kick, RedeemCode and UpdateMe write whole rows back (GORM's
  `Save`), which loses any change committed since the row was read without
  `FOR UPDATE`.
* A unique violation aborts a PostgreSQL transaction, even if the Go code goes on.
* The cleaner acts on what it read at the start of its sweep, and almost any
  error ends the sweep for everybody who is still on its list.
* `Broadcast` ranges over a map that another goroutine writes and sends on
  channels that it closes.
* Events leave after the commit and outside the locks, so that they overtake
  one another; GetRoomDetail reads the room in two queries without a transaction.
* A message's `created_at` is taken before the INSERT that draws its id, and
  both before the commit that makes it visible: three orders that the rate
  limit and the paging each see a part of.
* Every DDL statement of the bootstrap commits on its own, so that a start may
  be cut off between any two of them.

**What makes each part correct.**  Rooms: scores equal the transfers that
count, a transfer is undone at most once, an active room has an owner who is in
it, the record is a snapshot, only members speak, and every handler answers.
Accounts: no code is used too often, no role comes from nowhere and none is
lost, no edit is lost.  Presence: the two columns agree, exactly the inhabited
rooms are active, no sweep overlooks a silent member, and that member leaves at
last; others are to stay, which the code does not quite keep (section 5).  Hub: no channel is
closed twice, nobody waits for ever, a leaver and a client too slow are removed,
the process survives.  Feed: once all is quiet, every connected client knows the
room.  Messages: no sender exceeds a limit by sending requests at once, and a
client that pages to the end has missed nothing.  Process: nothing is served over
half a schema, every start that is left alone gets through, and a signal ends
the process.

## 2. Modules

| Module | What it is |
|---|---|
| `Ledger` | What a transfer adds to a score, and the score that a set of transfers gives (constant operators) |
| `RowLocks` | PostgreSQL's row locks: two modes, what excludes what, who blocks whom, cycles of waiting |
| `Room` | The abstract room: each operation one atomic step |
| `RoomTransactions` | The room's handlers statement by statement; implements `Room` |
| `RoomTransactionsProofs` | The theorems about `RoomTransactions` and their proofs |
| `RoomRefinementProofs` | The proofs that `RoomTransactions` implements `Room` and that scores are the ledger of the transfers |
| `Accounts` | Users and codes statement by statement |
| `Presence` | Heartbeats and the sweep over several rooms, handlers atomic |
| `Hub` | The hub's goroutines and channels |
| `Messages` | The messages of a room: the sender's limits, ids, times and visibility, a client that pages |
| `Feed` | Composes `Room` and `Hub`: operations, the events they cause, clients that re-read |
| `Process` | The process from start to exit over a database that outlives it |
| `AccountsProofs`, `PresenceProofs`, `HubProofs`, `MessagesProofs`, `FeedProofs`, `ProcessProofs` | The theorems about the module of that name and their proofs |
| `MC*` | Constants of the TLC runs |

### How the models correspond to the code

**RoomTransactions.**  The state is one room's rows (`status` ... `finalScore`;
`joined` is the list of member rows in `join_seq` order, `present` those with a
null `left_at`) and, per handler, the locks it holds, its next statement, its
request and what it has read.  A statement that locks is a step that is enabled
when nobody else holds a conflicting lock.  Other transactions see committed
rows only, so a transaction's writes are applied in one step with its commit;
writes relative to the current value (`score - ?`) use the value at the commit,
whole rows written back use the value read (`seen`).  A refusal, at any check,
rolls back; so does `Cancel` (context cancelled, connection lost, process
killed) at any statement.  A wrong password is a refusal that JoinRoom may
choose; one by the chat's rate limit changes nothing, like `Cancel`, which
stands for it.  `is_online` is not modelled here because it always equals
"`left_at` is null" (`Presence`, `OnlineIffPresent`).  The shares that
foreign keys take on `users` rows are left out of this model: no room handler
locks a `users` row, and those of `Accounts` lock no room row, so that these
shares close no cycle.

KickMember's branch that settles the room is modelled, but never taken to the
end: the owner who kicks is present and cannot kick himself.

**Accounts** has the same form.  `IdentityKey` stands for an uncommitted entry
of the unique index, for which a second INSERT waits.  UpdateMe's UPDATE changes
no key and so goes together with key shares.

**Presence** takes the handlers as atomic, which `RoomTransactions`
justifies, and breaks CleanupDisconnected into its scan, its read of the rooms
and one step per member.  Time is counted in ticks up to the window plus one.
`Fail` is every error of LeaveRoom but "member not found": ROOM_SETTLED, and at
any time a deadlock, a cancelled context or a lost connection, where a COMMIT
whose answer is lost has removed the member all the same.  It ends the sweep, as
in the code, and so do a failing query for the rooms (`ReadRoomsFails`) and the
end of the process (`Restart`); the next tick of the ticker starts another.  A
settled room that the cleaner knows nothing of makes way for a new one
(`Unused`), so that rooms go on being created and settled for ever.  The history
variable `unheard` holds who was silent for too long at the last scan and has
neither left nor been heard of since.  One server at a time runs the cleaner.

**Hub** has one action per send, receive, lock section or iteration.  A write
of the map while another goroutine ranges over it is a data race: `WriteMap`
lets the runtime detect it (a fatal error) or not.  `range` yields each entry
that stays and perhaps new ones.  A panic in a request's goroutine is recovered
by Gin, one in the cleaner's is not.

**Messages** has SendMessage's checks as one statement each, over the rows that
are visible to it.  `Stamp` is the `time.Now()` for `created_at`, `Insert` draws
the id (a position in `log`, never given back) and `Commit` makes the row
visible.  A handler that writes a message of the system only stamps, inserts and
commits: that leaves out its locks and so allows more.  The clock never goes
back (one server, one clock; NTP steps are left out).  Of chats with equal times
any may come first in the ORDER BY.

**Feed** takes the operations of `Room` as atomic, which `RoomImplemented`
justifies, and the hub as `Hub` has it, with handlers as its casters.  CreateRoom
and ToggleRoomChat broadcast nothing, nor does a change of nickname.  A handler
owes its events from the commit on.  A client reads the room when an event
arrives, in GetRoomDetail's two queries; after it has been added to the hub it
reads once more (`synced`), because what was broadcast before is lost to it.  Two
ghosts mark the events that never come: `silent` (JoinRoom's read between the
commit and the event fails) and `missed` (the broadcast panicked).  The
connection is checked for access only when it is made, so that members who have
left go on hearing of the room.

**Process** has the DDL statements in the order of `bootstrapSchema`, one step
each; types, tables and indexes are names, with what each needs to exist.  There
is one process at a time: the hub is in its memory and it listens on one
address.  The database starts empty or with the schema complete, as by hand with
the SQL of `migrations/`, then with either form of the check on `amount`.  `blind`
is a `HasTable` whose query failed; it answers "no".  `Launch` is whoever starts
the server again.

`Room` and `RoomTransactions` have no recursive operators; `Ledger!Net` is a
recursive function.

## 3. What is checked

Every configuration is exhaustive within its bounds.

| Run | Instance | Shows |
|---|---|---|
| `RoomLedger` | 2 users, 2 handlers, every request about members and points, 2 transfers of 1 or -2, scores within -1..1 | `ScoreIsLedger`, `UndoneOnce`, refinement of `Room` |
| `RoomMembers` | 3 users, 2 handlers, members, the chat's switch, 1 transfer and its rollback | `OwnerIsPresent`, `RecordIsSnapshot`, refinement of `Room` |
| `RoomLiveness` | 2 users, 2 handlers, 1 transfer, 1 chat | `ChatFromMember`, `RequestAnswered` |
| `AccountCodes` | 2 identities, 2 codes, 3 handlers | `CodeAccounting`, `RoleIsEarned`, `EditIsKept`, `CreatedOnce` |
| `AccountLiveness` | 2 handlers | `RequestAnswered` |
| `Presence` | 2 rooms, 2 users, a window of 1 tick | `OnlineIffPresent`, `ActiveIffInhabited`, `NobodyIsOverlooked`, `SilentMemberLeaves` |
| `Hub` | 2 connections, 1 broadcasting goroutine, channels of capacity 1 | `MembersAreOpen`, `NobodyIsStuck`, `LeaverIsRemoved`, `SlowIsRemoved` |
| `Messages` | 2 senders, 2 handlers, 4 messages, 2 a minute and 2 in a row, pages of 1 | `OncePerSecond`, `MinuteHoldsFew`, `NoLongRun`, `PagingIsComplete` |
| `Feed` | 2 users, 2 handlers, 1 client, 4 operations | `UpToDate` |
| `Process` | 4 crashes, failed probes or signals | `ServingIsComplete`, `EventuallyServes`, `SignalIsObeyed` |
| `AccountRole`, `HubCrash` | small | the disagreements of section 5 |

Each passing run but `RoomMembers`, `RoomLiveness` and `AccountLiveness` also
checks its module's `TypeOK`.

**Why the bounds are enough.**  The hazards of the room are between two
transactions: a write and a stale read, or two lock orders; the third party of
a handover or of a settlement beside an undo is a user, not a handler, so
`RoomMembers` has three users (with two, an undo that
slips into a settlement cannot be told from one before it).  Two transfers let
an undo meet another transfer or undo of the same member; amounts of 1 and -2
with scores of at most 1 in size make a transfer and an undo overflow, which
stands for bigint's limits.  What these bounds leave out, the proofs of
section 4 cover for the properties they are about.  `AccountCodes` needs three
handlers to have two redemptions of the last use beside an edit.  `Presence`
needs a second room, since the first one's settlement ends the sweep for it;
two suffice, because a settled one can be created again.
Channels of capacity 1 are full at once; they hold 128 in the code.
`Messages` scales the code's second, minute, 20 a minute, 5 in a row and page
size down to 1, 2, 2, 2 and 1, with a clock up to 3, so that a window has a message
before, at and after its edge and four messages fill every limit.  In `Feed` two
handlers are what lets one event overtake another, four operations make a room,
fill it and change it while it is being read; clients do not affect one another
but in a broadcast that panics, so that there is one (with one, `missed` stays
empty).  Four faults in `Process` cut off a bootstrap, its repetition and the
shutdown.

`CHECK_DEADLOCK FALSE` is set for `Hub` (connections come and go once; a process may
die), `Feed` (its operations run out) and `Process` (a server that serves has no
step left when the faults are used up).  The other runs check deadlock: some
handler can always start, or the reading client go on.

**Fairness.**  In `RoomTransactions` and `Accounts` each handler's next
statement is strongly fair: PostgreSQL queues waiters, so that a lock that is
free again and again is granted.  `AbortVictim` is weakly fair: the deadlock
detector finds every cycle after `deadlock_timeout`.  Requests need never
come.  With three or more handlers an unending stream of overlapping key shares of a
row (redemptions by one user, each cancelled after the next has begun) can
starve a FOR UPDATE; TLC finds that behaviour with three handlers, so the two
liveness runs have two.  `RoomLiveness` uses `LiveSpec`, in which the same user
creates the room in every behaviour: liveness is not checked under symmetry, and
this loses no behaviour but for the names.  In `Presence`
only the cleaner is fair (weakly): its goroutine goes on, clients need do
nothing.  That alone does not remove a silent member: if every sweep is cut off,
those behind the error are never reached.  So `SilentMemberLeaves` has a premise,
`SweepsGetThrough`: if sweeps are cut off again and again, others get to their
end in between.  In `Hub` runnable goroutines run (weak fairness) and
goroutines that wait to send on a channel are served first come, first served,
which is strong fairness of that send; peers may stay silent for ever.  In
`Process` the goroutines run, and somebody starts the process again; crashes and
signals need never come.

Each property has been seen to fail when the code it is about is broken: the
modules carry those mutated operators, marked "Mutant", beside the originals (a
read without `FOR UPDATE`, a message without its foreign key, parties mixed up,
an early return that keeps the transaction open, a handover left out, ...).

## 4. What is proved

Every invariant and every action property that a run checks is also a theorem,
checked by TLAPS for every value of the constants:

| Module | Theorem | States |
|---|---|---|
| `RoomTransactionsProofs` | `TypeCorrect` | `Spec => []TypeOK` |
| | `OwnerAlwaysPresent` | `Spec => []OwnerIsPresent` |
| | `UndoneAtMostOnce` | `Spec => UndoneOnce` |
| | `MessagesAreFromMembers` | `Spec => ChatFromMember` |
| | `RecordIsTakenAtOnce` | `Spec => RecordIsSnapshot` |
| `RoomRefinementProofs` | `RoomImplemented` | `Spec => RoomSpec`: `RoomTransactions` implements `Room` |
| | `ScoresAreLedger` | `Spec => []ScoreIsLedger` |
| `AccountsProofs` | `TypeCorrect` | `Spec => []TypeOK` |
| | `CodesAreAccounted` | `Spec => []CodeAccounting` |
| | `RolesAreEarned` | `Spec => []RoleIsEarned` |
| | `UserIsCreatedOnce` | `Spec => CreatedOnce` |
| | `EditsAreKept` | `Spec => EditIsKept` |
| `PresenceProofs` | `TypeCorrect` | `Spec => []TypeOK` |
| | `OnlineAlwaysPresent` | `Spec => []OnlineIffPresent` |
| | `ActiveAlwaysInhabited` | `Spec => []ActiveIffInhabited` |
| | `SilentAreNotOverlooked` | `Spec => []NobodyIsOverlooked` |
| `HubProofs` | `TypeCorrect` | `Spec => []TypeOK` |
| | `MembersAlwaysOpen` | `Spec => []MembersAreOpen` |
| `MessagesProofs` | `TypeCorrect` | `Spec => []TypeOK` |
| | `SecondIsKept` | `Spec => []OncePerSecond` |
| | `MinuteIsKept` | `Spec => []MinuteHoldsFew` |
| | `RunIsKept` | `Spec => []NoLongRun` |
| | `PagesAreComplete` | `Spec => []PagingIsComplete` |
| `FeedProofs` | `TypeCorrect` | `Spec => []TypeOK` |
| | `ClientsKeepUp` | `Spec => []UpToDate` |
| `ProcessProofs` | `TypeCorrect` | `Spec => []TypeOK` |
| | `ServingAlwaysComplete` | `Spec => []ServingIsComplete` |

The only assumptions are the `ConstantsAssumption` of each module: a null id is
no user, client or code, limits, capacities and page sizes are at least 1,
amounts are integers other than 0, 0 is in the range of scores, and so on.  Hardly
any of these properties is inductive.  The inductive invariants (`Inv`, and
`RefInv` for the refinement) have each been checked with TLC as well, on
instances like those of section 3 (`Feed`'s on 3 operations).

**The room.**  That an undo finds its transfer still pending follows only from
the lock it took two statements earlier.  `Inv` adds

* `Exclusive`: no two handlers hold conflicting locks;
* `Checked(p)`, for each handler: what it holds and what it relies on at each
  statement (`RoomGuard`, `LeaveGuard`, `UndoGuard`, `ChatGuard`, `KeyGuard`);
* `MembersHaveRows`, for the existence of a successor.

The proof is a rely-guarantee argument.  `Guarded(p)` says that a step of `p`
changes a column only under the lock that protects it;
`OthersStayChecked` concludes, once and for all, that whatever another
handler has checked under its own locks stays so.  What is left for each action
is that it is `Guarded` and re-establishes its own handler's part.  The key
share is what makes the record a snapshot: an undo commits only with a share of
the rooms row's key, which excludes the `FOR UPDATE` of the settlement, although
the undo never meant to lock the room.  `SuccessorExists` uses well-foundedness
of the natural numbers (the least `join_seq` among those who stay).

`RoomImplemented` maps each commit to one operation of `Room` and every other
step to a stutter.  It rests on a stronger invariant, `RefInv`: `JoinGuard`,
that the whole row a later join writes back is current; `PartiesGuard`, that the
parties of a transfer about to commit are in the room; `EntitledGuard`, that the
owner an undo has read without a lock is or was an owner; and `History`, that
nobody without a member row has points and no transfer runs from a member to
itself.  `OthersStayEntered` is the counterpart of `OthersStayChecked`.  `Room`
allows an undo by any past owner, and this is needed: the proof fails for the
present owner alone.

`ScoresAreLedger` is proved for the operations of `Room` and carried over by the
refinement.  What the recursive `Net` becomes when a transfer is appended or
undone would be an induction over the list; it is had from the least index at
which there is no running balance (`BalanceExists`) and the least one at which
two of them differ, so that no induction theorem is needed.

**Accounts** follows the same argument.  A redemption relies on the lock of the
code's row for the remaining use (`CodeGuard`) and for not being a repetition
(`RedeemGuard`), and on that of the user's row for the nickname it writes back
(`UserGuard`); a creation relies on its entry in the unique index (`KeyGuard`).
UpdateMe holds no lock; `SaveGuard` says all that is true of the role it will
write back: it was earned.  That is why `RoleIsEarned` holds while a role may be
lost (section 5).  The redeemers of a code are counted, so that their set has to
be finite (`FinitelyRedeemed`).

**Presence.**  That a sweep acts on an old reading does no harm to the tables,
because the one thing it does to them is LeaveRoom, which looks at the rows again:
the invariants about the tables are inductive with `TypeOK`.  That nobody is
overlooked is not.  `ListKept` adds that whoever is in `unheard` is still in the
room, is on the list with an age for which LeaveRoom is called, and, once the
rooms have been read, is in a room that was read as active, since an inhabited
room is (`ActiveIffInhabited`).  So such a member is not skipped, LeaveRoom does
not miss it, and the only step that takes it off the list alone is its removal.

**Hub.**  A client could be added to the map after its channel was closed.
`Lifecycle` says that it is not: it waits in `register` at most once
(`OnceRegistered`), is then in the map, then closed, in this order.

**Messages.**  `SecondGuard`, `MinuteGuard` and `RunGuard` say what each check
has established about the sender's chats, for the `created_at` that the message
will have, as far as it is known (`Time`): time that passes between a check and the
stamp can only help.  They stay true because the sender's member row
is locked, so that nobody else commits a chat of that sender.  For the run, what
others commit meanwhile may only answer it.  `CommitKeepsLimits`, a lemma about
cardinalities, concludes that the new row breaks no limit, wherever it falls among
the times of the older ones.  `PagingIsComplete` needs that what was due and
is not read yet lies below the cursor.

**Feed** instantiates `HubProofs`: what `Feed` does to the hub are the hub's
steps, so that the invariant there carries over.  `SyncKept` says of each client
that has read the room since it was added: what it knows, or is about to know
from its first query, is current, or something is under way that makes it read again:
an event in its channel, a wish to read, or a handler that still owes an event
and has not visited it.  Order does not matter, because an event is only a
reason to read.  A handler that owes a second event (the settlement after the
departure) counts only between its broadcasts, because a panic in the first
takes the second with it; that the first suffices has to be shown.

**Process.**  The invariant says what the process in each phase has done itself,
never what an earlier one may have: the statements behind it have their objects
in place (`BootstrapKept`), the old checks are gone (`AmountKept`), and
without a fault a start is all or nothing (`FaultFree`).  For the last, each
statement has to be possible: `NeedsAreMet` shows that what it needs is created
by an earlier one, for each of the 22 objects and whatever exists already.

**Only model-checked.**  Liveness (`RequestAnswered` of the room and of the
accounts, `SilentMemberLeaves`, `NobodyIsStuck`, `LeaverIsRemoved`,
`SlowIsRemoved`, `EventuallyServes`, `SignalIsObeyed`): it rests on fairness, and
so on `ENABLED`, for which TLAPS has no rules here.  The two properties that
open section 5 are refuted, not proved.

## 5. Where the code and its documents disagree

* `AccountRole` (`service.go:217`, `227`): UpdateMe reads the user without a
  lock and writes the whole row, role included.  An edit of the profile that
  overlaps a redemption takes the granted role away while the code stays used.
* `HubCrash` (`hub.go:92`): Broadcast ranges over the map outside the lock and
  sends on a channel that may be closed: a data race and, in the cleaner's
  goroutine, a panic that ends the process.

Seen while modelling, without a run of their own:

* `docs/API_CONTRACT_FOR_CODEX.md:426-427` lets the giver or the owner roll a
  transfer back, and the receiver or the owner reject it.  TransferAction reads the
  owner without a lock (`service.go:842`) and then waits for the transfer's row: an
  owner who leaves meanwhile still undoes the transfer as the owner.  `Room` admits
  that (its undo is by a party or by anyone who has owned the room), so that
  `RoomSpec` does not tell the two apart.
* WechatLogin (`service.go:75`) answers a unique violation with "return nil" to
  commit, but PostgreSQL has aborted that transaction; of two first logins at
  once one gets an internal error.  `CreatedOnce` shows that at least no second
  account comes of it.
* The cleaner (`service.go:1176`) decides by the `last_seen_at` of its scan, and
  LeaveRoom does not look at it again: a member whose heartbeat came in between is
  removed, although `README.md:16` speaks of those without a heartbeat for five
  minutes.  `Presence` has that step (`Remove`); no property excludes it.
* Nothing says in which order the cleaner takes its members (`service.go:1146`),
  and any error but "member not found" ends its sweep (`service.go:1183`): a member
  for whom LeaveRoom fails every time keeps those behind from being removed at
  all.  `SweepsGetThrough` assumes that this does not go on for ever.
* JoinRoom (`service.go:491-497`) commits, then reads the room, and returns the
  error of that read without broadcasting `member_joined`: a client that goes
  away at once joins unseen.
* `bootstrap.go:36` looks at tables only: if a start is cut off after the last
  table, no later one creates the indexes.  `bootstrap.go:206` leaves the check of
  the amounts out when its `HasTable` fails.
* A sender who is alone in chatting is refused for ever after five chats, since
  no time limits the run that is counted (`service.go:959`).
* A client that polls only the newest page and stops at an id it knows may miss a
  lower id that was committed late; one that applies `score_changed` events as
  they come, instead of reading the room, may end with the wrong scores.
* `docs/openapi.yaml:452` says that a negative amount is turned round;
  CreateTransfer stores it as it is (`README.md:12` says the latter).
* TransferAction and SendMessage lock rows in an order opposite to the other
  handlers', and two undos may lock two members in opposite orders.
  They do deadlock; PostgreSQL aborts one, whose client gets a 500
  (`RequestAnswered` holds because of that).
* `Register` and `Unregister` use two channels.  If the hub takes the second
  first, a connection that ends at once stays in the map for ever;
  `LeaverIsRemoved` is about clients that are in the map.
* CreateRoom's retry after a unique violation runs in an aborted transaction
  and cannot succeed.
* `ListenAndServe` returns as soon as Shutdown is called, and `main` with it,
  so that handlers in flight are cut off; `Cancel` covers what that does to the
  database.

## 6. Not modelled

Input parsing, trimming, formatting, logging, password hashes and random codes
(a draw is a choice); tokens, which are stateless; file uploads; the contents of
events and messages; the listing of match records, which read rows that one
transaction writes and nothing changes; several rooms at once in
`RoomTransactions` (handlers of different rooms share no locked row); several
server processes at once; in `Feed`, a COMMIT that takes effect although its
answer is lost, so that no event is sent; clocks that go back; faults of PostgreSQL other than
the loss of a connection.  The HTTP layer is left out because each of its
handlers is one call of the service between parsing and formatting.

## 7. Plan

Done, in this order: `Ledger`, `RowLocks`, `Room`, `RoomTransactions`,
`Accounts`, `Presence`, `Hub`, `RoomTransactionsProofs`,
`RoomRefinementProofs`, `Messages`, `Feed`, `Process`, and then the proofs of
`Presence`, `Hub`, `Accounts`, `ScoreIsLedger`, `Messages`, `Feed` and `Process`.
The parts of the code that keep state or run concurrently all have their module,
and every safety property its theorem.

Next:

1. The safety half of the liveness properties: that a request which is not
   answered always waits for a lock, and that the hub's goroutine waits for
   nobody but an empty queue (so that `NobodyIsStuck` needs fairness alone).
2. `Room` and `Accounts`: an abstract specification of a redemption as one step,
   implemented by `Accounts`.
3. The justification of the abstractions between modules: that a room of
   `Presence` is a room of `Room` with its ledger left out.
