# A TLA+ model of oniworks

oniworks is a Go web framework: an HTTP kernel and router, an in-process
key/value store that replicates itself over a cluster ("Oni Memory"), a WebSocket
hub on top of it, a job queue, a scheduler, migrations, sessions and the usual
middleware. This directory holds TLA+ modules for the parts of it in which
goroutines, nodes, messages and failures meet, the TLC configurations that check
them, and TLAPS proofs of the results that matter most.

`PROJECT.json` is the machine-readable side: which definition stands for which
source lines (`map`), what every run checks (`runs`), a deliberate defect for every
property that the property catches (`mutants`), the hazards of the code and the
properties that watch over them, the disagreements between code and comments
(`findings`) and the theorems.

Run a check with `tlc -config <run>.cfg <module>`, a proof with `tlapm <module>.tla`.

## 1. Inventory

| Part | State it keeps | Operations | Talks to | What is hard |
|---|---|---|---|---|
| vector clock (`memory/clock.go`) | lanes, atomic counter | Tick, Merge, After | store | Tick is an atomic add followed by a critical section |
| store (`memory/store.go`) | map of entries, clock | Set, Get, Delete, Expire, IncrBy, CompareAndSwap, Flush, eviction, applyRemote*, snapshot, Shutdown | transport, pub/sub | read lock then write lock, clock drawn before the lock, restart, crash during a snapshot |
| gossip (`memory/gossip.go`) | connections | dial, accept, broadcast, read loop | store of a peer | one goroutine per send (no order), lost connections, no resynchronisation |
| Redis adapter (`memory/redis.go`) | a subscription | broadcast, applyMsg | Redis | ordered, but without clocks; own echo |
| pub/sub (`memory/pubsub.go`) | subscribers, their channels | publish, subscribe, cancel | store, hub | send against close, full channels, leaked goroutines |
| hub (`realtime/hub.go`, `conn.go`, `event.go`) | connections, subscriptions, send queues | ServeHTTP, dispatch, Broadcast, replayMissed, Shutdown | pub/sub, event buffer, client | broadcast against subscribe, replay and loss of the connection; four ways for a connection to end |
| event buffer (`realtime/resume.go`) | a ring per channel | Push, Since | hub | wrap-around, age window |
| client (`client/oni-socket.ts`) | lastEventID, channel objects, timers | connect, resubscribe, resume, onMessage, leave, close | hub | replays overlapping live events; a timer pending at close |
| presence (`realtime/presence.go`) | entries with TTL in the store | Join, Leave, LeaveAll, Members | store, hub | cleanup of lost connections; TTL that nothing renews |
| job queue (`queue/queue.go`, `job.go`, `drivers/`) | lists, delayed sets, dead letters | Dispatch, Work, Stop, drivers' Push, Pop, Release, Dead | Redis | Stop against running jobs, crash after Pop, delayed jobs promoted by several workers |
| scheduler (`scheduler/scheduler.go`) | jobs, running flags | Start, Stop, run | cron library | overlap guard, Stop that does not wait |
| rate limiter (`middleware/ratelimit.go`) | windows per key | Allow, cleanup | requests | a window removed while a request holds it |
| timeout (`middleware/timeout.go`) | a buffered response | handler goroutine against deadline | HTTP | both answer |
| migrations (`migrations/migrator.go`) | the table of what ran | Migrate, Rollback | database | concurrent runs, crash between Down and the record |
| database (`database/`) | pool, transactions, pooled builders | Transaction, builder calls and terminal methods, Load | SQL | nested savepoints, statements outside the transaction, state left in a reused builder, argument order, joins in memory, connections held while asking for more |
| session and auth (`session/`, `auth/`, `middleware/auth.go`) | sessions by id, the cookie | Start, Save, Regenerate, Destroy, Attempt, Logout | requests | two requests of one session; cookies set after the response |
| container, application (`app/`) | bindings, instances, providers | Bind, Singleton, Instance, Alias, Make, Flush, Register, Boot | all | a singleton made twice; providers registered during Boot |
| router (`routing/`) | routes, groups, middlewares, names | Add, Use, Group, URL, ServeHTTP | requests | overlapping patterns, empty segments, registration while serving |
| kernel (`http/kernel.go`) | the server | Serve, signal, drain | store's Shutdown | two receivers of one signal |
| compress, recovery, logger, error handler | the response | wrap, write, flush, close | router | who writes after whom has returned |
| roles (`roles/rbac.go`) | definitions | Define, Can, AllPermissions | application | roles resolved before the lock; wildcards |
| health (`health/health.go`) | checks | Register, Run, Handler | checks | results in any order, hung checks |
| backup (`backup/backup.go`), local disk | files, a pipe | Backup, List, Restore, Upload, Put | dump tools | failures at either end of the pipe, incomplete files |
| storage, config, mail, validation, metrics, admin, deploy, CLI | mostly none | single calls | | formatting, parsing and I/O |

The properties that make each part correct are stated in its module and listed
per run below; the hazards in `PROJECT.json` say at which line each of them bites.

## 2. Modules

    VectorClock ──► ClockHistory ──► MCRealtime, ClockHistoryProofs
         └────────► OniMemory ─────► MCMemory, MemoryProofs
    TopicMatch ───► PubSub ────────► MCRealtime, RealtimeProofs
         └────────► HubBroadcast ──► MCHubBroadcast
    RecentEvents ◄─(refines)─ RingBuffer ──► MCMemoryReplay, RingBufferProofs
    EventResume ──► MCEventResume ─► MCMemoryReplay, RingBufferProofs
    JobQueue ─────► MCJobQueue
    AnswerChain ──► MCAnswer

    MCMemory, RingBuffer, MCEventResume ──────────────────────► MCMemoryReplay
    ClockHistory, PubSub, ConnPresence, ClientSocket ─────────► MCRealtime
    MCJobQueue, Timeout, Scheduler, StoreLifecycle, Health ───► MCServices
    DBTransaction, QueryBuilder, Relations, SafeIdent,
      ConnPool, Migrator, Backup ─────────────────────────────► MCDatabase
    HTTPRouting, SessionAuth, AppContainer, Roles, RateLimit,
      MCAnswer ───────────────────────────────────────────────► MCWeb

    PubSub, ConnPresence, ClientSocket ───────────────────────► RealtimeProofs
    RingBuffer, MCEventResume ────────────────────────────────► RingBufferProofs
    Timeout, Scheduler, Health, JobQueue, StoreLifecycle ─────► ServicesProofs
    DBTransaction, QueryBuilder, Relations, SafeIdent,
      Migrator, Backup ───────────────────────────────────────► DatabaseProofs
    AppContainer, SessionAuth, RateLimit, Roles,
      AnswerChain, HTTPRouting ───────────────────────────────► WebProofs

**VectorClock** has the clock as pure operators. A `VectorClock` object is a record
of lanes and counter; `TickAdd` and `TickStamp` are the two halves of `Tick`, since
`atomic.AddInt64` happens before the mutex is taken. `Merge` keeps the code's order
of statements: the lanes are raised first and the test for the own lane comes after
(so its branch is never taken). Node identifiers are only compared, so they are
numbers; 0 is the empty string of `ClockValue{}`. A Go map answers 0 for a missing
lane, so vectors are total functions.

**ClockHistory** puts these operators to work: goroutines of several nodes in the
middle of `Tick`, nodes that merge values others issued. The auxiliary variables
`past` and `known` record what a write causally follows.

**OniMemory** is the store on every node plus the transport. A step is what a
goroutine does between two points at which another one can get in: `SetBegin`,
`EndTick`, `SetStore`, `Sync` are one `Set`; `GetRead`, `GetCheck`, `GetEvict` one
`Get` (read lock, no lock, write lock); `IncrBegin`/`CasBegin`, `EndTick`,
`LockedStore` one atomic update, with `mu` held in between. `Expire` changes the
entry in place, which a goroutine holding the same pointer sees. `setup` is chosen
once and says which transport is used and who calls what, so that one run covers
several deployments. Gossip deltas are a set (every send is a goroutine of its own);
a connection's reader takes one at a time, and what was not read is lost with the
connection. Over Redis the deltas come in order, to the sender too, and without a
clock. `JSON` is the conversion Redis deltas go through: integers become floats.
`Restart` is a new process under the old NodeID. Time is a counter.

**TopicMatch** is `topicMatches` on segmented topics; **PubSub** has publishers
between collecting and delivering, cancel functions between removing and closing,
and the delivery goroutines. `panicked` becomes true on a send on or a close of a
closed channel, which Go would punish with a panic.

**RingBuffer** is `ringBuffer` with its array, `start` and `count`; **RecentEvents**
says what it promises, the last `Cap` events in order, and RingBuffer refines it
(`ImplementsRecent`, with `Contents` as the mapping).

**EventResume** has the hub's `Broadcast` in its four steps (draw the ID, push into
the ring, collect the connections, queue), a connection with its read loop and its
replay, and the official client with its reconnect and its duplicate filter. The
send queue and the socket are one queue; the ring is the abstract one.

**HubBroadcast** is `Broadcast` across nodes: the local push, the publish on Oni
Memory, the hub's topic pattern on the other side.

**JobQueue** has the workers' loop (`Poll`, `Promote`, `PopSome`/`PopNone`, `Process`,
`Succeed`/`Fail`, `Bury`, `Release`) over either driver, `Stop` and a crash of the
worker process. `Reachable` is the point of the manager's context: the Redis
driver's commands fail once it is cancelled, the memory driver ignores it.

**RateLimit** has requests between looking a window up (`Found`, read lock), creating it
(`Create`, write lock) and counting in it (`Allow`, the window's own mutex), and the
cleanup pass in between. A window is known by its number, so a request can hold one
that is no longer in the map. It holds a set of timestamps, whose order the code never
looks at; `allowed` records what was really let through.

**Timeout** is one request: the handler writes through the shared `Response` into the
buffer, the middleware flushes the buffer or answers 503. `real` is what the client
gets, `wrote` what the handler meant to send.

**Scheduler** has the engine's goroutines entering, running and leaving jobs; the cron
library is external and may fire every entry at any time.

**Migrator** has processes of two releases that migrate and roll back one database and
may fail or die between any two statements. The database is external: PostgreSQL keeps
a batch in its transaction, MySQL commits with every DDL statement. A row carries the
number of the command that inserted it, as its identity. `UpRepeats` and `DownRepeats`
are the migrations whose Up and Down succeed when they are run again, as those written
with the schema builder do (CREATE ... IF NOT EXISTS, DropIfExists).

**ConnPresence** follows connections from accept to cleanup: `ServeHTTP` with its connect
hooks, the read loop and the write loop, `Close`, `unregister`, the hub's `Shutdown`, and
the presence entries under their keys (channel name sanitized, connection id). Several
channels may have one key; `lapsed` records who lost an entry, because its time ran out
(nothing calls `Refresh`) or because a channel of the same key was left. A client may
vanish at any point.

**ClientSocket** is the client's other half: channel objects with their listeners and
their `subscribed` flag (old ones included, which the program may still hold), the
registry by name, the frames on the wire, the reconnect timer, the heartbeat and
`close()`.

**StoreLifecycle** has a process from New to exit and over restarts: the kernel's signal
handling and draining, the store's `watchShutdown`, `Shutdown` with snapshot and gossip
stop, and `loadSnapshot`. A `Shutdown` is several steps, and two callers may be in it; a
crash may come between any two. Values are plain or of a type gob was not told about.

**Health** is one probe: the copy of the checks, a goroutine for each, the map they
report into, the overall status. Checks are registered meanwhile; `heeds` says whether
they give up when their context ends.

**DBTransaction** is `TransactionContext` with savepoints named after the depth, and
writes through the `DB` a function is given. `AutoID` names the drivers on which models
have auto-increment keys, which is what sends `Insert` to the pool on PostgreSQL
(`InsertPastTx`). An inner call has a context of its own: when it has ended, RELEASE or
ROLLBACK TO is not sent and the call's writes stay (`InnerCut`). The server (savepoint
stack, aborted state) is external. `ref` is the reference: what every depth may rely on
if failed calls had no effect; `kept` and `loose` are the rows that these two defects
have touched, in the transaction and in the table.

**QueryBuilder** is a builder from the pool: a chain of calls, a terminal method that
assembles texts and arguments and is evaluated the way SQL does, the builder put back
with its fields set. A result is the set of its rows; LIMIT and OFFSET choose by a row's
place in key order. The clauses and numbers a chain can be called with are constants
(`Clause`, `Number`). `asked` records the chain and is the reference.

**Relations** is eager loading over a table that points to itself, with Go map keys that
carry their dynamic type. **SafeIdent** writes SELECT texts and comma lists of ORDER BY
terms field by field and compares what the checks accept with a grammar. **ConnPool**
reduces each terminal method to the connections it gets and puts back, in order; any
number of callers may hold one while they wait for another (`Exhausted`).

**Backup** has two `Backup` calls, `List` and `Restore`, and `Upload` with its dump
goroutine, the pipe and `Local.Put` at the other end, each of which may fail anywhere.
A Backup that fails removes its file, or does not, and then the deferred `gz.Close` ends
what there is with a trailer (`BackupFails`, `BackupCloses`), which a Restore that has
the file open reads.

**SessionAuth** is one browser with overlapping requests under the session middleware
and, on protected routes, the auth middleware, which starts the session again. The
memory store's `Regenerate` is two critical sections. `savesFirst` says whether handlers
save before they answer; the middleware's own Save comes after.

**AppContainer** has goroutines in `Make` between looking, building and storing, while
others bind, replace and flush, and the two phases of service providers.

**Roles** has `Can` between resolving the user's roles and reading the definitions, and
the wildcard match against the set of permissions a pattern denotes (`Denotes`).

**HTTPRouting** registers routes, groups, sub-groups and middlewares while a request is
matched and then runs its chain; paths are sequences of parts with the empty ones kept.
The routes and groups an application may declare are constants (`Declared`, `Opened`). A
slice of middlewares is a value of its own, or cells of an array that the application
passed to several calls (`Lent`); an append to one of those writes the array's spare cell
if it has `Room`. `owes` is the reference, what a group or route was given. A
`Route.Middleware` call is not locked, so a request that has found the route may see the
slice before or after it, or a mixture (`RunTorn`). `Received` is what net/http makes of
a URL that `URL` wrote with its values raw.

**AnswerChain** is one answer under Logger, Recovery and Compress in the orders
applications install them: the `Response` that commits once, the gzip writer that decides
at the first header, and the error handler that writes when every middleware has
returned. The client's view is what the bytes mean under their label.

**MCMemoryReplay, MCRealtime, MCServices, MCDatabase, MCWeb** compose parts that share no state
for TLC: a behaviour is a behaviour of one of them, chosen at the start by `part`, and
the others rest. Parts that do share state are composed in one module (hub, ring and
client in EventResume; kernel, store and gossip in StoreLifecycle; connection, hub and
presence in ConnPresence; builder, transaction and pool in DBTransaction and ConnPool).

## 3. Runs

A property that a run checks is a conjunction of named parts, one per promise, each stated
with the lines it is about: `StoreOK` is `TypeOK`, `LaneBound` and `SingleWriterConverges`,
`JobsAccounted` is `NoDuplicate`, `DeadOnlyWhenExhausted` and `NoJobLost`, `RoutesExact` is
`RequestsFindRoutes`, `URLLeadsBack` and `ChainComplete`, and so on. The liveness of the
parts of a composed run is one property too (`RealtimeFinishes`, `ServicesFinish`,
`DatabaseFinishes`).

| Run | Bounds | Distinct states | Shows |
|---|---|---|---|
| `memory_replay` | 1 node, 2 goroutines, 3 calls, TTL 0/1, 2 ticks, 1 restart; or 2 nodes, 3 calls, both transports, 1 lost connection, 2 ticks over Redis; ring of 3, 9 events; 2 channels or 2 publishers, 3 events, ring of 2, send queue of 3, 1 disconnection | 641k | neither Get's lazy eviction nor the pass drops a live key; IncrBy and CompareAndSwap are atomic; no clock is ahead of the counter it speaks of; no entry is replaced by a write that happened before it; with one writing goroutine and standing connections all nodes agree, and they get there; the ring's indices, replay against a reference definition, refinement; each event at most once and in order always; nothing missed in a calm history |
| `realtime` | clock: 2 nodes, 2+1 goroutines, 2 writes a node; pub/sub: 1 subscription of capacity 2, 2 publishers of 3 messages, 2 cancel calls; 2 connections, 2 channels of one presence key; 2 channel objects, 6 uses, 2 lost connections | 156k | `After` follows causality although lanes fall back; of two writes exactly one wins; no panic, order per publisher, nothing after cancel, goroutines end; members listed under a key are the connections of its channels, and every connection is cleaned up; client and server agree on subscriptions, a closed client stays closed, a lost connection comes back |
| `services` | both drivers, 2 jobs (one of unknown class), 2 workers, 2 queues, 2 attempts, Stop, 1 crash; 2 writes of a handler; 2 jobs, 3 goroutines, 2 calls of Start; 1 key, 2 processes, 2 changes; 3 checks of 2 names | 152k | no duplicate, no early burial, no loss while running, settling, Stop returns; the client gets the handler's answer or the 503, whole, and gets it; no job overlaps itself or is skipped for ever; an orderly exit leaves its entries to the next process, and a signalled process ends; a health answer tells the truth about every check |
| `database` | depth 3, 9 steps, 2 rows, both drivers, auto-increment keys on both; 3 rows, 4 clauses with AND and OR, numbers 0 and 2, 3 calls a chain, 2 chains; 2 nodes, 4 steps; texts of 5 fields and commas; 3 callers, 2 connections; 2 migrations, one of which may be repeated, 2 releases, 4 commands, both databases; 2 backups in 2 seconds | 1.05M | a transaction leaves all or nothing and inner failures undo exactly themselves, but for the rows of the two defects; a reused builder reads and writes what its chain says, pages tile the result; structs get their own relations; what is accepted as text is of the grammar and inert; calls end unless all connections are held by calls that wait for one more; what is recorded is applied and the other way round; a returned backup and a stored upload are complete, and a restore is unless the backup had failed |
| `web` | 2 routes, 4 registrations, paths and wildcard values of 3 parts, a shared slice with room for one more; 2 overlapping requests, 4 session ids; 2 services, 2 goroutines; 2 roles, permissions of 3 segments; 2 requests at once, 4 in all, 2 in a window of 2; 8 chains, 2 documents | 3.35M | requests find the first matching route and run the whole chain unless a shared cell was overwritten, URLs made from words lead back; no id from before a login carries a user, logins stick when saved in time; one shared instance, providers boot once in order; `Can` is exact; the limit holds unless cleanup takes a window from a request; what a handler wrote is what the client reads; errors before the first write are answered where nothing is written behind Compress; a status committed in time is the one logged |

Seven runs show where the code does something else than its comments say; each
checks the one property that states the comment:

- `memory_concurrent` (`Converged`): `Set` draws its clock before it takes the lock
  and stores without comparing. A remote write that arrives in between and wins on
  every other node is overwritten here, so the nodes keep different values.
- `resume_live` (`NoMissedEvents`): the client subscribes before it resumes; a live
  event raises `lastEventID` and the replay behind it is dropped as duplicates.
- `hub_peers` (`ReachesPeers`): the pattern `oni:broadcast:**` is one segment, so it
  never matches a broadcast topic and no other node hears a broadcast.
- `queue_stop` (`DrainKeepsJobs`): `Stop` cancels the context with which `Release` and
  `Dead` then talk to Redis; a job that fails meanwhile disappears.
- `tx_insert` (`AllOrNothing`): on PostgreSQL a model with an auto-increment key is
  inserted through the pool although a transaction is open (`builder.go:498`), and stays
  when it is rolled back.
- `validate_422` (`ValidationAnswer`): Validate answers and returns an error as well
  (`context.go:195`), and the error handler writes behind the 422.
- `session_login` (`LoginSticks`): the session middleware saves after the handler has
  answered (`middleware/auth.go:75`), so the new id of a login never reaches the browser.
  `SessionFollows` in `web` is the same for handlers that save before they answer.

Why the bounds are enough. Every hazard named in `PROJECT.json` needs two actors and
one disturbance: two goroutines in `Tick`, two writers and a reordered delta, a
publisher that collected and a cancel, two publishers that overtake each other, a
marker that just left the ring (ring of 2, three events), a worker holding a payload
while the manager stops, two siblings that reuse a savepoint's name, a builder's second
use, two requests around a login, a route added between match and chain, two connections
each held by a call that waits for one more. Five fields reach the check for words left
over behind a complete ORDER BY term. The bounds hold one more of each where the state space allows it. The mutants confirm that
the cases occur: every property is broken, under its own bounds, by a defect of the kind
it is about.

Deadlock is not reported where the environment may stop (callers are not obliged to
call, bounds run out), which is the case in every composed run; `RealtimeFinishes`,
`ServicesFinish`, `DatabaseFinishes`, `EventualAgreement` and `ResumeDelivers` say what
must not get stuck.

Calm histories. `MCEventResume` adds a history variable `calm`: events are broadcast
while the client is settled, or cut off with nothing missed on another channel; the
client saw an event before the disconnection; the hub is silent at the moment of the
reconnect; the send queue does not fill. `ResumeComplete`, a part of `ResumeOK`, and `ResumeDelivers` say
that resume works there; every one of the conditions is needed (section 5).

### Fairness

- OniMemory: a goroutine inside a call runs on (the Go scheduler is preemptive and
  no lock is held for ever), a delta that can be read is read (one read loop per
  connection), a lost connection is dialled again (`maintainConn` retries for ever).
  Calls, time, disconnections and restarts are not fair.
- PubSub: `publish` finishes its loop, cancel functions finish, delivery goroutines
  run. Handlers are assumed to return.
- EventResume: hub goroutines, the connection's loops and the client's event loop
  run; the client reconnects (its backoff has no last attempt). Broadcasts and
  disconnections are not fair.
- JobQueue: workers run and time passes. `Exit` has strong fairness: a `select` with
  both the ticker and the cancelled context ready picks at random, so it does not
  ignore the context for ever. Handlers are assumed to return.
- Timeout: the middleware's own goroutine runs. The handler is not fair, it may hang.
- ConnPresence: the loops of a connection run and notice a closed socket, a cancelled
  context or a missed ping; clients, hooks and Shutdown are not fair.
- ClientSocket: a timer fires, a socket that closes reports it, a connection that is
  attempted opens in the end (the timer retries for ever). The program is not fair.
- StoreLifecycle: the kernel's and the callers' steps after a signal. Requests may hang;
  the kernel's drain has a deadline.
- Health: the handler's goroutine runs; a check returns if it heeds its context.
- ConnPool: a caller goes on with a connection it can have, database/sql hands a free one
  to a waiter; a context that ends is not assumed to, which is why calls that have used up
  the pool stay (`<>[]Exhausted` in `PoolProgress`, and nothing else). Backup: Upload, its goroutine and Put run.
- Scheduler: goroutines run, and a job's function heeds its context, which has a
  timeout and is cancelled by `Stop`.

## 4. Proofs

A theorem holds for every value of the constants that the module's named `ASSUME`
admits: any number of nodes, goroutines, workers, jobs, keys or connections, and any
bound (`MaxTS`, `MaxCalls`, ... are arbitrary numbers to the prover, so a bound that makes
the model finite does not limit the result). The inductive invariants were checked with
TLC on the instances of the runs before they were proved. Every proof has the same shape:
the initial states satisfy the invariant, one lemma per action says that it keeps it,
the invariant implies the property, and a temporal step puts the three together.

`VectorClock` has the lemmas about its operators that two proof modules use: what `Merge`
makes of the lanes, the fields of a clock value, and that `After` is asymmetric and total
on values with different timestamps or nodes.

`ClockHistoryProofs`, for any set of nodes, any goroutines on them, any number of writes:

- `ClockTypeOK`: type correctness.
- `Causality`: `Spec => []CausalityRespected`. The property is not inductive. `CausalInv`
  adds, for every clock value known at a node and every Tick in progress there, that
  the node's lanes cover the value's lanes, except the node's own lane, which a
  late Tick may take back; there the drawn timestamp is greater (`DrawnAbovePast`), and
  no lane is above the counter it speaks of (`LanesBelowCounters`). `CoveringWins`
  turns such a covering into dominance, which decides `After`.
  `CausalBegin`, `CausalEnd` and `CausalReceive` are the three actions.
- `UniqueTimestamps` and `OneWinner`: from `UniqueInv`, which says that issued and
  drawn timestamps of a node are pairwise different and not above its counter;
  `OneWinner` also uses `AfterAsymmetric` and `AfterTotal`.

`RingBufferProofs`, for every capacity greater than 0 and every set of events:

- `RingSafe`: the indices stay in range and a slot that is read holds an event.
- `RingImplementsRecent`: the ring implements `RecentEvents`. `SlotArith` and `ModWrap`
  carry the arithmetic of the wrap-around, `PushShifts` says that a push on a full
  ring shifts the contents by one.
- `SinceExact`: `since` returns exactly the events that are kept, young enough and behind the
  marker, in order and each once. `Collected` is the loop's window after every turn;
  `CollectedIs` unrolls it, and `Ranked` and `UpTo` say that a kept event stands at the place
  that is the number of kept events up to it. `RestOfUnmarked` and `RestAfterMark` are the
  branches of the switch. What an induction over the turns would give is derived from the
  least turn at which it fails (`LeastOf`).
- `ResumeCorrect`, for any channels, publishers, ring and queue sizes, broken connections:
  `ResumeOK` of the replay. That nothing arrives twice or out of order (`SeenInOrder`) is
  inductive by itself, since the client compares with its last ID. That a calm history
  misses nothing is not: `CalmInv` says what is on its way to the client and in which order
  (`WayOrdered`), that every missing event is asked for, about to be replayed or on its way
  (`WillCome`), and that one event is in flight and what is missing is on one channel
  (`OneInFlight`, `OneChannel`), which is what the conditions of calm are for. It is stated
  with `calm` as its premise, and calm never comes back.

`MemoryProofs`, for any nodes, goroutines, keys, deployments (`Setups`) and transport:

- `UpdatesAtomic`: IncrBy and CompareAndSwap store what follows from the entry they find.
  `LockInv` is the argument: a goroutine between its check and its store holds the node's
  mutex, and the entry it based itself on is still the one in the map. Every other
  action either takes the mutex or, like `Expire`, cannot run while it is held.
- `LiveKeysStay`: only Delete, Flush, a peer's delete and a restart remove an entry that
  has not expired. `GetEvict` looks again under the write lock, which is what the step
  needs; without that test it fails.
- `LanesBounded`: `LaneInv` bounds the lanes in every place a clock can be (the nodes'
  clocks, the entries, the calls under way, the deltas in the network) by the counter of
  the lane's node. It is stated, like the property, up to the first restart, because a
  restart takes the counter back to 0 and the peers remember.
- `NoRegress`: no store replaces an entry by one that happened before it. `SoleInv` says that
  on a node that writes from one goroutine nobody else knows the timestamp of the write
  under way, so no entry there can be ahead of it. `NoCausalRegress` speaks of clusters
  with one writing goroutine per node, before any restart: with two, `Set`
  overwrites what it did not see, which is the run `memory_concurrent`.
- `StoreSound`: all of `StoreOK`, that is the types, `LaneBound` and `SingleWriterConverges`:
  with one writing goroutine, standing connections and nothing under way all nodes read the
  same. `ConvergeInv` has one argument per transport. `GossipInv`: every clock in the
  cluster has the lane of the writer's node only, so timestamps order all entries, the
  writer holds the newest of each key, and a peer holds it too or a delta with it is under
  way (`Told`). `RedisInv`: deltas come in one order and the last of them decides; it follows
  what each node ends up with for a key (`Final`) rather than what it holds, and the
  writer's own stamped entry, which an echo cannot replace, is what its echo says
  (`OwnFinal`).

`RealtimeProofs`:

- `PubSubDelivers`: no send on and no second close of a closed channel, and each
  publisher's messages in order and at most once. `PubSubInv` orders what a subscription has
  accepted, handled or still in its channel, and keeps it behind what its publisher has
  left to deliver. `PubSubCancelStops` is the action property that a returned cancel stops
  deliveries, also those of a publish that had collected the subscription before.
- `PresenceAgrees`: `IDsInv` (connection ids are distinct, the counter is above them),
  `EntriesInv` (each entry belongs to a connection in its loops or leaving, for a channel of
  that key it is subscribed to) and `CoveredInv` (each subscription has its entry or had
  it). The channels are any set of names, also such as share a key.
- `ClientServerAgree`: `EndsAs(wire, serverSub, Listens)` says what the server will hold
  once it has read the frames under way; `ObjectsInv` ties the registry, the channel
  objects and their flags.

`ServicesProofs`:

- `TimeoutAnswersWhole`: until the middleware leaves its select, the buffer mirrors what the
  handler wrote and the real writer is untouched (`Mirrors`).
- `SchedulerNoOverlap`: a flag is up exactly if one goroutine is between setting and
  clearing it.
- `HealthTellsTruth`: the map holds exactly the results of the checks that returned, and the
  answer comes when all have; 503 if one failed, 200 if all passed.
- `JobsKept`: `JobsAccounted` of the job queue, for any jobs, queues, workers, delays and
  attempts, both drivers, Stop and any number of crashes. `JobInv` splits the jobs into
  those in line, delayed, held, buried and done: the sets are disjoint (`Apart`), an id
  occurs once within each, and together they are what was dispatched as long as the
  driver can be reached (`KeptInv`). `HeldRight` and `Fresh` say that a payload's count is
  the number of attempts its job has had, so that a burial is neither early nor late.
  `Promoted`, `Taken`, `Appended`, `Delayed` and `Aged...` are lemmas about what the drivers
  do to the lines and sets, `LeastNat` gives `FirstReady` its least position.
- `SnapshotSurvives`: an orderly exit leaves its entries to the next process, for any keys,
  times, gossip and crashes before and after. `Exiting` follows the entries from memory
  through main's `Shutdown` to the file: at every stage they are the ones there were when
  `Serve` returned, but for those that expired since and those a peer overwrote
  (`FollowsAt`).

`DatabaseProofs`:

- `TransactionsExact`, without a hypothesis: for every call that runs the newest savepoint of
  its name holds the rows it may fall back to, up to the rows that savepoint knows to be
  left behind, and only savepoints of deeper calls follow it (`Marks`, `Backed`), also when
  siblings reused a name and when the savepoint of a call that was cut off is still there.
  Table and transaction agree with the reference row by row (`Agree`), except where `loose`
  or `kept` says that an Insert went past the transaction or an inner rollback was not sent.
- `BackupsComplete`: who writes which file (`OwnersInv`), a trailer only behind all data or
  from a Backup that failed (`TrailersInv`, `RestoreInv`), and the phases of an upload, dump
  goroutine, pipe and Put, against each other (`UploadInv`).
- `MigrationsAgree`: `ReliesOn` says what a process in the middle of a command may rely on in
  the shared table and schema, `Together` which commands can be under way at once, `Exact`
  which differences of table and schema are due to a step under way or cut off. Like the
  property it leaves out rollbacks beside other commands (`mixed`), and that a migration is
  recorded once is claimed of those whose Up cannot be repeated (not in `UpRepeats`).
- `RelationsLoadExactly`: an action property of every load. `Untouched` says that a struct
  has a relation loaded or the zero value, which is what a struct without rows keeps; the
  rest is what the maps keyed by dynamic type hold, with pointer keys and without.
- `TextsSafe`: SELECT accepts the grammar's texts and no others; ORDER BY accepts lists of
  any length with no term outside the grammar, and all of those with a direction wherever
  NULLs are placed. What the code accepts is decided by the length of a term and its words,
  the grammar is a concatenation; the lemmas on tuples bring the two together.
- `BuildersExact`: `BuilderExact` for any keys, clauses, numbers, chains and reuses of a
  builder, for First, All, Count, Paginate, Update, Delete, ForceDelete and Save; like the
  property it leaves open Count with an OFFSET and no grouping, Save with an OrWhere, and
  trashed rows under a write of a SoftDelete chain. `Tracks` is the inductive part: while a chain runs, an order-preserving map takes
  the builder's clauses to the calls that added them (`Linked`), its flags say which calls
  were made, and HAVING is the last one asked for. `ClauseBinds` is the argument about the
  statement: the placeholders of a clause, counted over SET and the clauses before it, are
  bound to the arguments it was added with. It needs what the two recursive functions
  `ArgsOf` and `Placeholders` return for any number of clauses; `CountUp`, the least
  counterexample among 0..n, stands in for induction. `LastPage` and `PageIs` are the
  arithmetic of the pages.

`WebProofs`:

- `ContainerShares`: what was given out is what is stored (`SharedIs`), and providers boot in
  the order of their registration, after all have bound (`BootInv`, `BoundInv`).
- `LoginRotates`: a stored session or one held by a request carries a user only under an
  id that Regenerate drew (`StoreGood`, `PageGood`), for any overlap of requests.
- `CookieFollowsUser`: for handlers that save before they answer and requests that do not
  overlap, `FollowInv` follows the id from the store to the cookie.
- `LimitKeeps`: `LimitHolds` is not inductive, since a window may be created, emptied and
  removed while requests are on their way to it. `WindowsApart` says that no two keys share
  a window object, and `WindowKnows` that a request about to count holds the object in the
  map and that this object has every timestamp that still counts. Then whatever was let
  through in a window of time that includes now is in the object, which never holds more
  than `Max`. Like the property it is about keys no window was taken from (`astray`).
- `PermissionsExact`: `Can` agrees with `Denotes`, for permissions of any length
  (`WildcardExact`: the code looks at one segment after the other and at a last "*"; the set
  speaks of a beginning of the permission).
- `AnswersExactly`: for any order of the three middlewares and any number of documents, in
  the cases `AnswerExact` names: a handler that returns nil, one that fails before it writes
  and is answered before Compress has returned, a status committed before Logger looks.
  `OnTheWay` says for every point between the handler and the server what is on the wire,
  under which label, and whether the gzip stream still has somebody to close it
  (`StreamGood`); `Rescued` follows a panic to Recovery.
- `RoutesServe`: for any declared patterns with the wildcard last and distinct parameter
  names, paths of any length, any number of routes and registrations at any time. `Spells` is the middle between the code's match and the reference: a pattern with
  values spells parts exactly if `match` accepts them with these values (`SpellsMatch`,
  `MatchSpells`), if the reference says so (`StandsIs`), and `URL` writes such parts
  (`URLSpells`). `RegisterInv` keeps the middlewares of every group and route complete and in
  order as long as no shared cell was overwritten (`CleanInv`), `ServeInv` that what a lookup found stays the first route for its path
  (`LookedUpStays`: routes are only appended).

Assumptions on constants are those the code makes: ranks of nodes are positive numbers,
limits and capacities are positive, there are finitely many channels and keys of a table,
time goes on at least once in the store's lifecycle, absent values (`None`, `NoJob`) are no
values, a manager has a queue to poll (`queue.go` fills in "default").

Only model-checked, and why:

- liveness (`EventualAgreement`, `ResumeDelivers`, `RealtimeFinishes`, `ServicesFinish`,
  `DatabaseFinishes`): the prover has neither fairness nor ENABLED;
- the type invariants of the composed runs (`ServicesTypeOK`, ...): what a proof needs of a
  part's types is a conjunct of its inductive invariant.

## 5. Divergences the models reproduce

Besides the findings, the modules contain these on purpose, because the code
does; no run is devoted to them. Where one of them goes against a comment or the docs,
the properties claim neither side, and each says at its definition what it leaves open.

- `After` mixes dominance with a tie-break by timestamp and the mix is not transitive:
  of three concurrent writes each can beat the next (`clock.go:107`). What a node keeps
  then depends on the order of arrival.
- A delete carries no clock and may overtake the set it follows on a gossip
  connection (`store.go:431`, `gossip.go:292`). That is why the
  single writer of the two-node part of `memory_replay` deletes over Redis only.
- An older delta that a gossip connection held back brings a key back whose newer entry has
  expired and been evicted meanwhile: there is nothing left to compare with
  (`store.go:415`). `SingleWriterConverges` over gossip is stated while nothing has expired.
- The Redis adapter applies sets with `ClockValue{}`, which lose against anything the
  receiver wrote itself (`redis.go:84`). That is why it has one writer there.
- The branch of `Merge` that should advance a restarted node's counter is dead
  (`clock.go:51`); `LaneBound` is stated for histories without restarts.
- `IncrBy`, `CompareAndSwap`, `Expire` and `Flush` do not reach the transport.
- `MaxKeys` is an option that nothing reads (`store.go:49`).
- A client that is cut off before its first event never asks for a replay
  (`oni-socket.ts:198`); a replay goes channel by channel while the client filters by
  one ID over all channels (`hub.go:403`); two broadcasts can enter the ring against the
  order of their IDs (`event.go:49`). These are the conditions of a calm history.
- A final `**` in a topic pattern is looked at only if the lengths differ
  (`pubsub.go:116`).
- `Dispatch` names a class with `%T` (`*jobs.SendEmail`), the example of `Register` shows
  a bare name (`job.go:40`); a job registered that way is dead-lettered unrun.
- The rate limiter's cleanup removes a window that a request has found and not yet
  counted in (`ratelimit.go:96`, `:174`); that request counts in an object nobody sees and
  more than `Max` can go through. `LimitHolds` leaves such keys out (`astray`).
- A panic in a handler under Timeout happens in a goroutine without a recover
  (`timeout.go:40`) and ends the process; `Alive` is that. After a 503 the shared
  `Response` still reports what the handler set, not 503.
- "Stop waits for running jobs to finish" (`scheduler.go:105`), but it returns a context
  to wait on; and a Start after a Stop runs jobs with a cancelled context.
- Migrations have no lock. Of processes that migrate together the second one fails if its
  statements cannot be repeated; if they can, which is what the schema builder writes, it
  succeeds and records the migration again, in a second batch (`migrator.go:129`); a rollback
  of that batch undoes what an earlier one recorded too, against "rolls back the last batch"
  (`migrator.go:141`). `RecordedOnce` is claimed of the others only. A rollback beside a Migrate
  that read the table earlier can leave a migration without a row: `deleteRan` deletes by name and takes the new row as well
  (`migrator.go:328`). `mixed` excludes those histories. A rollback that dies after Down
  leaves a row whose Down, if it cannot be repeated, fails from then on
  (`migrator.go:170`), and with MySQL such a migration that dies before its row is written
  can never be run again. `nextBatch`
  ignores the error of its query and starts again at 1 (`migrator.go:298`).
- `GracefulSave` lets `watchShutdown` race the kernel: the snapshot may miss the last
  requests, or the process may exit before it is written, while docs/memory.md says "On
  graceful shutdown, Oni Memory writes a snapshot". `SnapshotRestores` is stated for a
  main that calls Shutdown itself; two Shutdowns close `g.done` twice (`gossip.go:319`).
  A value of a type gob does not know leaves an unreadable snapshot (`store.go:494`).
- `sanitizeChannel` gives `a.b` and `a_b` one presence key (`presence.go:119`): Members of
  one channel lists connections of the other, against "all currently online members of a
  channel" (`presence.go:77`), and leaving one removes the entry of both. `PresenceOK` is about keys.
- Presence entries expire after five minutes, connected or not (`presence.go:64`);
  connection ids are a per-process counter, so two nodes share keys (`conn.go:58`,
  `hub.go:300`).
- A failing connect hook leaves the socket open and its error unsent (`hub.go:172`:
  the phase `refused`); a connection that registers after Shutdown stays.
- A channel object used after `leave`, or `send` before the first listener, leaves the
  client unsubscribed for good (`oni-socket.ts:131`); `misused` excepts such programs.
- `LoadManyToMany` never loads anything, because the rows are keyed by a column their
  struct has no field for (`relations.go:157`); a pointer foreign key loads nothing
  either (`:247`); a struct whose rows are all gone keeps the ones loaded before (`:290`).
- The rollback of a nested call is sent on the nested call's own context and its error is
  ignored (`db.go:214`); if that context has ended, the writes of the failed call stay and
  the outer commit keeps them, against the comment at `db.go:199`. `TxExact` excepts these
  rows and those of `tx_insert` one by one (`kept`, `loose`), and nothing else.
- Update and Delete of a SoftDelete chain change rows that are trashed already
  (`builder.go:780`), although "deleted_at IS NULL" is said to be on every query
  (docs/database.md:120, `builder.go:263`). `BuilderExact` leaves open whether they do.
- A term of ORDER BY that places the NULLs without a direction is of the documented grammar
  (`builder.go:188`, `:900`) and is refused (`builder.go:918`). `TextsSanitized` claims
  nothing of it.
- Count with an OFFSET and no grouping reads past its only row.
- A Save whose chain has an OrWhere can change rows other than its own (`builder.go:548`),
  because its primary key is only one more condition.
- Backups that begin in the same second share a file (`backup.go:72`). A failed Backup still
  closes its gzip stream (`backup.go:82`): a Restore that has the file open, or finds it
  because `os.Remove` failed, reads a valid trailer behind half a dump and returns nil; an
  unsupported driver leaves a valid empty file. A Backup that dies, or cannot write its
  trailer, leaves its file in the list. The dump goroutine of an upload whose Put failed is
  left behind (`backup.go:288`).
- A provider that is registered during or after Boot never boots (`application.go:87`).
- An error that is answered by the router, and a panic that a Recovery outside Compress
  answers (`recovery.go:49`, "the default 500 JSON response is sent", `:16`), is written after Compress
  has closed the gzip stream, and the client cannot read it; if the handler had begun to
  answer, the write panics (`compress.go:113`). The order of both examples is of this kind.
  Logger has read the status by then and records another (`logger.go:55`, against `:20`).
  A Flush before the first write sends the headers before gzip has labelled them
  (`compress.go:103`).
- Enough calls of First with relations, or of Insert in a transaction, use up the pool and
  wait for each other until a context ends (`builder.go:296`, `:498`).
- URL writes parameter values raw (`router.go:136`), so one with a slash, a question mark
  or an escape makes a URL that its route does not serve, against "generates a URL for a
  named route" (`router.go:122`); `URLLeadsBack` is stated for words. The URL of a route for
  "/" is the empty text, and an empty last parameter makes a path its route does not serve.
- Two routes registered with one slice of middlewares that has spare capacity append into
  the same cell (`route.go:34`, `router.go:102`), and one loses what it was given, against
  `route.go:30`; `ChainComplete` excepts histories in which a shared cell was overwritten.
  `Any` gives one slice to all its routes (`router.go:84`), and `Route.Middleware` writes
  without the lock that ServeHTTP reads under.
- A check that warns has not passed, and the probe is answered 200 (`health.go:138`), while
  the comment has "200 if all checks pass, 503 otherwise" (`health.go:103`). `HealthTruth`
  says nothing of the code when a check warns and none fails.
- Two health checks of one name hide each other; a check that ignores its context hangs the
  endpoint.

## 6. Not modelled

SQL text and dialects, column conversions of the scanner, schema builder, templates,
asset manifests, command-line glue, S3 and single file calls, log and mail formatting,
validation rules, config merging, metrics, framing and handshake of gossip messages, the
cryptography of tokens, passwords and secrets: pure conversions and I/O, in which nothing
waits for or races anything. CORS and CSRF are header filters without state. The realtime
router is a segment match like TopicMatch's. `PROJECT.json` lists every part with its
reason.

Components that are checked alone and are small share a run, as in MCServices.
