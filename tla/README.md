# Blue-Bird: a TLA+ verification project

Blue-Bird is a C web framework: a cooperative runtime, non-blocking connections,
an HTTP server and client with WebSockets, persistence over JSON files, SQLite
and PostgreSQL, sessions and passwords, templates, and two tools. This directory
holds TLA+ models of its parts, the TLC runs that check them and the theorems
that TLAPS proves about them. Paths below are relative to `src/modules` unless
they start with `src/`.

## 1. Inventory

| Component | State it keeps | Operations | Talks to | Modules here |
|---|---|---|---|---|
| runtime (`runtime/src/runtime.c`) | watcher table, timers, running flag | schedule, watch, unwatch, cancel, set interval/timeout, tick, run, stop, destroy | scheduler, poller, tasks (callbacks into user code) | `Runtime`, `SwapTable` |
| scheduler (`scheduler.c`), task (`task.c`) | FIFO list; state bits, run and cleanup callbacks | schedule, next; create, execute, cancel, destroy | user code | `Runtime`, `TaskLifecycle` |
| timer heap (`timer_heap.c`) | array heap keyed by time | push, peek, pop, reschedule top, remove task | runtime | `TimerHeap` |
| poller (`poller.c`, `poller_backend/*`) | descriptor -> interest mask; fairness cursor in the epoll and poll backends | register, unregister, wait | kernel | mask table in `Runtime` |
| connection (`web/src/connection/connection.c`, `conn_list.c`), async connection (`async_connection.c`) | read buffer, write buffers, I/O hints, read and write task, watched directions | read, write, accept, connect; create read/write task, pause, close, destroy | transport, runtime, owner's callbacks | `AsyncConnection` |
| HTTP server (`server.c`) | connection list, route and middleware lists | accept, read step, run the pipeline, respond, upgrade, destroy | async connection, websocket | `ServerConnection`, `HttpServer` |
| HTTP messages (`web/src/http`), router, middleware | parser state, request and response objects | feed, parse target, match, serialise | server, client | `HttpParser`, `HttpServer` |
| HTTP client (`client.c`) | one request in flight, its parser | get, post, reset, read step | async connection | `HttpExchange` |
| WebSocket (`web/src/websocket`) | handshake and close state, fragments, heartbeat, list of peers | accept, connect, send, close, ping, broadcast | async connection, timers | `WebSocketSession` |
| transport, TLS (`web/src/transport`) | OpenSSL session | read, write, handshake, shutdown | OpenSSL | inputs of `AsyncConnection` |
| PostgreSQL backend (`persist/src/model/model_postgres.c`) | pool of 8 connections, remembered tables | insert, find, update, remove, query | threads, server | `PgPool`; statements in `Query`, `Repository` |
| SQLite backend (`model_sqlite.c`) | pool of handles, remembered tables | the same | threads, file | `SqliteStore`, `EntityStore`; statements in `Query` |
| JSON backend (`model_json.c`, `entity_json.c`) | a file with an array | the same | file | `Repository` |
| query, repository (`query.c`, `repo.c`) | conditions, sort keys, page | build, evaluate, order, page | backends | `Query`, `Repository` |
| key-value stores (`persist/src/key_val`) | a JSON document, a directory, a table | save, load, remove | JSON, files, SQLite | `KeyValue` |
| JSON (`utils/src/json.c`) | values; an object is a hash table with an ordered list | set, get, remove, parse, serialise, load, dump | everything that stores JSON | `Json`, `JsonGrammar` |
| migration tool (`src/tools/migrate`) | files in a directory; a ledger in the database | status, up, verify, generate | files, SQLite, manifests | `Migrate`, `TableSpec` |
| sessions, auth, passwords (`security/src`) | session table with expiry | create, find, destroy, cleanup | random numbers | - |
| schema and model registry, metrics, template, hash, encoding, config, log, error, codegen | lists made at start-up, counters, or none | pure functions and output | - | - |

What is hard to get right, and hard to reach with a unit test:

* The runtime is single-threaded but re-entrant. It calls run and cleanup
  callbacks in the middle of its own loops, and they schedule, watch, cancel,
  unwatch and stop. Every table may change under every loop.
* Ownership of tasks moves between the queue, the watcher table, the timer heap
  and the call that is executing; a task must be freed exactly once.
* Time wraps, intervals may be zero, and the heap is changed in its middle.
* The poller's masks and the watcher table are two copies of one fact.
* Connections have two tasks on one descriptor, with TLS swapping directions,
  and their owners are told about errors from inside the task that has them.
* A message arrives in fragments that end anywhere: what the HTTP parser and the
  WebSocket reader keep between two calls decides whether they understand it.
* The pools are shared by threads, over a server that drops connections or
  connections that have a database each.
* Three backends have to mean the same by one query, through two pattern
  languages and an evaluation in memory.
* Migration processes race with each other, with developers who edit the files,
  and with their own crashes.

`PROJECT.json` lists the hazards one by one, at the line where each bites.

## 2. Modules

The numbers give the order in which they were built; all of them are done, and
section 6 says what is left.

### 1. Runtime

`Runtime.tla` is `runtime.c`, `scheduler.c`, `task.c` and the table of
`poller.c`. `mem`, `flags` and `cleanups` are the tasks: allocation, state bits,
and a ghost count of cleanup calls. `queue`, `watchers`, `interest` and `timers`
are the four structures that refer to tasks. `pc` is the phase of a tick or of
the shutdown, and `stack` holds the operations that wait for a callback:
`run`, `destroy` (then the task is freed), `cancel` (then its watchers and timers
are removed and it is queued for destruction) and `unwatch` (then the entry at
the loop index is removed). `UserCode` says when control is in a callback or
outside the runtime; all public operations are guarded by it, so a cleanup
callback may cancel, watch or unwatch while `bb_runtime_cancel_task` is waiting
for it. Time is abstracted to "any set of timers is due"; `TimerHeap` refines it.

Each task identity stands for one allocation. Time, the contents of events and
user data are left out. Assumed of the program, because nothing in the code
guards it: a caller holds a pointer to a task that has not been freed and does
not cancel a task from its own final cleanup, and cleanups that
`bb_runtime_destroy` runs do not use the runtime.

`TaskLifecycle.tla` is what an owner may rely on, with neither queue nor tables:
at most one task runs, cleanup is called once and never before a later run, the
task is freed once, after its cleanup and not while it runs. `KeepsLifecycle`
says that `Runtime` implements it.

### 2. TimerHeap

`TimerHeap.tla` is `timer_heap.c` with the timer loop and the poll timeout of
`runtime.c`. Each step is one iteration of a loop, so that the order of the
heap is stated also in the middle of a sift. Sums are taken modulo `Wrap`, the
width of `uint64_t`.

### 3. PgPool

`PgPool.tla` is the pool of `model_postgres.c`: `pool_acquire` and
`pool_release` under the lock, connecting, resetting and CREATE TABLE outside
it, the condition variable with spurious wakeups, and every call of the backend
as acquire, ensure table, statement, release. The statements' text and results
are left out here; they may fail. `pg_close` is left out: its contract is that no
other thread uses the handle.

### 4. AsyncConnection and ServerConnection

The runtime executes one task at a time to its end, so a run of a read or write
task is one step. `AsyncConnection.tla` defines a record for one connection and
one operator per C function of `async_connection.c` and `connection.c`, from
record to record; `bb_connection_read` and `bb_connection_write` return the set
of their outcomes (result, connection, direction to wait for).
`ServerConnection.tla` composes these operators with the callbacks of
`server.c`, in the order of the code, and adds the server's own record (`own`):
the task data, the WebSocket, membership in `conn_list` and `ws_list`. Its
actions are the runs of `_server_accept_task`, `_bb_read_task` and
`_bb_write_task`, each only when the poller reports a direction that it is
watched for, the end of a WebSocket session, `bb_server_destroy`, and what the
peer does: it sends, reads, sends a TLS record without data, and closes.

Bytes are chunks and buffers are counts. `inbox` is what has arrived and was not
read, `len` and `out` are the two buffers. The parser may refuse any input and
accepts from `ReqLen` chunks on; `Answer` lists the ways a request pipeline ends
with a response. `answer`, `sent` and `received` are ghosts. An allocation that
can fail is a choice over `AllocResult`. `fault` says that released memory was
used or released again; after it the code's behaviour is undefined and the
connection takes no further step of its own.

Of the environment: a socket is readable when it holds data or a TLS record, and
writable while the kernel's buffer, of `SockCap` chunks, is not full; only the
peer's reading empties that buffer. A write that is not finished waits because the
buffer is full, or, with TLS, because it needs a record of the peer. TLS may ask
for the opposite direction at most `MaxFlips` times. When the peer hangs up both
directions are reported, as `epoll.c`, `poll.c` and `kqueue.c` do for a closed
socket; a peer that closes one direction only is not modelled.

`PhaseInv` in `ServerConnectionProofs.tla` is the design in one formula: a
connection is before accept, reading, writing, a session, or gone, and each
phase fixes which objects exist, which lists hold them, which hook is installed
and which task is watched.

### 5. WebSocketSession

`WebSocketSession.tla` composes the operators of `AsyncConnection` a second time:
two ends, a client made by `bb_websocket_connect` and a server's session, each
with its `io` (the async connection) and `ws` (the session) records, over a
socket of `SockCap` chunks. The stream towards a side is the sequence of frames
it has not taken; how much of it is still with the sender, in the socket or in
the receiver's buffer are counters, so that a read or a write may end anywhere
inside a frame. The read step takes whole frames, answers pings and closes,
delivers messages and moves the rest to the front, as the loop of
`websocket.c` does; sending writes once and leaves the rest to a later event.
`HeartbeatTick` is the timer of the server: it counts missed pongs and tears the
session down. Either side may vanish without closing its socket. What the server
does before its answer is the subject of `ServerConnection` and one step here; the
answer may be its 101, another complete response, or malformed, and the client
takes any complete one as the end of its handshake.
Masking, the encoding of lengths and the accept key are abstracted.

### 6. Migrate and TableSpec

`TableSpec.tla` holds tables as sequences of columns, what SQL statements do to
them, and the derivation of SQL from the difference between a manifest and the
tables (`table_spec.c`, `generate.c`). `Migrate.tla` has a process per command
line: it collects the paths, reads the files one by one, makes sure of the
ledger, plans **without** the lock, then, for each migration, begins a
transaction, checks and records it, executes its SQL and commits; `verify` and
`generate` replay the files on a scratch database, and `generate` chooses a
version and writes its file. Every place between two calls of the system is a
step at which another process may run, a developer may change the directory, or
the process may die (its transaction is rolled back). A checksum is the SQL
without its line endings, because the code normalises them.

### 7. HttpParser, HttpServer and HttpExchange

`HttpParser.tla` is the incremental parser: `Feed` takes a fragment and walks the
states from the request line to the trailers with every limit of the code (the
sizes of a target and of a reason phrase are never reached, because a line has the
same limit), and what it must remember (the unfinished line, the last CR, what a chunk has left)
is in its record. The wire carries symbols, not bytes: the characters that mean
something, escapes such as `%2e`, and words for runs of ordinary characters.
`HttpServer.tla` is what happens to a complete request: splitting and decoding
the target, routes with parameters, middlewares before and after the handler,
and the response, with the limits on the method, the path, its segments, those of
a route, and the query; only the cut of a route parameter's long name or value is
left out. `HttpExchange.tla` lets the client of `client.c` and the server
exchange messages over connections that cut them anywhere and may break;
instead of this client another program may send the request, and instead of this
server another program the response. What a message means is stated once more
over the message itself (`Allowed`, `Understands`), without a parser.

### 8. EntityStore and SqliteStore

`EntityStore.tla` is what a backend promises to the threads that share its
handle: a call takes effect at one moment between its start and its return, with
the result that the table gives at that moment, or fails without effect.
`SqliteStore.tla` is the code: borrow a connection from the pool (or open one, or
spin at capacity), make sure of the table, run the statement, ask
`sqlite3_changes`, give the connection back. A private in-memory database is a
database of its own for every connection, which is why its pool has one; the
module keeps a table for each. `ImplementsStore` is the refinement: `rows` is the
table of the database and `answer` is what the place of the thread already
settles (`Settled`).

### 9. Query and Repository

`Query.tla` has the builder, the evaluation in memory (`query.c`), and the two
translations, to SQLite's GLOB and PostgreSQL's LIKE, with the matchers of the
two databases as external definitions. Patterns and names are sequences of bytes,
because escaping is about single bytes. `Reference` is what `bb_query_apply` may
return for the rows in any order. `Repository.tla` gives a SQL table and a JSON
file the same calls (`model_postgres.c`, `model_sqlite.c`, `model_json.c`,
`repo.c`) and remembers in `agreed` whether the last call returned the same.

### 10. Json, JsonGrammar and KeyValue

`Json.tla` is `json.c`: a hash table with chains that doubles at three quarters,
beside an ordered list; the serializer with its escapes, its indentation and the
shortest form of a number; the recursive-descent parser with its depth limit, its
two passes over a string and its range checks. `JsonGrammar.tla` says what a text
means by splitting it as the grammar of RFC 8259 does, with no position and no
state. `KeyValue.tla` gives the three key-value backends the same calls; every
call of the JSON backend loads the document, changes one member and writes all of
it, so that each call is a round trip of every other member. `kept` is the
reference: the meaning of the first document, changed by the calls.

How the modules reach the theorems: `Runtime`, `TimerHeap`, `PgPool`,
`ServerConnection`, `WebSocketSession`, `Migrate`, `SqliteStore` and `Repository` (with
`Query`) have no RECURSIVE operator and have a module of proofs each (`RuntimeProofs`
...); the modules of 7 and 10 are recursive where their code is and are checked with
TLC only.

## 3. Runs

| Run | Instance | Shows |
|---|---|---|
| `runtime_core` | 3 tasks, 2 descriptors, 2 events per batch, calls nested 3 deep, masks READ or WRITE | tables, queue and memory stay consistent under re-entrant callbacks; no watcher is skipped by the swap-removal in the dispatch loop; the runtime implements `TaskLifecycle` |
| `runtime_live` | 1 descriptor, allocations and registrations may fail, fairness | the error paths never free a task early or twice; a queued task gets its turn, a cancelled task is freed |
| `timers` | 6 timers, capacity 3, delays 0 and 3, width 4 | heap order in every loop state; a removed task has no entry left; nothing due is left, nothing fires twice in an update, no oversleeping |
| `pg_pool` | 4 threads, 2 slots, 1 table, 1 call each, fairness | no connection is shared or lost, every call returns |
| `server_tcp` | 2 plain connections, 3 chunks from each peer, fairness | every object is released once by its one owner, through hang-ups, errors, upgrades and shutdown; responses are not cut short; complete requests are answered |
| `server_tls` | 1 TLS connection, 4 chunks, 3 direction flips, fairness | task pointers, watchers and `write_pending` agree; flips lose no hang-up; a response is written as long as the peer gives, again and again, what its write waits for |
| `server_tls_stall` | 1 TLS connection, fairness | **violation**: a complete request waits for more bytes |
| `websocket` | client sends 1 message, server 2, of 2 chunks, socket of 3, 1 missed pong, fairness | messages arrive once, in order, however the stream is cut; the heartbeat ends only silent sessions; a lost peer is noticed; what was sent arrives or the session ends |
| `migrate` | 2 processes, 7 command lines, 4 directories, 4 sets of manifests, 1 edit, 1 crash | ledger and database agree; a successful up is complete; a failure stops the run; what `generate` writes settles its manifests |
| `http` | about 2000 exchanges, limits of a few symbols | a message is complete exactly at its last symbol or an error, however it is cut; the target is decoded once; nothing runs after a failed step, and the client gets the error status that the response has, or 500; a callback gets the response to its own request |
| `sqlite_store` | 3 threads, 2 connections, file and in-memory database, failing statements and connections | connections are exclusive and none is lost; the pool implements `EntityStore` |
| `repository` | 6 entities over 3 keys, queries of up to 2 clauses; 6204 documents, 3 keys, 3 data | SQL and JSON backends agree; translated queries return what the reference could; the key-value document means what it was given |

Why these bounds are enough to be interesting.

* Runtime: three tasks allow one to run, one to be cancelled by it and one to move
  by swap-removal; two descriptors give two events in one batch, so that a table
  changes between them; depth 3 is a run callback that cancels a task whose cleanup
  cancels or replaces another.
* Timers: six entries give three levels and removals whose replacement has to move
  up as well as down; capacity 3 makes the array grow. Modulo 4, delays of 0 and 3
  are the interval that does not advance and the sum that wraps. The constraint
  `SmallOnceTimePasses` keeps at most three timers once the clock has moved: the
  order of the heap does not depend on the clock, and the properties of an update
  need two due timers and a later one.
* Pools: four threads over two slots make two wait at once, or one wait while
  another takes the slot that was released for it; later calls meet the handles
  that earlier ones left broken. Three threads over two connections do the same for
  SQLite, and one key with two values makes every pair of calls conflict.
* Connections: a request and a response of two chunks can arrive and leave in
  parts; as many chunks from the peer as the buffer takes reach its limit in one
  read or after several; three flips allow one in the handshake, one while reading
  and one while writing. The kernel's buffer holds one chunk, so that a response
of two cannot be written at once and the peer's reading matters. The connections of a server share only its lists and its
  shutdown, so two suffice.
* WebSocket: a socket of three chunks is smaller than two frames, so that every
  write and every read may end in a header or a payload, and the second message of
  the server overtakes nothing only if the rest of the first is kept.
* Migrate: two processes and one edit give every race between planning and applying;
  the directories hold a late file, a broken file and a file that is no migration.
* HTTP: the limits are a few symbols, so that what is below, at and above each is in
  the set: lines, fields and trailers, their numbers and sizes, bodies, chunks and
  chunk lines, methods, targets, segments of paths and of routes, and parts of a
  query; a route has more parameters than a request keeps. The steps of a pipeline fail
  or succeed, with an error status, another or none. Two fields give every pair of framings; targets of up to three symbols
  after the slash give every order of an escape, a dot and a separator.
* Repository: names share prefixes, differ in case and contain the special bytes of
  GLOB, LIKE and the escape itself; two entities may have the same name, so that a
  sort has ties. Documents are all texts of up to three symbols and the longer ones
  for escapes, surrogates, number forms and bounds, nesting at and beyond the
  limit, duplicate keys and byte order marks. Two buckets make three keys collide
  and grow the table twice.

The two halves of `repository` share nothing, so `MCRepository` explores each while
the other is in its initial state.

`migrate` and `websocket` do not check deadlock: processes end and sessions end.

Fairness. `runtime_live` assumes that callbacks return (they are ordinary
functions; strong fairness, because a callback may make any finite number of
calls first), that a tick which began continues, and that `bb_runtime_run`
keeps ticking; it assumes nothing of the program. `pg_pool` assumes that threads
are scheduled and that the server answers, with success or failure. The server's
and the WebSocket's runs assume that the read task and the write task run when they
are watched and ready: the poller is level-triggered, and `QueuedTaskGetsTurn` of
`Runtime` says that a woken task gets its turn. `websocket` assumes also that the
heartbeat's timer fires, which `NothingDueAfterUpdate` says of the timers, and
that the server gets to its answer. Ready is what the poller reports: nothing is
assumed of a peer, which may stay silent and need not read. The server has no
write timeout, so a peer that stops reading and stays connected holds its response
for ever; `ResponseIsWritten` says that a response is written if the peer, again
and again, gives what the write waits for, room in the buffer or a record, or hangs
up (`WriteCanGoOn`). `sqlite_store`, `migrate`, `http` and `repository` check safety only: the
loop that waits for a SQLite connection has no fairness to rely on.

### The violation

`server_tls_stall`: after a direction flip `_bb_read_task` returns without a
read step (`async_connection.c:361`). When the same call had read the end of
the request, nothing is left to wake the task: the peer waits for its response
until it sends more or hangs up. `RequestGetsAnswer` is therefore checked on
plain TCP, where it holds.

## 4. Proofs

| Theorem | Statement | Argument |
|---|---|---|
| `RuntimeProofs!TypeCorrect` | `Spec => []TypeOK` | one lemma per group of actions; `SwapRemoveProperties` gives the type of swap-removal |
| `RuntimeProofs!ScheduledOnceAlways` | `Spec => []ScheduledOnce` | inductive invariant `QueueInv`: `TypeOK`, `ScheduledOnce` and `RefersToAllocated`. The last part is needed because a new task gets fresh flags: it must not be queued already |
| `RuntimeProofs!NoWatcherSkippedAlways` | `Spec => NoWatcherSkipped`, without failing allocations | `DispatchInv`: of the watchers that match the event in hand, those the index has passed are persistent and queued; swap-removal puts an entry that is still ahead under the index, and the index stays |
| `RuntimeProofs!MemoryInvariant` | `Spec => []MemInv`, with `~ ReentrantUnwatch` | see below |
| `RuntimeProofs!NoUseAfterFreeAlways` | `Spec => []NoUseAfterFree`, likewise | follows from `MemInv` |
| `RuntimeProofs!LifecycleImplemented` | `Spec => KeepsLifecycle`, likewise, the refinement | under `MemInv` every step maps to a step of `TaskLifecycle` for one task and leaves the others alone |
| `RuntimeProofs!LeakInvariant`, `NoLeakAlways` | `Spec => [](NoLeak /\ AllFreed)`, also without failing allocations | `LeakInv`, inductive with `MemInv`: a live task is found again through the queue, a watcher, a timer or a call, and during the shutdown the entries that a loop has passed have none |
| `RuntimeProofs!PollerMatchesAlways` | `Spec => []PollerMatchesWatchers`, likewise, for masks that are equal or disjoint | `PollInv`: the watchers of a descriptor have different masks; a descriptor and the poller agree unless a call of `bb_runtime_unwatch_fd` is at work on it, and `UnwatchInv` says what that call has unregistered so far |
| `TimerHeapProofs!HeapOrderAlways` | `Spec => [](TypeOK /\ HeapOrder)` | `HeapOrder` is inductive as stated: which pairs may be out of order during a sift, and that the entries around the hole are ordered across it |
| `TimerHeapProofs!FiresOnceAlways`, `RemoveFindsAlways` | `Spec => FiresOncePerUpdate`, `Spec => RemoveFindsTask` | inductive invariant `TimersInv`: a task has one timer; what this update has fired is due after the time it has read; the entries that a removal has scanned are not the task's. Every step but an insertion is a rearrangement of the entries that may drop one |
| `TimerHeapProofs!NothingDueAlways`, `NeverOversleepsAlways` | `Spec => NothingDueAfterUpdate`, `Spec => NeverOversleeps` | `RootIsEarliest`: an entry earlier than the root with the least index would have an earlier parent |
| `PgPoolProofs!ExclusiveSlotsAlways` | `Spec => []ExclusiveSlots` | inductive invariant `PoolInv` |
| `PgPoolProofs!PoolSafe` | `Spec => [](UsesConnection /\ CreationSerialised)` | the same invariant; a thread in "create" has a table, so that remembering it keeps `remembered` inside `created` |
| `ServerConnectionProofs!PhasesAlways` | `Spec => []PhaseInv`, without failing allocations | `PhaseInv` is inductive: one lemma per handler says from which phase to which it leads; the invariants alone are not inductive, because they do not say what a hook or a watcher means in the other phases |
| `ServerConnectionProofs!ReleasedOnce` | `Spec => [](TypeOK /\ NoSecondCleanup /\ HookWhileReading)`, likewise | follows from `PhaseInv` |
| `ServerConnectionProofs!OwnedByOne` | `Spec => []OneOwner`, likewise | follows from `PhaseInv`, which says of each phase which list holds the connection |
| `ServerConnectionProofs!DrivenByOneTask` | `Spec => [](TasksMatchWatchers /\ AlwaysDriven)`, likewise | follows from `PhaseInv` |
| `ServerConnectionProofs!ResponseCompleteAlways` | `Spec => ResponseComplete`, likewise | `CountInv`, inductive with `PhaseInv`: of a response, what is queued and what is written add up to its length, before there is one neither is anything, and while it is written only a peer that hung up closes the connection |
| `WebSocketSessionProofs!SessionInvariant` | `Spec => []SessionInv` | see below |
| `WebSocketSessionProofs!MessagesInOrderAlways` | `Spec => []MessagesInOrder` | a part of the invariant, `Received` |
| `WebSocketSessionProofs!KillsOnlySilentAlways` | `Spec => KillsOnlySilent` | `Silent`, a part of the invariant: the missed pongs are fewer than the ticks since the last frame while a pong is awaited |
| `MigrateProofs!AppliedOnceAlways` | `Spec => []AppliedOnce` | inductive invariant `IInv`: the lock is held by the process in its transaction, and the transaction's ledger is the ledger plus what it has executed |
| `MigrateProofs!UpToDateAlways` | `Spec => []UpToDate` | `PlanKept`: what a process does not have in its plan any more is in the ledger; the ledger only grows |
| `MigrateProofs!NothingSkippedAlways` | `Spec => NothingSkipped` | `FilesInv`: versions are numbers and the versions of a plan differ; with `PlanKept`, the least of what is left is the next one |
| `MigrateProofs!GeneratedReconcilesAlways` | `Spec => []GeneratedReconciles` | inductive invariant `SqlInv`, with the two before: what a generating process has at hand settles its manifests; see below |
| `SqliteStoreProofs!ConnectionsExclusive` | `Spec => []ExclusiveConnections` | inductive invariant `StoreInv`: exclusiveness, that a private database has one connection, and what the place of a thread says of its call, its connection and its results |
| `SqliteStoreProofs!StoreImplements` | `Spec => ImplementsStore`, the refinement | under `StoreInv` every step maps to a step of `EntityStore` or leaves `Table` and `Settled` alone: a change takes effect at the statement, its answer is settled there too, because `sqlite3_changes` is asked of a connection that nobody else has |
| `RepositoryProofs!BackendsAgreeAlways` | `Spec => []BackendsAgree` | inductive invariant `Mirror`; see below |
| `RepositoryProofs!QueriesAgreeAlways` | `Spec => []QueriesAgree` | `Mirror` and `IsQuery`, what the builder makes; that `QueriesAgree` follows from them is a fact about the operators of `Query`, see below |

The runtime's memory. `NoUseAfterFree` says nothing about why a task may be freed,
so `MemInv` adds it to `QueueInv`. `StackInv` gives the shape of the stack of
callbacks in each phase of the tick and of the shutdown: which frame may lie on
which, and that a task has one frame that destroys it. `TableInv` gives each task at
most one owner, a watcher or a timer, and says what an owner or a frame may rely on:
the flags of an owned task, when a queued task is kept for its owner and when it is
freed after its run, and that a task which is being destroyed is in no table, no
queue and no other frame. Each public operation and each internal step then has a
lemma for each part it can disturb. The refinement and the other invariants of the
runtime use `MemInv` as a fact.

The WebSocket's stream. `SessionInv` is `Whole(World)`, and its parts are stated of
any world, because one read step runs a loop whose bodies are steps of their own:
`Roles` says which phases the two sides go through and that the server says nothing
before it has been asked, `Lives` relates a side's descriptor, tasks and session,
`Received` is `MessagesInOrder`, `Flow` says that the frames on their way to an open
side continue what its handler has got, in order and with no message behind a close
frame, and `Sound` that a connection which reports its end has a peer that hung up,
and that an open side has not sent a close frame to an open peer. A handler is shown
to be a turn of its side (`Turns`): it changes its own side and appends to the
stream of the other. Inside the loop the stream of the side that reads is already
taken, and `LoopInv` says how much of it the handler has got. The client drops what
follows the answer in its buffer; that loses no message because the server sends
only in reply.

The generated migration. The code executes what it has generated on the scratch
database and lets `bb_migrate_spec_diff` compare the tables with the manifests, which
looks columns up by name and knows a handful of differences. `NoDifference` says that
this is enough: it finds none only between tables with the same columns - if the
columns of a table have different names, which `RunSqlSchema` shows of everything
SQL accepts. `AlterSql` and `SectionsSql` say that what is generated is well-formed.
`SqlInv` carries the result of the check through the steps of the process: until the
write it has a text that, executed after the files it has read, leaves every
selected manifest settled (`Settles`); the version that it chose then is above all of
theirs, so that the new file is executed last (`InOrderLast`, `ReplayLast`), and nothing
that others do to the directory changes what the process has read.

The two backends. `BackendsAgree` follows from `Mirror`: the objects of the file are
the images of the rows under `ToJson`, and an id occurs once in both. The sequence
and the set are compared through `ThoseElements`, `DropAtProperties` and
`AppendElements`, which say which elements a filter, a removal and an addition leave.

The three pattern languages. `Meaning(pattern, 1)` is what a LIKE pattern stands for
as tokens, one for each byte: a run, or that byte. `GlobMeaning` and `LikeMeaning`
show that SQLite, reading what `like_pattern_to_glob` makes of a pattern, and
PostgreSQL, reading what `escape_like_pattern` makes of it, find these tokens;
`PiecesRead` says how a text made of pieces is read piece by piece.
`TokensLikeMatch` shows that a text matches the tokens just when `bb_like_match`
accepts it, which skips percent signs and returns early at the end of a pattern. So
the WHERE clauses keep the rows that `bb_query_matches` keeps (`HoldsAgree`), for
every pattern and text, and the pages cut out the same places (`PagesAgree`). A query
has an answer because `SortCompare` is a total preorder (`SortIsOrder`: each key's
comparison is one, ascending or descending, and the first that differs decides), so
that rows can be sorted (`SortedExists`). The answer is one of the reference's: with
sort keys for any listing of the table, without them for the listing that begins
with the rows of the answer (`ListingContinued`, `ThosePrefix`).

The theorems hold for every value of the constants that satisfies the named
assumptions (`RuntimeAssumption`, `TimerAssumption`, `PoolAssumption`,
`ConnectionAssumption`, `ServerAssumption`, `SessionAssumption`, `MigrateAssumption`,
`FilesAssumption`, `ContentsAssumption`, `CommandsAssumption`, `ManifestsAssumption`,
`StoreAssumption`, `NoneAssumption`, `QueryAssumption`, `EntitiesAssumption`,
`QueriesAssumption`) and of these hypotheses:

* `TypeCorrect`, `ScheduledOnceAlways` and the theorems about the WebSocket need
  none: they hold with failing allocations, and the runtime's with re-entrant
  cleanups.
* `~ ReentrantUnwatch`: no cleanup that `bb_runtime_unwatch_fd` runs calls the
  runtime. Without it `NoUseAfterFree` is false (section 5).
* `~ AllocMayFail`: no allocation fails. Without it the server's theorems, `NoLeak`,
  `NoWatcherSkipped` and `PollerMatchesWatchers` are false: the read task that
  cannot be created and the task whose list node cannot be allocated (section 5), a
  watcher that an event matches and whose task cannot be queued, a registration that
  the poller refuses.
* `MasksApart`: two masks are equal or disjoint, as the async connections use them,
  which watch for READ or for WRITE.

Facts about recursively defined values are proved without induction over data, by a
least counterexample: `LeastNumber` and `GreatestNumber` say that a set of numbers has
a least element and a bounded one a greatest. So are proved that the recursive
functions `Ends`, `LoopStates`, `RunSql` and `Replay`, the tokens and the matchers of
`Query` (`BackwardRecursion`) and the folds of `FlattenSeq`
exist and what they contain, `RootIsEarliest`, the place of every file in the order
of versions, and what the least pending version is.

Only model-checked: all liveness properties, and the modules with recursive operators
(`HttpParser`, `Json` and those over them), which are outside what the prover can use.

## 5. Known divergences

What the models made visible beside the checked properties. The models take the
code's side; where a property would be false, its instance or its statement is
restricted as said here.

Runtime and connections:

* Watchers of one descriptor whose masks overlap: removing one unregisters bits the
  other still needs (`runtime.c:167`, `:232`; `src/docs/runtime/overview.md:360`).
  `PollerMatchesWatchers` is checked for masks that are equal or disjoint, as the
  async connections use them.
* `bb_runtime_unwatch_fd` keeps an index across the cleanup callback
  (`runtime.c:528`): with cleanups that use the runtime a task is leaked
  (`ReentrantUnwatch = TRUE`, `NoLeak`). When the cleanup cancels the task of
  another watcher, the entry that is then dropped may be that of a third: its task,
  queued, is freed after its run while its watcher remains (`NoUseAfterFree`;
  `KeepsLifecycle` holds, each task being freed once). `bb_runtime_cancel_task`
  searches afterwards. A task whose list node cannot be allocated is leaked too.
* `_server_create_read_task` installs the disconnect hook, and when the read task
  cannot be created frees the hook's data and leaves the hook (`server.c:516`,
  `:137`; `AllocMayFail = TRUE`, `NoSecondCleanup`).
* The server has no write timeout: a response to a peer that stays connected and does
  not read keeps its connection (`server.c:243`).
* A failed pre-middleware is answered (`server.c:303`), although
  `src/docs/web/metrics.md:49` says that the connection is closed without a response.

HTTP:

* The async client's callback is never called when the connection ends before the
  response is complete. A reset or a second call during a call drops the first
  callback. A callback that starts another call has its new connection closed
  afterwards (`client.c:252`); the models' callbacks make no calls.
* `execute_async` without a reset can deliver the response to the request before.
* A response that ends with its connection is read as an empty body. After
  "chunked", a second and empty Transfer-Encoding field is accepted. Header names
  are compared with their case in `bb_message_*`.
* When a step fails, the status of the response decides, whichever step chose it: a
  handler that sets 404 and succeeds gives 404 also when a later middleware fails
  without a status (`server.c:276`), where the comment at `server.c:269` and
  `src/docs/web/middleware.md:28` speak of the failing step's own choice.
* A route that is too deep for the router, or has too long a segment, is refused when
  it is added; a request with such a path gets 404.
* The length of a form body is that of the raw body after decoding
  (`server_request.c:334`). WebSocket routes skip the middlewares. A malformed
  request gets no response.

WebSocket:

* The client does not look at the status of the answer to its handshake: any complete
  response, a 404 for instance, opens the session (`websocket.c:163`-`:212`).
* The connect callback is not called when the peer hangs up in the handshake
  (`websocket.c:255`; `src/docs/web/websockets.md:96`). Frames that arrive in one
  read with the 101 are dropped.
* A write task of a server's session that ends the session frees it and uses it
  afterwards, and a handler that calls `send_close` does so in the read step;
  `fault` records it, and the properties end there.
* Without heartbeat or incoming frames the rest of a partial send is not written;
  `MessagesArrive` is checked with a heartbeat. After the end of the stream sends
  are queued for nobody.

Migration tool:

* The plan is made before the lock (`runner.c:123`): a file merged late may be
  applied out of order without the flag that `src/docs/tools/migrate.md:224` asks
  for. Two `generate` with different names may take one version; testing for a file
  and writing it are two steps, and a reader may see the new file while it is
  empty. `UpToDate` is about the files as they were read.
* SQL that contains COMMIT ends the runner's transaction; the next version after
  INT64_MAX overflows. Neither is in the models.

Persistence:

* SQLite casts limit and offset to int: 2^32 becomes LIMIT 0
  (`src/docs/persist/query.md:70`); `QueriesAgree` is checked below the cast.
* A read of several rows that fails on the way returns 0 and a part of the rows
  (`EntityStore` is as weak as that).
* The JSON backend locks nothing, and a file that cannot be read is taken as empty:
  the next save loses the rest. `bb_json_dump` truncates before it serialises and
  does not check its write. Updates move the row to the end; BLOBs are not stored;
  an update of a schema with only a key fails in SQL and succeeds in JSON.
* `bb_repo_filter` leaks SQLite's buffer when nothing matched (`repo.c:35`).
* Key-value: saving into a document whose root is no object returns 0 and saves
  nothing; removing from a document that cannot be read truncates it; removing a
  key that is not there returns 0, 1 or 0 for JSON, file and SQLite. A member that
  is no text is copied from NULL by `json_load`, whose model is about texts;
  `file_load` writes its NUL one past a buffer of exactly the datum's size. JSON data
  end at the first NUL.

## 6. Not modelled, and what could follow

The poller backends are the kernel interface: their contract is the action
`PollerWait`, and the fairness cursor of epoll and poll would be a module of its
own. The transport is OpenSSL and the operating system; its results are inputs.
Cryptography, passwords and random numbers are a matter of values. Metrics,
logging and errors are output: no decision depends on them. The schema and model
registries are filled once at start-up and are constants. The code generator and
the template engine map text to text. Session storage is a table with expiry and
without concurrency. Cloning, merging and comparing JSON values are left out of
`Json`. `PROJECT.json` gives the reason for each.

What could follow: the parser and the pipeline restated with recursive functions, for
proofs of the invariants of `http`; the runtime's theorems for cleanups that use the
runtime, with a `bb_runtime_unwatch_fd` that searches again; listening and outgoing
sockets with the spare descriptor; the session store and templates.
