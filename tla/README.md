# Verification of vldb-controller

TLA+ models of the VulcanLocalDB controller, the TLC configurations that check
them, and theorems about them checked by TLAPS. The source of every definition
is the Rust and Go code of this repository; `PROJECT.json` maps each definition
to the lines it models.

## 1. The system and its parts

The controller is one process per machine that owns SQLite and LanceDB
databases on behalf of several host processes. Hosts talk gRPC to it through a
Rust SDK (`client/`), a Go SDK (`client-go/`) or a C ABI on top of the Rust SDK
(`ffi/`).

| Part | State it keeps | Operations | Interacts with |
|---|---|---|---|
| Session and lease registry (`controller/src/core/runtime.rs`) | `clients`: lease expiry, attached spaces, owned binding keys; `inflight_requests`, `last_request_at` | register, renew, unregister, begin/end of a request, pruning | everything below: the end of a session releases all it owns |
| Runtime spaces (same file) | `spaces`: registration, attached clients, bindings | attach, detach, list | sessions (both directions of an attachment are stored) |
| Bindings and backend pool (same file) | `sqlite_bindings`, `lancedb_bindings` per space; per database the pooled backend, its configuration key and the set of its bindings | enable, disable, look-up for a call | `sqlite.rs`, `lancedb.rs`: backends are opened under the lock and used outside it |
| Query streams (same file and `core/sqlite.rs`) | `sqlite_query_streams`; per stream a handle with chunk descriptors, error and completion | open, read, wait, close, reap | one producer thread per stream |
| gRPC service (`server.rs`) | none of its own | one handler per RPC: request guard, blocking task, conversion | the registry |
| Maintenance loop, managed shutdown (`server.rs`, `main.rs`) | a shutdown channel | every second: reap sessions, reap streams, decide to stop | the registry, the draining server |
| Rust SDK (`client/src/client.rs`) | session id, replay flag, desired spaces and bindings, renew task, start-up lock file | connect, every operation, renew, recover and replay, shutdown, spawn | the gRPC service |
| Go SDK (`client-go/controller/client.go`) | the same, without the lock file | the same | the gRPC service |
| FFI (`ffi/src/lib.rs`) | registry of client handles | create, use, free | the Rust SDK |
| Configuration (`cli.rs`), types, generated protocol, scripts | constants | parsing | - |

What makes this code hard: all registry state sits behind one mutex, but many
operations are more than one critical section (a call clones a backend and works
on it after the lock is released; opening and closing a stream take the lock
twice); sessions end at any point because their lease is over, from whichever
request comes in next; five indexes describe the same ownership; the pool is
kept exact by a hand-written reverse index; and the hosts recover from lost
sessions by replaying what they remember.

What makes each part correct:

* registry: a session that has ended never comes back; everything it held is
  given back when it ends and nothing of anybody else's is;
* spaces: both directions of an attachment agree; a space exists while somebody
  is attached; nobody leaves a space in which it still owns a binding;
* bindings: nobody but the owner replaces or removes a binding; bindings of one
  database share one backend; the pool holds exactly the backends in use;
* streams: a stream disappears only for a reason its reader can know of, and
  does not outlive its owner for ever;
* maintenance and shutdown: what vanished hosts leave behind is reclaimed, and a
  managed controller stops when, and only when, nobody needs it;
* SDKs: after a loss the session, and with it the desired state, comes back; an
  operation uses a session that exists.

The hazards, each at its line, are in `PROJECT.json` under `hazards`.

## 2. Modules

| Module | What it is |
|---|---|
| `ControllerRuntime` | the registry: sessions, spaces, bindings, pool, streams, blocking calls, producer threads |
| `SessionRegistry` | the abstract specification of ownership that `ControllerRuntime` implements |
| `MCControllerRuntime` | symmetry for the TLC instances of `ControllerRuntime` |
| `ControllerRuntimeProofs` | the inductive invariant of `ControllerRuntime` and the invariants it implies |
| `ControllerRuntimeStepProofs` | what a step of `ControllerRuntime` may never do, and that it implements `SessionRegistry` |
| `ManagedController` | the process around the registry: handlers, maintenance loop, shutdown; EXTENDS `ControllerRuntime` |
| `MCManagedController` | symmetry for the TLC instances of `ManagedController` |
| `ManagedControllerProofs` | the process runs the registry, counts its handlers, decides well, and what can still come after the decision |
| `QueryStream` | the inside of one query stream: producer, spool file, readers |
| `ChunkedResult` | the abstract specification of a query stream that `QueryStream` implements: an output handed out while it grows, and a verdict |
| `QueryStreamProofs` | the inductive invariant of `QueryStream`, what follows from it, and that it implements `ChunkedResult` |
| `ClientSession` | one client of the Rust SDK: its tasks, its renew task, its cache, over `SessionRegistry` |
| `ClientSessionProofs` | the inductive invariant of `ClientSession`, what follows from it, and that the client uses the registry as it may |
| `StartupLock` | several hosts, of both SDKs, that start one controller around a lock file |
| `StartupLockProofs` | the inductive invariant of `StartupLock` and what the lock file does guarantee |
| `GoClient` | one client of the Go SDK: its goroutines, its renewer, its connections, over `SessionRegistry` |
| `MCGoClient` | symmetry for the TLC instance of `GoClient` |
| `GoClientProofs` | the inductive invariant of `GoClient` and what follows from it |
| `FfiOperations` | the operations of the C ABI and what their results are made of: one pair of operators per result type |
| `FfiClient` | client handles of the C ABI: registry, locks, streams, results, threads of one host; EXTENDS `FfiOperations` |
| `FfiClientProofs` | the inductive invariant of `FfiClient` and what follows from it |

`ManagedController` composes the registry with the service around it: its actions
are actions of `ControllerRuntime` taken by a handler, the loop or the clock.
`QueryStream` opens up what `ControllerRuntime` sees of a stream as two facts,
`complete` (here `inner.complete`) and the producer that holds a backend (here
`writer.pc # "gone"`); the registry's reference to the handle is `registered`. In
`ChunkedResult`, which `QueryStream` implements, they are `verdict`, `producing` and
`listed`: the producer lets go of its backend only when the verdict is out, which is why
`ControllerRuntime` has a stream complete before its worker is gone.
`ClientSession` composes a client with the abstract registry (`Server`, an instance
of `SessionRegistry`), which `ControllerRuntime` is proved to implement; so does
`GoClient`, with the same abstract registry and a client that keeps its promise
differently. `StartupLock` is what both assume when they connect: that a controller is
there. `FfiClient` is on top of the Rust client, of which it keeps whether a session is
live and who still renews it.

### ControllerRuntime

The code keeps its state in one `ControllerState` behind one mutex. The model
keeps it in one variable, `state`, a record whose fields carry the names of the
code's fields. Every `*_locked` helper of the code is an operator on such a
record, and every action is one critical section. Two variables hold what lives
outside the mutex:

* `tasks[t]` is a blocking task between its two critical sections, or with a
  backend it has cloned: a data-plane call, a stream being opened, a stream being
  closed;
* `workers[id]` is the backend the producer thread of stream `id` still holds.

Correspondence, where it is not name for name:

* `client.owned_sqlite_binding_keys` and `owned_lancedb_binding_keys`, and the
  two maps of every space, are one function each, over keys that carry the kind
  (`BindingKey`). The SQLite and LanceDB helpers are line-by-line copies of each
  other in the code.
* Time is the order of events. A session is `"live"` until `LeaseLapses`
  (the clock passes `expires_at`), and `"lapsed"` until something prunes or renews
  it. A stream is `stale` when five minutes have passed since it was last used or
  completed, `recent_request` says that the idle window is still open.
* `lease`, label, kind, root and process data of a registration are not kept,
  except that two registrations of a space differ or not (`Identity`).
* `resource_configs` is the code's pair of maps from database to configuration
  key; `LockingConfig` are the SQLite configurations with `enforce_db_file_lock`.
* `Handle` is the identity of a backend object. `LiveBackends` are the objects
  somebody still holds a clone of; the file lock of vldb-sqlite lives as long as
  the object (`FileLocked`, external, modelled from how `sqlite.rs` opens a
  database).
* A request that is refused and changes nothing is not a step, one that is
  refused after it pruned expired sessions is (`AttachSpace`, `DetachSpace`).
* Session identifiers are random and never reused: registering takes an unused
  one.

`Enable` gets its backend from `BackendForEnable`: a set with the pooled backend,
or the backends that could be opened, or nothing when the enable is refused
because the configuration differs or the file is locked.

### SessionRegistry

The promise to the hosts, without the books: sessions are alive or past, join
spaces, claim slots in spaces they have joined, leave only without slots, and
lose everything at once when they end. Because any request of the controller may
first prune, its operations take a set of sessions that end in the same step.
`ControllerRuntime` instantiates it (`Registry`) with `alive`, `past`, `joined`
and `owner` computed from `state`, and checks `Registry!Spec` as a property.

### ManagedController

One request slot per task identifier holds a gRPC request from its guard
(`Accept`, `begin_request` or `begin_diagnostic_request`) to its answer
(`Finish`, which drops the guard). In between a handler does one of three things,
as the handlers of `server.rs` do: one operation of the registry (`Operate`); a
call inside the handler, between two critical sections (`BeginInline`,
`EndInline`: LanceDB calls and the opening of a stream); or a closure handed to
the blocking pool (`Submit`, `StartBlocking`, `EndBlocking`: all SQLite data-plane
calls, and reading, waiting for and closing a stream). `Cancel` is a client that
goes away: the handler's future is dropped at its await, its guard with it, and
the closure runs on. A dropped LanceDB handler needs no action of its own: the
call's future goes first and gives its backend back (`EndInline`), then the guard
goes (`Finish`), which is how an answered one ends. Opening a stream does not await.

`loop` is the position in the body of `run_runtime_maintenance_loop`; `Decide` is
`should_shutdown`, which prunes and looks in one critical section. The signal to
the server is a step of its own (`ShutdownSignal`), because it travels through a
channel and another task. `Exit` waits for the handlers, as the draining server
does, and for the closures that run, as the end of the async runtime does;
closures that still wait for a thread are lost. `CtrlC` is the other way to stop.
A controller in service mode has `Managed = FALSE`.

Three abstractions. `cli.rs` requires the idle timeout to be at least the minimum
uptime, so the minimum uptime has passed whenever the idle window has
(`recent_request` is FALSE), and has no variable. A request in the window between
the decision and the end of accepting is accepted as before the decision.
`StreamIdLeft` keeps an open from starting when the bound `MaxStreams` leaves no
identifier for it.

### QueryStream

`inner` is what the handle's mutex protects, `writer` the thread-local spool
writer with its program counter, `spool` the file, `sleeping` the threads in the
condition variable. The output of a query is a run of bytes, of which only the
number counts: the byte at offset n of the file is byte n of the output as long as
chunks are appended one behind the other, which is `ChunksTile`. A chunk of
`write_chunk` takes two steps, the write to the file and the registration, because
readers see the state in between. `finish` and `fail` are one critical section
each. A reader holds the mutex from its look at the state to its sleep, so
`FindChunk`, `MissChunk`, `WaitForMetrics` and `Sleep` are alternatives of one
step; it opens and reads the file (`ReadSpool`) after the unlock. `Referenced`
counts the clones of the `Arc`: the registry's, the producer's and one per request;
every step that gives one up removes the file if it was the last (`DropStream`,
the code's `Drop`). Chunks are numbered from 1, and the wish 0 is
`wait_for_metrics`. That the external `sqlite_query_stream_with_writer` flushes its
writer before it reports success is taken from how its result is used.

### ChunkedResult

What a host that reads a stream may rely on, without threads, wait set and file: the
chunks so far (`Extend`), a verdict that is given once (`Succeed`, `GiveUp`), a stream that
is listed until it is closed (`Close`), and readers who ask and are answered. A reader who
asked before the close is served after it. Every answer is right when it is given (a
chunk that is there, a refusal only after success and beyond the last chunk, totals that
are those of the chunks) and stays right, since chunks and verdict are final.
`QueryStream` instantiates it (`Result`) with what `inner`, `writer`, `registered` and
`readers` show, and checks `Result!Spec` as the property `ImplementsResult`.

### ClientSession

`cache` is `ClientSessionState`; its three maps are one set `desired` of spaces and
binding keys, for SQLite and LanceDB bindings are treated alike. `initLock` is
`session_init_lock`, an async mutex that is held across awaits, `renewing` says that
the renew task exists. `threads[t]` is where task t is: inside
`ensure_registered_session` (`TakeLock` to `Renewed` or `ReplayDone`), between that
and its own request (`"ready"`), between request and answer (`"sent"`, `"served"`), or
in `shutdown`. A step ends at an await, or where the cache mutex is released and
another thread may come in; storing the new identifier, marking the replay pending
and copying the desired state are one step (`Adopt`), since a task that remembers or
forgets between these sections only lands in the copy, or does not.

Which operation a task is about to ask for is chosen when it asks (`Send`), because
`ensure_registered_session` does the same for all of them. `list_clients` and
`list_spaces` are `DataOperation`s: they ask for a session before they take the lock,
so they do less than the model lets them. A request reaches the
controller and is answered in two steps (`Serve`, `Return`); one that is refused
changes nothing (`Refused`). `Fail` is a request or reply that is lost, a controller
out of reach, or a future the host drops, at any await; after `Serve` and `Register`
that means the controller has acted and the client does not know. `Shutdown` aborts the
renew task wherever it is, and the lock goes with it. `SessionsLost` ends any sessions,
as a restart or an expired lease does. `Strays` are sessions no task knows any more:
nobody renews them, so their leases run out (`StrayLapses`). The start-up of the
controller (`ensure_ready`) is `StartupLock`.

### StartupLock

`pc` is where every host is in `ensure_ready` and `try_acquire_startup_guard`. One
variable, `creator`, is the lock file: who made the file that is at the path, `Ghost`
when its maker has crashed, `Nil` when there is none; the path is one for all names of
a local port (`startup_coordination_key`). `guards` are the hosts that own a
`StartupSpawnGuard`, which is not the same thing: `remove_file` removes what is at the
path, whoever made it, and that is what `DropGuard` and `RemoveStale` do. Looking at the
age of the file (`JudgeLock`) and removing it (`RemoveStale`) are two steps, as they are
two system calls; the loop of `try_acquire_startup_guard` is left after its second turn
(`retrying`). A Go host (`GoHost`) goes from its probe to spawning, without the lock.

There is no clock. `Expire` is the deadline of a call, `Age` says that the file has grown
too old for one host. `startup_lock_is_stale` waits twice the judge's own
`startup_timeout_secs`, at least 30 seconds, and a holder gives up after its own, so a
file grows stale under a holder only for a host whose time is half of the holder's or
less (`Hasty`). `starting` are controller processes that have not bound the port; the
second one to bind fails and ends (`Bind`), and one whose flags are refused ends before
it binds (`FailToStart`). `remove_file` of a stale file is taken to succeed. `disturbed`
is a history variable: a crash, a host that spawned without the lock, a lock removed
under its holder, or a holder that let go while the controller it had spawned was still
starting.

### GoClient

`client` are the fields the mutex of `Client` protects (`rpc` stands for `conn` too, and
`desired` for the three maps), `link` is the state of every connection, and `threads[t]`
says where goroutine t is in `Connect` and `withSession`. The mutex is never held over a
request, so every critical section is a step and so is every request; what a goroutine
has copied out (`rpc`, `session`, the copy of the desired state) is in its record.

What differs from the Rust client, and is modelled as it is. The identifier is stored
(`StoreSession`) before the replay (`CopyDesired`, `Replay`), and a replay that is
refused or fails is over: `ensureRegistered` finds an identifier the next time. A loss is
noticed from the error of an operation only (`Recover`), once per operation, and only
errors of `isRecoverable` count; `Connect` itself is not tried again. `resetConnection`
closes the connection under the requests of the other goroutines, which get `Canceled`
and give up (`GiveUp`). The renewer renews what is stored and ignores the answer
(`Renewed`). A request on a `nil` interface ends the process of the host (`Panic`).
`DetachSpace` forgets the space, not its bindings. A space that no session has joined is
answered FALSE, even to a session the controller does not know (`NothingToRelease`), and
is then forgotten as well.

A connection is open, broken or closed. `Restart` ends all sessions and breaks the open
connections, or does not: grpc-go connects again by itself (`Reconnect`, external), and a
request made after that goes through to a controller that does not know the session.
`disturbed` is a history variable: a request of the recovery failed, goroutines met
between critical sections, or a session was used that had gone unnoticed.

### FfiOperations and FfiClient

`FfiOperations` has one operator for every mapping of a result into memory the host
frees (`Map...`) and one for every free function (`Free...`). Both are bags of blocks, a
block being named by the field that points to it: what the free function visits twice
counts twice. `Shapes` is what a result can look like: its optional parts, a list of up to
`MaxItems` elements, and the buffers that have spare capacity. The `map_*_array` functions
and `bytes_into_raw` hand out the pointer and the length of a Vec and forget its capacity
(`MappedCapacity`: the length, or more for the places in `spare`); the free functions
rebuild it with `Vec::from_raw_parts(ptr, len, len)` (`FreedCapacity`: the length).
Strings are `CString`s and results are boxes, which have no spare capacity, and an empty
Vec has no buffer. `Operation` has the operations, with their native and their JSON form,
and whether they go through `connect_client`.

In `FfiClient` a handle is an address: `where[c]` is the address client c got when it was
created, `registry[a]` the client the global registry has for address a, `shell[a]` the
boxed shell that is allocated there. `inner[c]` is the `Option` in the client's mutex,
`lock[c]` the mutex. Threads look up (`Lookup`: under the registry's mutex, which clones
the `Arc`), enter (`Enter`: the client's mutex, and the check for `None`), run one
operation and leave. A free takes four steps: out of the registry (`FreeRemove`), the
client's mutex (`FreeTake`), the shutdown (`FreeStop`), and the shell and with it the
address (`FreeDrop`). `session[c]` are the live sessions of client c, `local[c]`
what the client itself has of one: its identifier, and a renew task. `results`, `heap`,
`strays` and `misfits` are the ledger: it follows one result at a time, any of them, from
its mapping to its free. `heap` is what is still allocated of it; `strays` and `misfits`
are what the last free gave back that was not allocated, or not with that capacity. The
allocator of the model takes back what it finds at a pointer and does not look at the
layout, as the system's allocator does.

A call that cannot map its arguments is `Refuse`d before it looks up anything. An
operation that finds no session registers one, or fails. The mutexes are not poisoned:
a panic inside an `extern "C"` function ends the process, so the arms of the code that
handle poison are not reachable. `vldb_controller_ffi_free` functions called on results
that are not theirs, or twice, are errors of the host and not modelled; freeing a client
twice and calling with a freed handle are, because the registry is there for them.

## 3. What is checked

| Run | Instance | Shows |
|---|---|---|
| `registry` | 3 sessions, 2 spaces, 1 binding name, 2 SQLite databases, 2 configurations of which 1 locks, 2 handles, 1 request in flight | `AttachmentsConsistent`, `OwnershipConsistent`, `ResourcesConsistent`, `SessionEndSparesOthers`, `LapsedNeverRevived`, `PooledWhileBound`, `ImplementsRegistry` |
| `managed` | 1 session, 1 space, 1 binding, 1 database of each kind, 2 handles, 1 stream, 2 request slots | `InflightExact`, `DecisionUnused`, `SessionEndReclaims`, `StreamRemovalJustified` |
| `deserted` | the same with 1 handle and 1 request slot, with `ManagedFairness` | `LapsedEventuallyEnds`, `OrphanStreamsReclaimed`, `DesertedStops` |
| `query_stream` | 2 readers, chunks of 2 bytes, an output of at most 4 bytes, with `Fairness` | `ChunksTile`, `NoTornRead`, `MetricsExact`, `ImplementsResult`, `ReadersAnswered`, `SpoolRemoved` |
| `client_session` | 2 tasks and the renew task, 1 space, 1 binding, 4 sessions, 2 upsets of which 1 may be a shutdown, with `Fairness` | `OneSession`, `ReplayUndisturbed`, `RestoresRemembered` |
| `startup` | 3 hosts: 1 Rust, 1 hasty Rust, 1 Go, 2 upsets, with `Fairness` | `OneController`, `NoLockLeft`, `ControllerReturns` |
| `go_client` | 2 goroutines, 3 connections, 2 sessions, 1 space, 1 binding, 1 upset | `HoldsRemembered`, `NoStraySession`, `NoPanicAlone` |
| `ffi` | 2 threads, 2 clients, 1 address, with `Fairness` | `RunsOnlyLive`, `ShellsOwned`, `MisdirectedOnlyAfterFree`, `StreamsCollected`, `ResultsReleased`, `FreeReturns`, `FreedSessionEnds` |
| `client_stuck` (violation) | 2 tasks and the renew task, 1 upset | `Recovers` fails: section 6 |
| `double_enable` (violation) | 2 sessions, 2 bindings of 1 database | `BackendShared` fails: section 6 |
| `orphan_stream` (violation) | 2 sessions, 1 stream | `StreamsOwned` fails: section 6 |
| `go_stuck` (violation) | 1 goroutine, 2 connections, 2 sessions, 1 restart, with `Fairness` | `Replayed` fails: section 6 |

The bounds. The books of a session, a space and a database are independent of
those of the others except through a shared space, a shared binding key or a
shared database, so two of what is shared and two or three that share it reach
every case distinction of the code: the last or not the last session of a space,
the last or not the last binding of a database, a session that ends with another
one left, two sessions that end in one pruning. `registry` has a second database
and a second configuration so that a binding can be re-pointed or asked for under
another configuration; LanceDB bindings, which go through the same operators, and
calls that outlive their binding are in `managed`, whose two slots also let two
closes, or an open and a close, overlap. `MaxStreams` and
`MaxInflight` bound counters that the code leaves unbounded; they sit in the
guards of `InsertStream` and `BeginRequest`. Sessions are never reused, so every
behaviour ends with sessions used up; TLC still finds no deadlock because
requests with an unknown identifier remain possible. Symmetry is used in the
safety runs only, where nothing but equality is asked of the elements.

`managed` asks how handlers, the loop and the decision interleave, not how
sessions share: one session suffices, and two slots let one request end, be refused
or be dropped while another is in any phase. `deserted` has one slot because the
liveness check is dearer; what hosts leave behind does not depend on how many
requests were under way, each of which ends by itself. `query_stream` has an output
of up to two full chunks, so that a chunk follows a chunk, a rest follows a full
chunk, one write makes two chunks, and the disk fails after a chunk; two readers, so
that one holds the last reference while the other reads, waits or has gone.
`MaxBytes` bounds the output in the guard of `Write`. The three runs of
`ManagedController` and `query_stream` set CHECK_DEADLOCK FALSE because the
process, and the stream, really end.

`client_session` has two tasks because every race of this code is between a holder of
the lock and one task outside it, or between two tasks past it; one space and one
binding, because a replay is ordered only between a binding and its space. An upset is
a loss at the controller, a failed or dropped call or a shutdown. Two let a recovery be
cut short and taken up again, and a session be lost while another one is a stray.
`UpsetsAssumption` asks for as many sessions as that can use up, so that no behaviour
ends for want of an identifier. The two runs set CHECK_DEADLOCK FALSE because the
shutdowns are bounded and a client may be left with identifiers spent; a host that
calls nothing is not an error.

`startup` has a host of each kind that behaves differently, and two upsets: one takes
the controller away or leaves a lock file behind, the other hits the host that deals
with it. `MaxStarting` bounds the processes that have not bound the port; with the
lock undisturbed there is never more than one (`OneController`).

`ffi` has one address for two clients, so that every address is used again; two threads,
because every operation and every free looks only at its own client and at whoever has
its mutex. The safety invariants were also checked with two addresses (1 134 763 states).
`MaxItems` bounds the elements of a list in a result and is 1 in the run; with 2 the
invariants and `SpareMisfits` were checked as well (238 731 states).

`go_client` has two goroutines and one upset; with one goroutine the same invariants
were checked through three upsets and four sessions (21 164 states), which is where the
recoveries follow each other. The connections are one more than the goroutines
(`ConnectionsAssumption`), so that a new one can always be dialled. `go_stuck` needs one
goroutine and one restart. The runs of these modules set CHECK_DEADLOCK FALSE because
hosts crash or panic, shutdowns are bounded, handles are used up, and a host need not
call.

What `disturbed` leaves out. `OneController`, `HoldsRemembered`, `NoStraySession` and
`NoPanicAlone` say what holds until something disturbs the protocol, and that nothing else
breaks it; they do not rule out what the marks stand for. That does go wrong in the code.
TLC finds it when an action is changed so that it no longer marks `disturbed`, all else
being as in the run:

| Without the mark in | Fails | By |
|---|---|---|
| `RemoveStale` | `OneController` | a hasty host removes the file of the one that coordinates, and takes the lock too |
| `Spawn` of a Go host | `OneController` | a Go host whose call was given up spawns once more |
| `Wait`, `Cancel` | `OneController` | the owner gives up the lock while its controller is still starting |
| `Crash` | `OneController` | the file of a crashed owner grows stale before its controller has bound the port |
| `Call` | `HoldsRemembered` | a second goroutine uses a session that has been stored and not yet replayed |
| `Send` | `HoldsRemembered` | the answers to two changes are handled in another order than they were made |
| `Fail` | `HoldsRemembered`, `NoStraySession` | the answer to a change, or to a registration, is lost |
| `Fail` during a replay (2 upsets, 3 sessions) | `HoldsRemembered` | the replay is cut short and no later call takes it up |
| all meetings of goroutines (`Disturbs`) | `NoStraySession` | two goroutines register at once |
| all meetings of goroutines (`Disturbs`) | `NoPanicAlone` | a shutdown comes between the look-up of the connection and its use |

Without the mark of a session that went unnoticed (`NoticesTooLate`), of a request that is
not tried again (`GiveUp`) or of a registration beside another call (`EnsureRegistered`)
alone, the invariants still hold in this instance; the proofs, for any number of sessions
and losses, use them.

Fairness. `ManagedFairness`: handlers and closures go on, because they are tasks and
threads of a runtime that schedules them; the maintenance loop runs every second in
every process mode (`server.rs:83-91`); the server takes a signal that was sent and
ends when it has drained; a running query completes; and time passes. Time is fair
only where nobody holds it up: a lease lapses and the idle window closes by fairness
only after the hosts have vanished, and a stream grows stale only when nobody can
use it any more, since any request renews and touches. Nothing is assumed of hosts.
`Fairness` of `QueryStream`: the producer and the readers are threads that are
scheduled, and a query that has delivered all its output ends. Both leave out a query
that runs for ever and a producer thread that panics, which is a hazard of its own.
`Fairness` of `ClientSession`: tasks that have begun an operation are polled; the renew
task gets the lock again and again (strong fairness, because its interval ticks and
tokio's mutex hands the lock on in the order of requests); and leases of strays run out.
That a host calls anything is not assumed.
`Fairness` of `StartupLock`: hosts go on, their renew tasks call again and again, a
deadline and the age of a file pass, and a controller process gets to its bind.
`Fairness` of `FfiClient`: a thread goes on with what it has begun, for every request
has a timeout (`client.rs:1435-1441`); and the lease of a session that nobody renews
runs out. `Fairness` of `GoClient` assumes in addition that the host goes on calling
(strong fairness of `Call`), since this client recovers only in an operation; even so
`Replayed` fails.

## 4. What is proved

`ControllerRuntimeProofs` proves, for all values of the constants that satisfy
the two named assumptions (`MaxStreams` and `MaxInflight` are natural numbers,
SQLite and LanceDB keys do not collide, `Nil` is none of the values it stands
beside):

* `InvHolds`: `Spec => []Inv`, the inductive invariant;
* `TypeCorrect`, `AttachmentsCorrect`, `OwnershipCorrect`, `ResourcesCorrect`:
  the type invariant and the three invariants of the runs.

The invariant. None of the three invariants is inductive alone. That a session
that ends leaves no binding behind needs its key set to be exact
(`WellOwned`); that a space is removed exactly when nobody is attached needs
every binding's owner to be attached, because the code keeps a space that still
has bindings; that a pooled backend is in use needs the resource index to be
exact (`WellPooled`), and the index is corrected from the entries that were
bound. `Consistent(st)` is their conjunction with the type of the record, stated
of one record so that the same lemmas serve the helpers that run one after
another inside one critical section (`PruneExpired` then `RemoveClients`, for
example). `Inv` adds the types of `tasks` and `workers`.

The argument. Each helper has a lemma that says which fields it changes and how
(`UntrackBindingsFields`, `RemoveBindingsFields`, `RemoveClientsFields`,
`BindFields`), and one that says it preserves `Consistent`. The step lemmas
(`SessionNextInv`, `SpaceNextInv`, `BackendNextInv`, `CallNextInv`,
`StreamNextInv`) then only take the actions apart. `SpaceNextInv` shows on the
way that the branch of `detach_space` for callers without an identifier never
removes a space: an idle space is never listed.

`ControllerRuntimeStepProofs` proves the action properties of the runs:
`LeasesStayOver`, `EndReclaims`, `EndSparesOthers` and `StreamsTakenForCause`.
With `Inv` at hand a step is looked at in one of two forms: it leaves the
sessions alone, or it prunes (or removes) sessions and then does one thing to the
record that is left. The lemmas say once what pruning does to sessions,
attachments, bindings, the pool and the streams, and the step lemmas cite them.
`StreamsTakenForCause` needs more than `Inv`: a close that is past its access
check works on an identifier, so the stream of that identifier must still be the
one that was checked. `StreamInv` says why it is: identifiers are handed out in
increasing order and never again, so a stream named by a pending close either
belongs to the session that closes it or is gone.

Bindings and backends. `PooledBackendsStay` (`PooledWhileBound`) says when a backend leaves
the pool. `FilesOpenOnce` says of the objects what the pool says of the index: two live
backends of one database whose configurations lock the file are the same one, counting
those that a call or a producer thread still holds after the binding is gone.
`LockingBindingsShare` follows: a second enable can empty the pool, but not make a second
locking backend. `SharedUnlessReenabled` turns the finding of the run `double_enable`
round: `BackendShared` holds of every behaviour in which no session enables a binding it
already has (`Reenables`), so that this is the only way to break it.

Streams without an owner, the finding of the run `orphan_stream`: they come about only by
a stream being registered after its session has ended (`OrphansComeByOpen`), nobody can
read or close them (`OrphansUnreachable`), and once the reaper may take one, that stays so
until it is gone (`OrphansAwaitReaper`). The last is the safety half of
`OrphanStreamsReclaimed`, whose liveness half TLC checks. `IdentifiersFresh` is why a late
reader or close cannot meet a stream that is not its own, and `SpacesStayClosed` shows that
the branch of `ensure_space_access_locked` that lets anybody into a space without attached
sessions is dead: no such space is listed.

The same module proves `ImplementsOwnership`: `Spec` implies
`ImplementsRegistry`. `EndsTo(a, b, S)` says that record `b` is what is left of
`a`, seen through the refinement mapping, when the sessions of `S` are over, and
`SameOwnership(a, b)` that nothing the mapping shows has changed. Every helper is
shown to be one or the other, and then every action is an `End`, `Begin`, `Join`,
`Leave`, `Claim`, `Release` or a stutter.

`ManagedControllerProofs` proves of the process, under the further assumptions that
there are finitely many request slots and that `Nil` is no request:

* `RunsTheRegistry`: every behaviour of `ManagedSpec` is one of `Spec`, so that every
  theorem above holds of the process as well;
* `CounterCorrect` (`InflightExact`): a counter that is too high would keep the
  controller alive for ever, one that is too low would stop it under a request;
* `DecisionCorrect` (`DecisionUnused`).

`ProcessInv` adds the types of the slots and `InflightExact` to `Inv`. Per action it
is shown how the counter and the set of guarded slots change together. `Decide` looks
at sessions, streams and spaces, and not at bindings or at the pool; that these are
empty too follows from `Inv` (`NobodyNothing`): a binding has a registered owner and
a pooled backend has a binding.

What becomes of the work that is under way when the process stops. `WorkHeld` relates a
blocking task to the request that holds it: an open or a call inside a handler has its
handler, a closure has its slot even when its handler was dropped. From it follow
`WorkEndsBeforeExit` (the process is never gone under a call, an open or a close) and
`DecisionSeesWork` (at the decision, the only work under way is that of closures whose
handlers were dropped, which the counter does not know). `StopsUnusedUnlessLate` turns the
observation of section 6 round: `StopsUnused` holds of every behaviour in which no request
is accepted between the decision and the signal (`LateAccept`). `ProcessInherits` carries
the theorems about steps over to the process: `ImplementsRegistry`, `SessionEndReclaims`,
`StreamRemovalJustified`, `PooledWhileBound` and the two about orphans.

`QueryStreamProofs` proves `ChunksAlwaysTile`, `ReadsNeverTorn`,
`MetricsAlwaysExact`, `RefusalsFinal` and `StreamTypes` for any number of readers, any
chunk size but 0 and any length of the output. The inductive invariant `StreamInv`
relates the writer's counters to the registered chunks (`WriterExact`), the result to
where the producer is (`ResultExact`), the file to the references (`SpoolKept`) and
every reader to the file (`ReadersRight`). `ReadsNeverTorn` needs the last two: a
reader in the middle of a read holds a reference, so the file of a stream that has a
chunk is there, and since the file only grows the chunk it was given is still inside.

`KeepsPromise` is the refinement: `Spec => ImplementsResult`. Every critical section is a
step of `ChunkedResult` or a stutter: `RegisterChunk` extends, `Finish` and `Fail` give the
verdict, `ReadSpool` answers with the piece that was looked up (the step needs
`ReadersRight`), and writing, sleeping and waking are not seen. `NoWakeUpLost`
(`SleepersWait`) says that whoever sleeps has nothing to see yet, for any number of
readers, which is what `ReadersAnswered` rests on beside fairness; `NoSpoolLeftBehind`
(`NoSpoolLeft`) is the same for `SpoolRemoved`. `RefusalsFinal` (`OutOfBoundsFinal`) is now a
theorem only, since `ImplementsResult` says more.

`ClientSessionProofs` proves, for any number of tasks, spaces and bindings and any
bounds, `ClientTypes`, `ReplaysUndisturbed`, `SessionsBounded` and `UsesTheRegistry`. The lock carries the
argument (`LockExact`, a part of `TypeOK`): who replaces the session is inside
`ensure_registered_session`, and so is who replays. `SessionKept` extends
`ReplayUndisturbed` to a task that still renews, since it may go on to replay the
session it read when it took the lock. `AskedFor` is there for the types of what a task
remembers. `SessionsBounded` (`OneSession`) counts: a live session is the client's, or one
that a task has just registered, or in `Excess`. The first two are never both there
(`Unheld`), since only the holder of the lock registers and only when the client has no
session. `Accounted` bounds `Excess` and the shutdowns under way (`Leaving`) by the upsets
and twice the shutdowns: a dropped registration pays for the session it leaves, and a
shutdown for the one the renew task was registering and for the one it forgets, which it
owes until it clears the client. `UsesTheRegistry` says that the client's behaviours are behaviours of
`SessionRegistry`, the specification that `ImplementsOwnership` shows the controller to
implement.

The same module says how the client's memory and its session compare. The cache learns of
an answer only after the controller has acted, and replays from a copy, so the two can
drift apart, and the theorems name every way they can.

`RightUnlessRaced`: a client that has a live session and no replay pending remembers
nothing the session does not hold (`RememberedHeld`), up to what a task is about to forget,
unless one of `Races` happened: something released while another task waits to hear that
it was granted (`Crossed`), a release whose answer is lost (`ReleaseUnanswered`), a session
that ends between a grant and its answer (`LostUnderGrant`), or a shutdown. `Calm` is the
invariant: a request on its way is for the session of the client or for one that is over,
and a replay that goes on covers all that is remembered (`ReplayCovers`).

`ExactUnlessDrifted`: the two agree in both directions (`HeldRemembered` is the other one),
and no binding is remembered without its space (`OrphansAnswered`), unless one of `Drifts`
happened or a replay was about to grant from its copy what a task was about to forget
(`ReplayStale`, the hazard at `client.rs:1500`). `Drifts` adds to `Races` a grant of what
another task waits to hear the release of (`Regranted`), any answer that is lost and any
session that ends under one. A binding without its space is what makes `Recovers` fail in
`client_stuck`; the theorem says that it takes one of these. On the instance of
`client_session` with one condition dropped at a time, TLC finds a violation for each:
none of the conditions is idle. `ServerTidy` is needed of the controller (a session that is
over holds nothing, nobody owns a binding outside its spaces), and `ThingAssumption` that a
space is no binding, since the code keeps them in maps of their own.

`StartupLockProofs` proves, for any number of hosts, `LockReleased` (`NoLockLeft`) and
`OneStart` (`OneController`). The invariant `LockInv` says whose the file is: while
nothing has disturbed the lock, the one guard is that of the host that made the file,
and a process that is starting was spawned by it. `disturbed` is what has to be excluded,
each case of which the runs reach: the comment on `StartupSpawnGuard` promises no more
than one coordinator, and after a crash, a hasty host or a Go host there may be two.

`GoClientProofs` proves, for any number of goroutines, connections, sessions, spaces and
bindings and any number of upsets, `RememberedIsHeld` (`HoldsRemembered`), `NoSessionStrays`
(`NoStraySession`), `AloneNoPanic` (`NoPanicAlone`), `GoClientTypes` and
`GoUsesTheRegistry`. The first three speak of a client that nothing has disturbed, and
`CalmNow` says what that comes to. `Alone`: whoever gets the client a session has no other
goroutine beside it. `Linked`: the connection that a goroutine uses is the client's, and
none but that of a shutdown is open beside it. `Known`: the one live session is the
client's or on its way to it or from it, and a connection that broke means that there is
none, which is why `resetConnection` may forget the session. `Remembered`: what the live
session holds differs from what is desired only by what is still to be replayed or by the
one change under way (`Owes`), and a desired binding is in a desired space, so that a
replay on a live session is never refused. `disturbed` is needed: a second goroutine that
registers, recovers or shuts down at the same time, or a request that fails on the way,
breaks one or another of them. The proof needs `SpaceAssumption` (a space is
no binding) beside the assumptions on `Nil` and the bounds.

`FfiClientProofs` proves all safety properties of the `ffi` run for any number of threads,
clients and addresses: `OperationsRunAlone`, `NoDoubleFree`, `StaleHandlesOnly`,
`NoStreamLeft`, `NoLeak`, and `MisfitsExact` on what `NoLeak` leaves out. The invariant `FfiInv` relates the registry to the shells and to
the frees under way: an address has a shell exactly while the registry or one free has
it, so two frees of one handle exclude each other at the registry. `NoLeak` rests on
`ReleasedIsBlocks`: for every result type the bag of blocks that its `Free` operator visits
is the bag that its `Map` operator allocated. It is about blocks and not about layouts: that
every block is visited, and once. `MisfitsExact` is about layouts: a free gives back under
another one exactly the buffers of `spare`, which are among the blocks of the result
(`SpareIsMapped`), and nothing else. So `LayoutsKept` fails whenever a buffer had spare
capacity, and only then.

Only model-checked: liveness, which is out of the prover's reach
(`LapsedEventuallyEnds`, `OrphanStreamsReclaimed`, `DesertedStops`,
`ReadersAnswered`, `SpoolRemoved`, `RestoresRemembered`, `ControllerReturns`,
`FreeReturns`, `FreedSessionEnds`), and what the violation runs show. Every invariant and
every action property of a passing run is a theorem, and so are the two refinements that
runs check; the type invariants are theorems and need no run.

## 5. Plan

In order of importance, all done: `ControllerRuntime` with `SessionRegistry` and their
proofs; `ManagedController`; `ClientSession`; `QueryStream`; `StartupLock`; `FfiClient`;
`GoClient`; the refinement of `ChunkedResult`; and the theorems that say exactly when
`BackendShared`, `StreamsOwned`, `StopsUnused` and the memory of the Rust client fail.
Worth proving next: the safety halves of the remaining liveness properties, as
`OrphansAwaitReaper` and `NoWakeUpLost` are of theirs (what keeps `DesertedStops`,
`FreeReturns` and `ControllerReturns` from being lost again once they are within reach);
and for `GoClient` what `ExactUnlessDrifted` is for the Rust client, with `disturbed`
taken apart into its causes.

## 6. Findings

* `double_enable`: a session that enables its own, last binding of a database
  again drops from the pool the backend it was just given. The next binding of
  that database opens a second backend, or is refused by the lock of the first.
  The code untracks the replaced entry after it has consulted the pool
  (`runtime.rs:457-488`, `runtime.rs:786-817`).
* `orphan_stream`: a session that ends while its stream is being opened leaves a
  stream registered for nobody (`runtime.rs:566-568`), against the documentation
  (`docs/CLIENT_FFI_API_INTEGRATION.md:38`). It is reclaimed in the end
  (`OrphanStreamsReclaimed`), five minutes after its query completed, and keeps a
  managed controller alive until then.
* `client_stuck`: the answer to an enable is handled after another task of the host has
  disabled the binding and detached its space; the client then remembers a binding
  without its space, and after the next loss of the session every replay, and with it
  every operation, fails (`client.rs:445`, `client.rs:1512`), against
  `docs/CLIENT_FFI_API_INTEGRATION.md:279`. Otherwise what is remembered comes back
  (`RestoresRemembered`).
* `go_stuck`: the controller restarts, the Go client's connection is up again before it
  is used, and every operation is refused with InvalidArgument, which `isRecoverable`
  does not take for a loss (`client.go:801-807`, `server.rs:1257`), against
  `docs/GO_SDK_INTEGRATION.md:91`. A loss the connection notices is made good
  (`HoldsRemembered`), if no other goroutine is in the way.

Observed while modelling, not runs of their own:

* A session registered between the decision to stop and the moment the server stops
  accepting is lost with the process (`server.rs:95-103`), against
  `docs/DOWNSTREAM_IMPACT_REPORT.md:54`; `StopsUnused` of `ManagedController` states what
  does not hold, and fails when it is added to `Managed.cfg`; without such a request it
  holds (`StopsUnusedUnlessLate`). At the decision itself
  nothing is in use (`DecisionUnused`).
* Handles of the C ABI are addresses. The comment at `ffi/src/lib.rs:54-55` says that
  calls with a freed handle fail safely; they do, until the next create is given its
  address, and reach that client from then on (`MisdirectedOnlyAfterFree`).
* `enable_sqlite_json` and `enable_lancedb_json` take a `binding_id` from their text,
  while every other operation of the C ABI uses the space's identifier as
  `docs/CLIENT_FFI_API_INTEGRATION.md:477` says: a binding enabled under another name
  cannot be used or disabled through it. A call with a null `result_out` leaks what its
  result points to (`ffi/src/lib.rs:4306`; line 456 of that document says that nothing is
  allocated then).
* What the C ABI allocates as a Vec it gives back with another layout when the Vec had
  spare capacity: the capacity is forgotten (`ffi/src/lib.rs:3511-3516`, `3786-3839`,
  `4169-4174`) and the length is taken for it (`ffi/src/lib.rs:832`, `1262`, `1800`,
  `1981`, `2626`), although the element types make spare capacity usual: `collect` may
  reuse in place the buffer of larger elements (a hit, a custom word, a chunk), and a decoded
  `Vec<u8>` has the capacity its decoder chose. The block is found by its pointer and comes
  back (`ResultsReleased`); that its layout is the wrong one is against the contract of
  `Vec::from_raw_parts`, and an allocator that goes by sizes would be misled.
  `LayoutsKept` of `FfiClient` states what does not hold, and fails when it is added to
  `FfiClient.cfg`: a list of words with one element, whose buffer had spare capacity, is
  freed. `MisfitsExact` proves that it concerns those buffers only.
* The lock of `StartupSpawnGuard` is not exclusive after a crash, against a host with
  half the timeout, or beside a Go host, which spawns without it (`client.rs:203`,
  `client.rs:1374`, `client.go:543`): `disturbed` in `StartupLock`. So does the Go client go
  wrong where goroutines meet or a replay fails: `disturbed` in `GoClient`. What TLC finds
  without each of the marks is in section 3.

## 7. Not modelled

SQL, full-text search, tokenizing and vector operations: calls of vldb-sqlite and
vldb-lancedb that change nothing in the controller. Conversion between protocol
messages and types, formatting of errors, logging. Normalisation of paths into
database keys: the model starts from the key. Panics while the registry is locked:
`lock_state` takes the state out of a poisoned mutex and goes on with what the panic left
of it (`runtime.rs:161-169`), a state half-way through a critical section; no path under
the lock is known to panic except the lease arithmetic listed among the hazards. Read-only
listing (`list_clients`, `list_spaces`, `status_snapshot`): they prune, as
`ReapExpiredClients` does, and read.

The width of the clock: a lease is an unchecked 64-bit addition (`runtime.rs:196`), while
the models know leases by the order of their events. Values and texts of messages that
cross the C ABI or the Go SDK, and the flags of `cli.rs` one by one. The count of Rust
client handles that keeps the renew task of a dropped client alive (`client.rs:1845`).
Types, generated protocol, examples, scripts and build files keep no state.
