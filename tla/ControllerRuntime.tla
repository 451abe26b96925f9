------------------------- MODULE ControllerRuntime -------------------------
(***************************************************************************)
(* The in-memory registry of the controller (controller/src/core/          *)
(* runtime.rs): client sessions with leases, runtime spaces, the SQLite    *)
(* and LanceDB bindings the sessions own inside them, the pool of shared   *)
(* backends behind the bindings, and the SQLite query streams.             *)
(*                                                                         *)
(* The code keeps all of it in one ControllerState behind one mutex: it is *)
(* the record "state" below, each operator on a record st is one of the    *)
(* code's *_locked helpers, and each action is one critical section.  What *)
(* lives outside the mutex has variables of its own: blocking calls that   *)
(* work on a cloned backend after the lock is released ("tasks") and the   *)
(* threads that produce query streams ("workers").                         *)
(***************************************************************************)
EXTENDS Naturals, FiniteSets

CONSTANTS
    Session,        \* client session identifiers (a fresh UUID per registration)
    Space,          \* runtime space identifiers
    Identity,       \* label, kind and root a space is registered with
    Binding,        \* binding identifiers inside a space
    SqliteResource, \* normalized SQLite database paths
    LanceResource,  \* LanceDB resource keys (root and default path)
    Config,         \* backend configuration keys
    LockingConfig,  \* the SQLite configurations with enforce_db_file_lock
    Handle,         \* identities of backend objects
    Task,           \* concurrent blocking calls
    MaxStreams,     \* bound: query streams opened in one behaviour
    MaxInflight,    \* bound: requests in flight at once
    Nil             \* an absent map entry, or no client identifier

Kind     == {"sqlite", "lancedb"}
Resource == SqliteResource \cup LanceResource
StreamId == 1 .. MaxStreams

\* A key of client.owned_*_binding_keys, of the resource index, and (split in
\* two) of space.sqlite_bindings or space.lancedb_bindings.
BindingKey == [kind : Kind, space : Space, binding : Binding]

\* A backend object; clones of the Arc are the same object.
Backend == [handle : Handle, resource : Resource, config : Config]

BindingEntry == [owner : Session, resource : Resource, backend : Backend]
StreamEntry  == [owner : Session, space : Space, stale : BOOLEAN]

ASSUME ConstantsAssumption ==
    /\ MaxStreams \in Nat
    /\ MaxInflight \in Nat
    /\ SqliteResource \cap LanceResource = {}
    /\ LockingConfig \subseteq Config

ASSUME NilAssumption ==
    /\ Nil \notin Session
    /\ Nil \notin Identity
    /\ Nil \notin Config
    /\ Nil \notin Backend
    /\ Nil \notin BindingEntry
    /\ Nil \notin StreamEntry

VARIABLES
    state,   \* the ControllerState behind the mutex
    tasks,   \* per task: the backend or stream it works on outside the mutex
    workers  \* per stream: the backend its producer thread still holds, or Nil

vars == <<state, tasks, workers>>

\* clients[s]: "unused" until the id is allocated, then "live" while the lease
\* runs, "lapsed" once expires_at has passed, "ended" when it has been removed.
ClientStatus == {"unused", "live", "lapsed", "ended"}

ControllerState ==
    [clients              : [Session -> ClientStatus],
     attached_space_ids   : [Session -> SUBSET Space],
     owned_binding_keys   : [Session -> SUBSET BindingKey],
     spaces               : [Space -> Identity \cup {Nil}],
     attached_clients     : [Space -> SUBSET Session],
     bindings             : [BindingKey -> BindingEntry \cup {Nil}],
     resource_backends    : [Resource -> Backend \cup {Nil}],
     resource_configs     : [Resource -> Config \cup {Nil}],
     resources            : [Resource -> SUBSET BindingKey],
     query_streams        : [StreamId -> StreamEntry \cup {Nil}],
     next_query_stream_id : Nat,
     inflight_requests    : Nat,
     recent_request       : BOOLEAN]

\* What a blocking call holds between its two critical sections.
Job == [op : {"call"}, backend : Backend]
       \cup [op : {"open"}, client : Session, space : Space, backend : Backend]
       \cup [op : {"close"}, client : Session, stream : StreamId]

ASSUME NilJobAssumption == Nil \notin Job

Init ==
    /\ state = [clients              |-> [s \in Session |-> "unused"],
                attached_space_ids   |-> [s \in Session |-> {}],
                owned_binding_keys   |-> [s \in Session |-> {}],
                spaces               |-> [sp \in Space |-> Nil],
                attached_clients     |-> [sp \in Space |-> {}],
                bindings             |-> [k \in BindingKey |-> Nil],
                resource_backends    |-> [r \in Resource |-> Nil],
                resource_configs     |-> [r \in Resource |-> Nil],
                resources            |-> [r \in Resource |-> {}],
                query_streams        |-> [id \in StreamId |-> Nil],
                next_query_stream_id |-> 1,
                inflight_requests    |-> 0,
                recent_request       |-> TRUE]
    /\ tasks = [t \in Task |-> Nil]
    /\ workers = [id \in StreamId |-> Nil]

-----------------------------------------------------------------------------
(* Access checks.  c is a session identifier or Nil.                       *)

Registered(st, c) == c \in Session /\ st.clients[c] \in {"live", "lapsed"}

AttachedTo(st, c, sp) == Registered(st, c) /\ c \in st.attached_clients[sp]

EnsureSpaceAccess(st, sp, c) ==
    /\ st.spaces[sp] # Nil
    /\ st.attached_clients[sp] = {} \/ AttachedTo(st, c, sp)

EnsureCreationAccess(st, sp, c) ==
    /\ st.spaces[sp] # Nil
    /\ AttachedTo(st, c, sp)

\* A missing entry has no owner, so it matches every caller.
EnsureOwnerMatch(entry, c) == entry # Nil => entry.owner = c

EnsureBindingAccess(st, k, c) ==
    /\ EnsureSpaceAccess(st, k.space, c)
    /\ EnsureOwnerMatch(st.bindings[k], c)

-----------------------------------------------------------------------------
(* Bookkeeping of bindings: the owner's key set, the resource index and    *)
(* the backend pool that the index keeps alive.                            *)

TrackBinding(st, k, owner, r) ==
    [st EXCEPT !.owned_binding_keys[owner] = @ \cup {k},
               !.resources[r] = @ \cup {k}]

\* The keys among "keys" whose entries name session s, or database r.
OwnedAmong(keys, entry, s) == {k \in keys : entry[k].owner = s}
OnAmong(keys, entry, r)    == {k \in keys : entry[k].resource = r}

\* Faulty: the pool entries outlive the last binding.
UntrackBindingsKeepingPool(st, keys, entry) ==
    [st EXCEPT
       !.owned_binding_keys = [s \in Session |-> @[s] \ OwnedAmong(keys, entry, s)],
       !.resources = [r \in Resource |-> @[r] \ OnAmong(keys, entry, r)]]

\* Faulty: the pool entries go with any binding.
UntrackBindingsDroppingPool(st, keys, entry) ==
    LET touched == {entry[k].resource : k \in keys}
        kept == UntrackBindingsKeepingPool(st, keys, entry)
    IN [kept EXCEPT
          !.resource_backends =
              [r \in Resource |-> IF r \in touched THEN Nil ELSE @[r]],
          !.resource_configs =
              [r \in Resource |-> IF r \in touched THEN Nil ELSE @[r]]]

\* The last binding of database r goes.
Released(st, keys, entry, r) ==
    st.resources[r] # {} /\ st.resources[r] \subseteq OnAmong(keys, entry, r)

\* entry[k] is what was bound to k.
UntrackBindings(st, keys, entry) ==
    [st EXCEPT
       !.owned_binding_keys = [s \in Session |-> @[s] \ OwnedAmong(keys, entry, s)],
       !.resources = [r \in Resource |-> @[r] \ OnAmong(keys, entry, r)],
       !.resource_backends =
           [r \in Resource |-> IF Released(st, keys, entry, r) THEN Nil ELSE @[r]],
       !.resource_configs =
           [r \in Resource |-> IF Released(st, keys, entry, r) THEN Nil ELSE @[r]]]

Enabled(st, keys) == {k \in keys : st.bindings[k] # Nil}

RemoveBindings(st, keys) ==
    UntrackBindings(
        [st EXCEPT !.bindings = [k \in BindingKey |-> IF k \in keys THEN Nil ELSE @[k]]],
        Enabled(st, keys), st.bindings)

IdleSpace(st, sp) ==
    /\ st.attached_clients[sp] = {}
    /\ \A k \in BindingKey : k.space = sp => st.bindings[k] = Nil

\* Faulty: spaces stay when their last session is gone.
CleanupEmptySpacesSkipped(st) == st

CleanupEmptySpaces(st) ==
    [st EXCEPT !.spaces =
        [sp \in Space |-> IF IdleSpace(st, sp) THEN Nil ELSE @[sp]]]

-----------------------------------------------------------------------------
(* The end of sessions.                                                    *)

\* Faulty: the streams of the sessions stay.
StreamsWithoutNothing(st, gone) == st.query_streams

StreamsWithout(st, gone) ==
    [id \in StreamId |->
        IF st.query_streams[id] # Nil /\ st.query_streams[id].owner \in gone
        THEN Nil ELSE st.query_streams[id]]

\* remove_client_locked for every session of S that is registered.
RemoveClients(st, S) ==
    LET gone == {s \in S : Registered(st, s)}
        released == RemoveBindings(st,
            {k \in BindingKey : \E s \in gone : k \in st.owned_binding_keys[s]})
    IN IF gone = {} THEN st
       ELSE CleanupEmptySpaces(
              [released EXCEPT
                 !.clients = [s \in Session |-> IF s \in gone THEN "ended" ELSE @[s]],
                 !.attached_space_ids =
                     [s \in Session |-> IF s \in gone THEN {} ELSE @[s]],
                 !.owned_binding_keys =
                     [s \in Session |-> IF s \in gone THEN {} ELSE @[s]],
                 !.attached_clients =
                     [sp \in Space |->
                        @[sp] \ {s \in gone : sp \in st.attached_space_ids[s]}],
                 !.query_streams = StreamsWithout(released, gone)])

PruneExpired(st) ==
    RemoveClients(st, {s \in Session : st.clients[s] = "lapsed"})

\* A lease runs again from now, for a session that is still registered.
RenewLease(st, c) ==
    IF Registered(st, c) THEN [st EXCEPT !.clients[c] = "live"] ELSE st

-----------------------------------------------------------------------------
(* Requests and leases.                                                    *)

\* Faulty: the lease is renewed before the expired sessions are pruned.
BeginRequestRenewingFirst(c, recordActivity) ==
    /\ state.inflight_requests < MaxInflight
    /\ state' = [PruneExpired(RenewLease(state, c)) EXCEPT
                    !.inflight_requests = @ + 1,
                    !.recent_request = @ \/ recordActivity]
    /\ UNCHANGED <<tasks, workers>>

BeginRequest(c, recordActivity) ==
    /\ state.inflight_requests < MaxInflight
    /\ state' = [RenewLease(PruneExpired(state), c) EXCEPT
                    !.inflight_requests = @ + 1,
                    !.recent_request = @ \/ recordActivity]
    /\ UNCHANGED <<tasks, workers>>

DropRequestGuard ==
    /\ state.inflight_requests > 0
    /\ state' = [state EXCEPT !.inflight_requests = @ - 1]
    /\ UNCHANGED <<tasks, workers>>

RegisterClient(s) ==
    /\ state.clients[s] = "unused"
    /\ state' = [PruneExpired(state) EXCEPT !.clients[s] = "live"]
    /\ UNCHANGED <<tasks, workers>>

RenewClient(s) ==
    /\ state' = RenewLease(PruneExpired(state), s)
    /\ UNCHANGED <<tasks, workers>>

UnregisterClient(s) ==
    /\ state' = RemoveClients(PruneExpired(state), {s})
    /\ UNCHANGED <<tasks, workers>>

\* Faulty: sessions that still own bindings are not reaped.
ReapExpiredClientsSparingOwners ==
    /\ state' = RemoveClients(state, {s \in Session :
                    state.clients[s] = "lapsed" /\ state.owned_binding_keys[s] = {}})
    /\ UNCHANGED <<tasks, workers>>

ReapExpiredClients ==
    /\ state' = PruneExpired(state)
    /\ UNCHANGED <<tasks, workers>>

\* The clock passes expires_at of one session.
LeaseLapses(s) ==
    /\ state.clients[s] = "live"
    /\ state' = [state EXCEPT !.clients[s] = "lapsed"]
    /\ UNCHANGED <<tasks, workers>>

\* The clock passes last_request_at + idle_timeout.
IdleTimeoutElapses ==
    /\ state.recent_request
    /\ state' = [state EXCEPT !.recent_request = FALSE]
    /\ UNCHANGED <<tasks, workers>>

-----------------------------------------------------------------------------
(* Spaces.                                                                 *)

Attach(st, c, sp, identity) ==
    [st EXCEPT !.spaces[sp] = IF @ = Nil THEN identity ELSE @,
               !.attached_space_ids[c] = @ \cup {sp},
               !.attached_clients[sp] = @ \cup {c}]

\* An error leaves what the pruning did.
AttachSpace(c, sp, identity) ==
    LET st == PruneExpired(state)
        accepted == Registered(st, c) /\ st.spaces[sp] \in {Nil, identity}
    IN /\ state' = IF accepted THEN Attach(st, c, sp, identity) ELSE st
       /\ UNCHANGED <<tasks, workers>>

\* Faulty: the session's bindings in the space are not looked at.
MayDetachWithBindings(st, c, sp) ==
    /\ Registered(st, c)
    /\ sp \in st.attached_space_ids[c]

MayDetach(st, c, sp) ==
    /\ Registered(st, c)
    /\ \A k \in st.owned_binding_keys[c] : k.space # sp
    /\ sp \in st.attached_space_ids[c]

RemoveSpace(st, sp) ==
    [st EXCEPT !.spaces[sp] = Nil,
               !.attached_clients[sp] = {},
               !.attached_space_ids =
                   [s \in Session |->
                      IF s \in st.attached_clients[sp] THEN @[s] \ {sp} ELSE @[s]]]

Detach(st, c, sp) ==
    LET left == [st EXCEPT !.attached_space_ids[c] = @ \ {sp},
                           !.attached_clients[sp] = @ \ {c}]
    IN IF IdleSpace(left, sp) THEN RemoveSpace(left, sp) ELSE left

\* Without a client identifier only an idle space can go.
DetachSpace(c, sp) ==
    LET st == PruneExpired(state)
    IN /\ state' = IF st.spaces[sp] = Nil THEN st
                   ELSE IF c = Nil
                        THEN IF IdleSpace(st, sp) THEN RemoveSpace(st, sp) ELSE st
                        ELSE IF MayDetach(st, c, sp) THEN Detach(st, c, sp) ELSE st
       /\ UNCHANGED <<tasks, workers>>

-----------------------------------------------------------------------------
(* Backends.  An object lives as long as somebody holds a clone of it; a   *)
(* locking SQLite configuration locks the database file for that long.     *)

LiveBackends ==
    ({state.resource_backends[r] : r \in Resource}
     \cup {state.bindings[k].backend : k \in {x \in BindingKey : state.bindings[x] # Nil}}
     \cup {tasks[t].backend :
             t \in {x \in Task : tasks[x] # Nil /\ tasks[x].op \in {"call", "open"}}}
     \cup {workers[id] : id \in StreamId}) \ {Nil}

\* vldb-sqlite refuses a second runtime on a database file that is locked.
FileLocked(r, config) ==
    /\ r \in SqliteResource
    /\ config \in LockingConfig
    /\ \E b \in LiveBackends : b.resource = r /\ b.config \in LockingConfig

NewBackends(r, config) ==
    IF FileLocked(r, config) THEN {}
    ELSE {[handle |-> h, resource |-> r, config |-> config] :
             h \in {x \in Handle : \A b \in LiveBackends : b.handle # x}}

\* The backends an enable may end up with; none when it is refused.
BackendForEnable(r, config) ==
    IF state.resource_backends[r] = Nil THEN NewBackends(r, config)
    ELSE IF state.resource_configs[r] = config THEN {state.resource_backends[r]}
    ELSE {}

PoolBackend(st, b) ==
    [st EXCEPT !.resource_backends[b.resource] = b,
               !.resource_configs[b.resource] = b.config]

\* The map entry is replaced first; the old entry is then untracked and the
\* new one tracked.
Bind(st, k, entry) ==
    TrackBinding(
        UntrackBindings([st EXCEPT !.bindings[k] = entry], Enabled(st, {k}), st.bindings),
        k, entry.owner, entry.resource)

\* Faulty: the owner of an existing binding is not compared.
EnableOverOthers(c, k, r, config) ==
    /\ EnsureCreationAccess(state, k.space, c)
    /\ \E b \in BackendForEnable(r, config) :
          state' = Bind(PoolBackend(state, b), k,
                        [owner |-> c, resource |-> r, backend |-> b])
    /\ UNCHANGED <<tasks, workers>>

Enable(c, k, r, config) ==
    /\ EnsureCreationAccess(state, k.space, c)
    /\ EnsureOwnerMatch(state.bindings[k], c)
    /\ \E b \in BackendForEnable(r, config) :
          state' = Bind(PoolBackend(state, b), k,
                        [owner |-> c, resource |-> r, backend |-> b])
    /\ UNCHANGED <<tasks, workers>>

Key(kind, sp, b) == [kind |-> kind, space |-> sp, binding |-> b]

EnableSqlite(c, sp, b, r, config) ==
    r \in SqliteResource /\ Enable(c, Key("sqlite", sp, b), r, config)

EnableLanceDb(c, sp, b, r, config) ==
    r \in LanceResource /\ Enable(c, Key("lancedb", sp, b), r, config)

Disable(c, k) ==
    /\ EnsureBindingAccess(state, k, c)
    /\ state.bindings[k] # Nil
    /\ state' = RemoveBindings(state, {k})
    /\ UNCHANGED <<tasks, workers>>

DisableSqlite(c, sp, b)  == Disable(c, Key("sqlite", sp, b))
DisableLanceDb(c, sp, b) == Disable(c, Key("lancedb", sp, b))

-----------------------------------------------------------------------------
(* Data-plane calls: the backend is cloned under the lock and used after   *)
(* the lock is released.                                                   *)

BackendAccess(c, k) ==
    /\ EnsureBindingAccess(state, k, c)
    /\ state.bindings[k] # Nil

StartTask(t, job) ==
    /\ tasks[t] = Nil
    /\ tasks' = [tasks EXCEPT ![t] = job]

SqliteCall(t, c, sp, b) ==
    LET k == Key("sqlite", sp, b)
    IN /\ BackendAccess(c, k)
       /\ StartTask(t, [op |-> "call", backend |-> state.bindings[k].backend])
       /\ UNCHANGED <<state, workers>>

LanceDbCall(t, c, sp, b) ==
    LET k == Key("lancedb", sp, b)
    IN /\ BackendAccess(c, k)
       /\ StartTask(t, [op |-> "call", backend |-> state.bindings[k].backend])
       /\ UNCHANGED <<state, workers>>

CallReturns(t) ==
    /\ tasks[t] # Nil
    /\ tasks[t].op = "call"
    /\ tasks' = [tasks EXCEPT ![t] = Nil]
    /\ UNCHANGED <<state, workers>>

-----------------------------------------------------------------------------
(* Query streams.                                                          *)

OpenStream(t, c, sp, b) ==
    LET k == Key("sqlite", sp, b)
    IN /\ BackendAccess(c, k)
       /\ StartTask(t, [op |-> "open", client |-> c, space |-> sp,
                        backend |-> state.bindings[k].backend])
       /\ UNCHANGED <<state, workers>>

\* Second critical section of the open: it checks nothing again.
InsertStream(t) ==
    LET job == tasks[t]
        id  == state.next_query_stream_id
    IN /\ job # Nil
       /\ job.op = "open"
       /\ id <= MaxStreams
       /\ state' = [state EXCEPT
                      !.query_streams[id] =
                          [owner |-> job.client, space |-> job.space, stale |-> FALSE],
                      !.next_query_stream_id = id + 1]
       /\ workers' = [workers EXCEPT ![id] = job.backend]
       /\ tasks' = [tasks EXCEPT ![t] = Nil]

StreamAccess(c, id) ==
    LET entry == state.query_streams[id]
    IN /\ entry # Nil
       /\ EnsureSpaceAccess(state, entry.space, c)
       /\ entry.owner = c

\* Every access restarts the idle time of the stream.
Touched(id) == [state EXCEPT !.query_streams[id].stale = FALSE]

UseStream(c, id) ==
    /\ StreamAccess(c, id)
    /\ state' = Touched(id)
    /\ UNCHANGED <<tasks, workers>>

CloseStream(t, c, id) ==
    /\ StreamAccess(c, id)
    /\ StartTask(t, [op |-> "close", client |-> c, stream |-> id])
    /\ state' = Touched(id)
    /\ UNCHANGED workers

\* Second critical section of the close.
RemoveStream(t) ==
    /\ tasks[t] # Nil
    /\ tasks[t].op = "close"
    /\ state' = [state EXCEPT !.query_streams[tasks[t].stream] = Nil]
    /\ tasks' = [tasks EXCEPT ![t] = Nil]
    /\ UNCHANGED workers

\* The producer thread reports its result and drops the backend; the idle
\* time of the stream starts again at completion.
StreamCompletes(id) ==
    /\ workers[id] # Nil
    /\ workers' = [workers EXCEPT ![id] = Nil]
    /\ state' = IF state.query_streams[id] = Nil THEN state ELSE Touched(id)
    /\ UNCHANGED tasks

\* Five minutes pass without a use of the stream.
StreamGoesStale(id) ==
    /\ state.query_streams[id] # Nil
    /\ ~state.query_streams[id].stale
    /\ state' = [state EXCEPT !.query_streams[id].stale = TRUE]
    /\ UNCHANGED <<tasks, workers>>

\* Faulty: a stream whose query still runs is reaped too.
ReapableWhileRunning(id) ==
    /\ state.query_streams[id] # Nil
    /\ state.query_streams[id].stale

\* Faulty: only the streams of registered sessions are reaped.
ReapableIfOwned(id) ==
    /\ state.query_streams[id] # Nil
    /\ Registered(state, state.query_streams[id].owner)
    /\ workers[id] = Nil
    /\ state.query_streams[id].stale

Reapable(id) ==
    /\ state.query_streams[id] # Nil
    /\ workers[id] = Nil
    /\ state.query_streams[id].stale

ReapStaleStreams ==
    /\ state' = [state EXCEPT !.query_streams =
                    [id \in StreamId |-> IF Reapable(id) THEN Nil ELSE @[id]]]
    /\ UNCHANGED <<tasks, workers>>

-----------------------------------------------------------------------------
Caller == Session \cup {Nil}

SessionNext ==
    \/ \E s \in Session : \/ RegisterClient(s)
                          \/ RenewClient(s)
                          \/ UnregisterClient(s)
                          \/ LeaseLapses(s)
    \/ \E c \in Caller, r \in BOOLEAN : BeginRequest(c, r)
    \/ DropRequestGuard
    \/ ReapExpiredClients
    \/ IdleTimeoutElapses

SpaceNext ==
    \E c \in Caller, sp \in Space :
        \/ \E i \in Identity : AttachSpace(c, sp, i)
        \/ DetachSpace(c, sp)

BackendNext ==
    \E c \in Caller, sp \in Space, b \in Binding :
        \/ \E r \in SqliteResource, g \in Config : EnableSqlite(c, sp, b, r, g)
        \/ \E r \in LanceResource, g \in Config : EnableLanceDb(c, sp, b, r, g)
        \/ DisableSqlite(c, sp, b)
        \/ DisableLanceDb(c, sp, b)

CallNext ==
    \E t \in Task :
        \/ \E c \in Caller, sp \in Space, b \in Binding :
              \/ SqliteCall(t, c, sp, b)
              \/ LanceDbCall(t, c, sp, b)
        \/ CallReturns(t)

StreamNext ==
    \/ \E t \in Task :
          \/ \E c \in Caller, sp \in Space, b \in Binding : OpenStream(t, c, sp, b)
          \/ InsertStream(t)
          \/ \E c \in Caller, id \in StreamId : CloseStream(t, c, id)
          \/ RemoveStream(t)
    \/ \E c \in Caller, id \in StreamId : UseStream(c, id)
    \/ \E id \in StreamId : StreamCompletes(id) \/ StreamGoesStale(id)
    \/ ReapStaleStreams

Next == SessionNext \/ SpaceNext \/ BackendNext \/ CallNext \/ StreamNext

Spec == Init /\ [][Next]_vars

-----------------------------------------------------------------------------
(* Properties.                                                             *)

TypeOK ==
    /\ state \in ControllerState
    /\ state.next_query_stream_id > 0
    /\ tasks \in [Task -> Job \cup {Nil}]
    /\ workers \in [StreamId -> Backend \cup {Nil}]

WellAttached(st) ==
    /\ \A s \in Session, sp \in Space :
          sp \in st.attached_space_ids[s] <=> s \in st.attached_clients[sp]
    /\ \A s \in Session : st.attached_space_ids[s] # {} => Registered(st, s)
    /\ \A sp \in Space : st.spaces[sp] # Nil <=> st.attached_clients[sp] # {}

WellOwned(st) ==
    /\ \A s \in Session : st.owned_binding_keys[s] =
          {k \in BindingKey : st.bindings[k] # Nil /\ st.bindings[k].owner = s}
    /\ \A k \in BindingKey : st.bindings[k] # Nil =>
          AttachedTo(st, st.bindings[k].owner, k.space)

WellPooled(st) ==
    /\ \A r \in Resource : st.resources[r] =
          {k \in BindingKey : st.bindings[k] # Nil /\ st.bindings[k].resource = r}
    /\ \A r \in Resource :
          /\ st.resource_backends[r] = Nil <=> st.resource_configs[r] = Nil
          /\ st.resource_backends[r] # Nil =>
                /\ st.resources[r] # {}
                /\ st.resource_backends[r].resource = r
                /\ st.resource_backends[r].config = st.resource_configs[r]

\* The two directions of an attachment agree, only registered sessions are
\* attached, and a space is listed exactly while somebody is attached to it:
\* no leftover space keeps a managed controller alive, and the rule that an
\* unattached space is open to everybody never applies.
AttachmentsConsistent == WellAttached(state)

\* Every binding is in the key set of exactly the session that owns it, and
\* that session is registered and attached to the binding's space; so the end
\* of a session finds all it has to release, and detaching cannot strand one.
OwnershipConsistent == WellOwned(state)

\* The resource index holds exactly the bindings of each database, and a
\* pooled backend is of that database, of the recorded configuration, and in
\* use: a backend that nobody is bound to any more has left the pool.
ResourcesConsistent == WellPooled(state)

\* Two bindings of one database share one backend object.  A session that
\* enables its own binding again breaks this.
BackendShared ==
    \A k, l \in BindingKey :
        (/\ state.bindings[k] # Nil
         /\ state.bindings[l] # Nil
         /\ state.bindings[k].resource = state.bindings[l].resource)
        => state.bindings[k].backend = state.bindings[l].backend

\* A query stream in the registry belongs to a registered session.  An open
\* that is overtaken by the end of its session breaks this.
StreamsOwned ==
    \A id \in StreamId : state.query_streams[id] # Nil =>
        Registered(state, state.query_streams[id].owner)

\* A lease that is over is over: no request arriving late brings the session
\* back, because every request prunes before it renews.
LapsedNeverRevived ==
    [][\A s \in Session : state.clients[s] \in {"lapsed", "ended"} =>
          state'.clients[s] \in {state.clients[s], "ended"}]_vars

Ends(s) == Registered(state, s) /\ ~Registered(state', s)

\* The step that ends a session gives back everything it held: attachments,
\* bindings, and every stream registered for it.
SessionEndReclaims ==
    [][\A s \in Session : Ends(s) =>
          /\ state'.attached_space_ids[s] = {}
          /\ \A sp \in Space : s \notin state'.attached_clients[sp]
          /\ \A k \in BindingKey :
                state'.bindings[k] # Nil => state'.bindings[k].owner # s
          /\ \A id \in StreamId :
                state'.query_streams[id] # Nil => state'.query_streams[id].owner # s]_vars

\* The end of sessions takes nothing from the sessions that stay: their
\* bindings keep their backends, and a pooled backend they use stays pooled.
SessionEndSparesOthers ==
    [][(\E s \in Session : Ends(s)) =>
          \A k \in BindingKey :
              (state.bindings[k] # Nil /\ ~Ends(state.bindings[k].owner)) =>
                  LET r == state.bindings[k].resource
                  IN /\ state'.bindings[k] = state.bindings[k]
                     /\ state'.resource_backends[r] = state.resource_backends[r]]_vars

\* A stream disappears only when its owner's session ends, when its owner
\* closes it, or when it is finished and nobody has used it for the threshold:
\* a running query or a slow reader never loses its stream.
StreamRemovalJustified ==
    [][\A id \in StreamId :
          (state.query_streams[id] # Nil /\ state'.query_streams[id] = Nil) =>
              LET owner == state.query_streams[id].owner
              IN \/ Ends(owner)
                 \/ workers[id] = Nil /\ state.query_streams[id].stale
                 \/ \E t \in Task :
                       /\ tasks[t] = [op |-> "close", client |-> owner, stream |-> id]
                       /\ tasks'[t] = Nil]_vars

\* A pooled backend leaves the pool with the last binding of its database, or
\* when the only binding there is is enabled again: no other step makes the
\* next enable open a database that a binding already has open.
PooledWhileBound ==
    [][\A r \in Resource :
          (/\ state.resource_backends[r] # Nil
           /\ state'.resource_backends[r] # state.resource_backends[r]) =>
              \/ state'.resources[r] = {}
              \/ \E k \in BindingKey :
                    state.resources[r] = {k} /\ state'.resources[r] = {k}]_vars

\* The ownership part of the registry implements the abstract registry.
Registry ==
    INSTANCE SessionRegistry WITH
        Slot    <- BindingKey,
        SpaceOf <- [k \in BindingKey |-> k.space],
        Nobody  <- Nil,
        alive   <- {s \in Session : Registered(state, s)},
        past    <- {s \in Session : state.clients[s] = "ended"},
        joined  <- state.attached_space_ids,
        owner   <- [k \in BindingKey |-> IF state.bindings[k] = Nil THEN Nil
                                         ELSE state.bindings[k].owner]

ImplementsRegistry == Registry!Spec
=============================================================================
