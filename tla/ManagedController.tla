-------------------------- MODULE ManagedController --------------------------
(***************************************************************************)
(* The controller process around the registry of ControllerRuntime         *)
(* (controller/src/server.rs and main.rs): the gRPC handlers with their    *)
(* request guards, the maintenance loop that reaps and, in managed mode,   *)
(* decides to stop, and the server that then drains.                       *)
(*                                                                         *)
(* A handler runs from its request guard to its answer.  It does one       *)
(* operation of the registry itself, or hands a SQLite call to the pool of *)
(* blocking threads and waits.  When its client goes away the handler is   *)
(* dropped, and its guard with it; a closure already handed over runs on.  *)
(* Request slot t holds a request and the work tasks[t] it caused.         *)
(***************************************************************************)
EXTENDS ControllerRuntime

CONSTANT Managed    \* the process mode: managed, or a service that never stops

ASSUME ManagedAssumption == Managed \in BOOLEAN
ASSUME TaskAssumption == IsFiniteSet(Task)

VARIABLES
    requests,  \* per slot: the request being served there, or Nil
    loop,      \* what the maintenance loop does next
    server,    \* the gRPC server
    hostsGone  \* the hosts have vanished: no request arrives any more

processVars == <<requests, loop, server, hostsGone>>
managedVars == <<state, tasks, workers, requests, loop, server, hostsGone>>

\* "begun" and "diagnosing": the guard is taken, nothing done yet; "blocking":
\* the closure waits for a thread; "running": it is on one; "inline": the
\* handler itself is in the middle of the call; "done": only the answer is left.
Phase   == {"begun", "diagnosing", "blocking", "running", "inline", "done"}
Request == [client : Caller, phase : Phase, guarded : BOOLEAN]

ASSUME NilRequestAssumption == Nil \notin Request

ManagedInit ==
    /\ Init
    /\ requests = [t \in Task |-> Nil]
    /\ loop = "reap"
    /\ server = "serving"
    /\ hostsGone = FALSE

In(t, phase) == requests[t] # Nil /\ requests[t].phase = phase

To(t, phase) ==
    /\ requests' = [requests EXCEPT ![t].phase = phase]
    /\ UNCHANGED <<loop, server, hostsGone>>

-----------------------------------------------------------------------------
(* Handlers.                                                               *)

\* A diagnostic request takes its guard without client and without activity.
Accept(t, c, recordActivity) ==
    /\ server = "serving"
    /\ ~hostsGone
    /\ requests[t] = Nil
    /\ recordActivity \/ c = Nil
    /\ BeginRequest(c, recordActivity)
    /\ requests' = [requests EXCEPT ![t] =
                      [client |-> c, guarded |-> TRUE,
                       phase |-> IF recordActivity THEN "begun" ELSE "diagnosing"]]
    /\ UNCHANGED <<loop, server, hostsGone>>

Diagnose(t) ==
    /\ In(t, "diagnosing")
    /\ ReapExpiredClients
    /\ To(t, "done")

\* Refused before anything is done, or by a check that changes nothing.
Refuse(t) ==
    /\ In(t, "begun")
    /\ To(t, "done")
    /\ UNCHANGED vars

SessionOperation(c) ==
    \/ c = Nil /\ \E s \in Session : RegisterClient(s)
    \/ c # Nil /\ (RenewClient(c) \/ UnregisterClient(c))

SpaceOperation(c) ==
    \E sp \in Space :
        \/ \E i \in Identity : AttachSpace(c, sp, i)
        \/ DetachSpace(c, sp)

BackendOperation(c) ==
    \E sp \in Space, b \in Binding :
        \/ \E r \in SqliteResource, g \in Config : EnableSqlite(c, sp, b, r, g)
        \/ \E r \in LanceResource, g \in Config : EnableLanceDb(c, sp, b, r, g)
        \/ DisableSqlite(c, sp, b)
        \/ DisableLanceDb(c, sp, b)

Operate(t) ==
    /\ In(t, "begun")
    /\ \/ SessionOperation(requests[t].client)
       \/ SpaceOperation(requests[t].client)
       \/ BackendOperation(requests[t].client)
    /\ To(t, "done")

\* Bound: an open is only begun while a stream identifier is left for it.
StreamIdLeft ==
    state.next_query_stream_id
      + Cardinality({t \in Task : tasks[t] # Nil /\ tasks[t].op = "open"}) <= MaxStreams

\* LanceDB calls and the opening of a stream happen inside the handler: when
\* the handler is dropped, the call is over before the guard is.
BeginInline(t) ==
    /\ In(t, "begun")
    /\ \E sp \in Space, b \in Binding :
          \/ LanceDbCall(t, requests[t].client, sp, b)
          \/ StreamIdLeft /\ OpenStream(t, requests[t].client, sp, b)
    /\ To(t, "inline")

EndInline(t) ==
    /\ In(t, "inline")
    /\ CallReturns(t) \/ InsertStream(t)
    /\ To(t, "done")

Submit(t) ==
    /\ In(t, "begun")
    /\ To(t, "blocking")
    /\ UNCHANGED vars

\* The first critical section of the closure; its access check may refuse.
StartBlocking(t) ==
    /\ In(t, "blocking")
    /\ \/ /\ \/ \E sp \in Space, b \in Binding : SqliteCall(t, requests[t].client, sp, b)
             \/ \E id \in StreamId : CloseStream(t, requests[t].client, id)
             \/ \E id \in StreamId : UseStream(requests[t].client, id)
          /\ To(t, "running")
       \/ To(t, "done") /\ UNCHANGED vars

EndBlocking(t) ==
    /\ In(t, "running")
    /\ \/ CallReturns(t)
       \/ RemoveStream(t)
       \/ tasks[t] = Nil /\ UNCHANGED vars
    /\ To(t, "done")

\* The answer is sent; the slot of a dropped handler has no guard left.
Finish(t) ==
    /\ In(t, "done")
    /\ IF requests[t].guarded THEN DropRequestGuard ELSE UNCHANGED vars
    /\ requests' = [requests EXCEPT ![t] = Nil]
    /\ UNCHANGED <<loop, server, hostsGone>>

\* Faulty: the guard stays behind with the closure, which does not drop it.
CancelLeavingGuard(t) ==
    /\ In(t, "blocking") \/ In(t, "running")
    /\ requests[t].guarded
    /\ requests' = [requests EXCEPT ![t].guarded = FALSE]
    /\ UNCHANGED <<state, tasks, workers, loop, server, hostsGone>>

\* The client goes away while the handler waits for its closure.
Cancel(t) ==
    /\ In(t, "blocking") \/ In(t, "running")
    /\ requests[t].guarded
    /\ DropRequestGuard
    /\ requests' = [requests EXCEPT ![t].guarded = FALSE]
    /\ UNCHANGED <<loop, server, hostsGone>>

HandlerStep(t) ==
    \/ Diagnose(t) \/ Refuse(t) \/ Operate(t)
    \/ BeginInline(t) \/ EndInline(t)
    \/ Submit(t) \/ StartBlocking(t) \/ EndBlocking(t)
    \/ Finish(t)

-----------------------------------------------------------------------------
(* The maintenance loop and the server.                                    *)

NobodyAttached(st) ==
    \A sp \in Space : st.spaces[sp] # Nil =>
        /\ st.attached_clients[sp] = {}
        /\ \A k \in BindingKey : k.space = sp => st.bindings[k] = Nil

\* Faulty: requests in flight are not counted.
ShouldShutdownDespiteRequests(st) ==
    /\ Managed
    /\ \A s \in Session : ~Registered(st, s)
    /\ \A id \in StreamId : st.query_streams[id] = Nil
    /\ NobodyAttached(st)
    /\ ~st.recent_request

\* The idle timeout is at least the minimum uptime (cli.rs validates it), so
\* an idle window that has passed implies the uptime the code also asks for.
ShouldShutdown(st) ==
    /\ Managed
    /\ \A s \in Session : ~Registered(st, s)
    /\ st.inflight_requests = 0
    /\ \A id \in StreamId : st.query_streams[id] = Nil
    /\ NobodyAttached(st)
    /\ ~st.recent_request

ReapSessions ==
    /\ loop = "reap"
    /\ ReapExpiredClients
    /\ loop' = "streams"
    /\ UNCHANGED <<requests, server, hostsGone>>

\* Faulty: the loop does not look at the streams.
ReapStreamsNot ==
    /\ loop = "streams"
    /\ loop' = IF Managed THEN "decide" ELSE "reap"
    /\ UNCHANGED <<state, tasks, workers, requests, server, hostsGone>>

ReapStreams ==
    /\ loop = "streams"
    /\ ReapStaleStreams
    /\ loop' = IF Managed THEN "decide" ELSE "reap"
    /\ UNCHANGED <<requests, server, hostsGone>>

\* should_shutdown prunes once more, then looks.
Decide ==
    /\ loop = "decide"
    /\ ReapExpiredClients
    /\ loop' = IF ShouldShutdown(PruneExpired(state)) THEN "stopped" ELSE "reap"
    /\ UNCHANGED <<requests, server, hostsGone>>

MaintenanceStep == ReapSessions \/ ReapStreams \/ Decide

\* The server learns of the decision and stops accepting.
ShutdownSignal ==
    /\ server = "serving"
    /\ loop = "stopped"
    /\ server' = "draining"
    /\ UNCHANGED <<state, tasks, workers, requests, loop, hostsGone>>

CtrlC ==
    /\ server = "serving"
    /\ server' = "draining"
    /\ UNCHANGED <<state, tasks, workers, requests, loop, hostsGone>>

\* The handlers are awaited by the drain, the closures that run by the end of
\* the async runtime; closures still waiting for a thread are dropped.
Exit ==
    /\ server = "draining"
    /\ \A t \in Task : requests[t] # Nil => In(t, "blocking") /\ ~requests[t].guarded
    /\ server' = "exited"
    /\ UNCHANGED <<state, tasks, workers, requests, loop, hostsGone>>

-----------------------------------------------------------------------------
(* Clocks, producer threads and hosts.                                     *)

Environment ==
    /\ \/ \E s \in Session : LeaseLapses(s)
       \/ IdleTimeoutElapses
       \/ \E id \in StreamId : StreamCompletes(id) \/ StreamGoesStale(id)
    /\ UNCHANGED processVars

HostsVanish ==
    /\ ~hostsGone
    /\ hostsGone' = TRUE
    /\ UNCHANGED <<state, tasks, workers, requests, loop, server>>

ManagedNext ==
    /\ server # "exited"
    /\ \/ \E t \in Task :
             \/ \E c \in Caller, recordActivity \in BOOLEAN : Accept(t, c, recordActivity)
             \/ HandlerStep(t)
             \/ Cancel(t)
       \/ MaintenanceStep
       \/ ShutdownSignal \/ CtrlC \/ Exit
       \/ Environment
       \/ HostsVanish

ManagedSpec == ManagedInit /\ [][ManagedNext]_managedVars

\* While the process runs: handlers, closures, producers and the loop go on,
\* the server takes the signal, and time passes for what hosts left behind.
Live(A) == server # "exited" /\ A

AfterHosts(A) == hostsGone /\ A /\ UNCHANGED processVars

\* Nobody can use, and so refresh, the stream any more.
AbandonedGoesStale(id) ==
    /\ state.query_streams[id] # Nil
    /\ hostsGone \/ ~Registered(state, state.query_streams[id].owner)
    /\ StreamGoesStale(id)
    /\ UNCHANGED processVars

ManagedFairness ==
    /\ \A t \in Task : WF_managedVars(Live(HandlerStep(t)))
    /\ WF_managedVars(Live(MaintenanceStep))
    /\ WF_managedVars(Live(ShutdownSignal))
    /\ WF_managedVars(Live(Exit))
    /\ \A id \in StreamId :
          /\ WF_managedVars(Live(StreamCompletes(id) /\ UNCHANGED processVars))
          /\ WF_managedVars(Live(AbandonedGoesStale(id)))
    /\ \A s \in Session : WF_managedVars(Live(AfterHosts(LeaseLapses(s))))
    /\ WF_managedVars(Live(AfterHosts(IdleTimeoutElapses)))

FairManagedSpec == ManagedSpec /\ ManagedFairness

-----------------------------------------------------------------------------
(* Properties.                                                             *)

ManagedTypeOK ==
    /\ requests \in [Task -> Request \cup {Nil}]
    /\ loop \in {"reap", "streams", "decide", "stopped"}
    /\ server \in {"serving", "draining", "exited"}
    /\ hostsGone \in BOOLEAN

Guarded == {t \in Task : requests[t] # Nil /\ requests[t].guarded}

\* The counter the shutdown decision reads is the number of handlers that are
\* alive, however they end: answered, refused, or dropped with their client
\* while their closure runs on.
InflightExact == state.inflight_requests = Cardinality(Guarded)

\* The controller decides to stop only when no handler is alive, nothing is
\* left in the pool, in the bindings, in the spaces or among the streams, and
\* no session is registered, those with a lease that is over included.
DecisionUnused ==
    [][(loop = "decide" /\ loop' = "stopped") =>
          /\ Guarded = {}
          /\ \A s \in Session : ~Registered(state', s)
          /\ \A sp \in Space : state'.spaces[sp] = Nil
          /\ \A k \in BindingKey : state'.bindings[k] = Nil
          /\ \A r \in Resource : state'.resource_backends[r] = Nil
          /\ \A id \in StreamId : state'.query_streams[id] = Nil]_managedVars

\* Whatever the hosts do, a session whose lease is over is removed, unless the
\* process is gone first.
LapsedEventuallyEnds ==
    \A s \in Session :
        state.clients[s] = "lapsed" ~> (state.clients[s] = "ended" \/ server = "exited")

\* A stream whose owner is gone (see StreamsOwned) does not stay for ever.
OrphanStreamsReclaimed ==
    \A id \in StreamId :
        (state.query_streams[id] # Nil /\ ~Registered(state, state.query_streams[id].owner))
            ~> (state.query_streams[id] = Nil \/ server = "exited")

\* Whatever hosts leave behind when they vanish, a managed controller stops.
DesertedStops == Managed => (hostsGone ~> server = "exited")

\* A controller that stopped by its own decision leaves no session behind.  A
\* registration accepted between the decision and the signal breaks this.
StopsUnused ==
    (server = "exited" /\ loop = "stopped") =>
        \A s \in Session : ~Registered(state, s)
=============================================================================
