----------------------- MODULE ManagedControllerProofs -----------------------
(***************************************************************************)
(* Proofs about ManagedController: it is the controller of                 *)
(* ControllerRuntime with fewer behaviours, it counts its handlers         *)
(* exactly, and it decides to stop only when nothing is left.              *)
(***************************************************************************)
EXTENDS ManagedController, ControllerRuntimeStepProofs, FiniteSetTheorems

\* Handler slots, loop and server keep their types in every step.
LEMMA ManagedTypeStep ==
    ASSUME ManagedTypeOK, [ManagedNext]_managedVars
    PROVE  ManagedTypeOK'
<1> USE DEF ManagedTypeOK
<1>1. ASSUME NEW t \in Task, NEW phase \in Phase, In(t, phase),
             NEW next \in Phase, To(t, next)
      PROVE  ManagedTypeOK'
  BY <1>1, NilRequestAssumption DEF In, To, Request
<1>2. ASSUME NEW t \in Task, HandlerStep(t)
      PROVE  ManagedTypeOK'
  <2>1. CASE \E p, q \in Phase : In(t, p) /\ To(t, q)
    BY <2>1, <1>1
  <2>2. CASE Finish(t)
    BY <2>2 DEF Finish
  <2> QED BY <1>2, <2>1, <2>2
          DEF HandlerStep, Diagnose, Refuse, Operate, BeginInline, EndInline, Submit,
              StartBlocking, EndBlocking, Phase
<1>3. ASSUME NEW t \in Task, NEW c \in Caller, NEW r \in BOOLEAN, Accept(t, c, r)
      PROVE  ManagedTypeOK'
  <2>1. [client |-> c, guarded |-> TRUE, phase |-> IF r THEN "begun" ELSE "diagnosing"]
           \in Request
    BY DEF Request, Phase
  <2> QED BY <1>3, <2>1 DEF Accept
<1>4. ASSUME NEW t \in Task, Cancel(t)
      PROVE  ManagedTypeOK'
  <2>1. requests[t] \in Request
    BY <1>4 DEF Cancel, In
  <2>2. [requests[t] EXCEPT !.guarded = FALSE] \in Request
    BY <2>1 DEF Request
  <2> QED BY <1>4, <2>2 DEF Cancel
<1>5. CASE MaintenanceStep \/ ShutdownSignal \/ CtrlC \/ Exit \/ Environment \/ HostsVanish
  BY <1>5 DEF MaintenanceStep, ReapSessions, ReapStreams, Decide, ShutdownSignal, CtrlC,
              Exit, Environment, HostsVanish, processVars
<1>6. CASE UNCHANGED managedVars
  BY <1>6 DEF managedVars
<1> QED BY <1>2, <1>3, <1>4, <1>5, <1>6 DEF ManagedNext

-----------------------------------------------------------------------------
(* The registry under its handlers.                                        *)

\* An operation of a handler is a step of the registry.
LEMMA OperationRefines ==
    ASSUME NEW c \in Caller,
           SessionOperation(c) \/ SpaceOperation(c) \/ BackendOperation(c)
    PROVE  Next
<1>1. CASE SessionOperation(c)
  BY <1>1 DEF SessionOperation, Caller, Next, SessionNext
<1>2. CASE SpaceOperation(c)
  BY <1>2 DEF SpaceOperation, Next, SpaceNext
<1>3. CASE BackendOperation(c)
  BY <1>3 DEF BackendOperation, Next, BackendNext
<1> QED BY <1>1, <1>2, <1>3

\* Every step of a handler is a step of the registry or leaves it alone.
LEMMA HandlerRefines ==
    ASSUME ManagedTypeOK, NEW t \in Task, HandlerStep(t)
    PROVE  [Next]_vars
<1>1. CASE Diagnose(t)
  BY <1>1 DEF Diagnose, Next, SessionNext
<1>2. CASE Refuse(t) \/ Submit(t)
  BY <1>2 DEF Refuse, Submit
<1>3. CASE Finish(t)
  BY <1>3 DEF Finish, Next, SessionNext
<1>4. ASSUME requests[t] # Nil
      PROVE  requests[t].client \in Caller
  BY <1>4 DEF ManagedTypeOK, Request
<1>5. CASE Operate(t)
  <2>1. requests[t].client \in Caller
    BY <1>4, <1>5 DEF Operate, In
  <2> QED BY <1>5, <2>1, OperationRefines DEF Operate
<1>6. CASE BeginInline(t)
  <2>1. requests[t].client \in Caller
    BY <1>4, <1>6 DEF BeginInline, In
  <2>2. PICK sp \in Space, b \in Binding :
           \/ LanceDbCall(t, requests[t].client, sp, b)
           \/ OpenStream(t, requests[t].client, sp, b)
    BY <1>6 DEF BeginInline
  <2> QED BY <2>1, <2>2 DEF Next, CallNext, StreamNext
<1>7. CASE EndInline(t)
  BY <1>7 DEF EndInline, Next, CallNext, StreamNext
<1>8. CASE StartBlocking(t)
  <2>1. requests[t].client \in Caller
    BY <1>4, <1>8 DEF StartBlocking, In
  <2>2. CASE \E sp \in Space, b \in Binding : SqliteCall(t, requests[t].client, sp, b)
    BY <2>1, <2>2 DEF Next, CallNext
  <2>3. CASE \E id \in StreamId : CloseStream(t, requests[t].client, id)
    BY <2>1, <2>3 DEF Next, StreamNext
  <2>4. CASE \E id \in StreamId : UseStream(requests[t].client, id)
    BY <2>1, <2>4 DEF Next, StreamNext
  <2>5. CASE UNCHANGED vars
    BY <2>5
  <2> QED BY <1>8, <2>2, <2>3, <2>4, <2>5 DEF StartBlocking
<1>9. CASE EndBlocking(t)
  BY <1>9 DEF EndBlocking, Next, CallNext, StreamNext
<1> QED BY <1>1, <1>2, <1>3, <1>5, <1>6, <1>7, <1>8, <1>9 DEF HandlerStep

\* Every step of the process is a step of the registry or leaves it alone.
LEMMA ProcessRefines ==
    ASSUME ManagedTypeOK, [ManagedNext]_managedVars
    PROVE  [Next]_vars
<1>1. ASSUME NEW t \in Task, NEW c \in Caller, NEW r \in BOOLEAN, Accept(t, c, r)
      PROVE  [Next]_vars
  BY <1>1 DEF Accept, Next, SessionNext
<1>2. ASSUME NEW t \in Task, Cancel(t)
      PROVE  [Next]_vars
  BY <1>2 DEF Cancel, Next, SessionNext
<1>3. CASE MaintenanceStep
  BY <1>3 DEF MaintenanceStep, ReapSessions, ReapStreams, Decide, Next, SessionNext, StreamNext
<1>4. CASE ShutdownSignal \/ CtrlC \/ Exit \/ HostsVanish
  BY <1>4 DEF ShutdownSignal, CtrlC, Exit, HostsVanish, vars
<1>5. CASE Environment
  BY <1>5 DEF Environment, Next, SessionNext, StreamNext
<1>6. CASE UNCHANGED managedVars
  BY <1>6 DEF managedVars, vars
<1> QED BY <1>1, <1>2, <1>3, <1>4, <1>5, <1>6, HandlerRefines DEF ManagedNext

-----------------------------------------------------------------------------
(* The request counter.                                                    *)

\* The end of sessions does not touch the counter.
LEMMA RemoveClientsInflight ==
    ASSUME NEW st, Consistent(st), NEW S \in SUBSET Session
    PROVE  RemoveClients(st, S).inflight_requests = st.inflight_requests
<1>1. CASE Ended(st, S) = {}
  BY <1>1, RemoveClientsNone
<1>2. CASE Ended(st, S) # {}
  BY <1>2, RemoveClientsFields DEF ClientsRemoved
<1> QED BY <1>1, <1>2

\* Nor does the pruning a request begins with; it leaves the books right.
LEMMA PruneInflight ==
    ASSUME NEW st, Consistent(st)
    PROVE  /\ Consistent(PruneExpired(st))
           /\ PruneExpired(st) \in ControllerState
           /\ PruneExpired(st).inflight_requests = st.inflight_requests
BY PruneExpiredConsistent, RemoveClientsInflight DEF PruneExpired, Consistent

LeavesCounter == state'.inflight_requests = state.inflight_requests

\* Registering, renewing and ending sessions leave the counter alone.
LEMMA SessionCounter ==
    ASSUME Inv, NEW c \in Caller, SessionOperation(c)
    PROVE  LeavesCounter
<1> DEFINE st == PruneExpired(state)
<1>1. /\ Consistent(st)
      /\ st \in ControllerState
      /\ st.inflight_requests = state.inflight_requests
  BY PruneInflight DEF Inv
<1> HIDE DEF st
<1>2. ASSUME NEW s \in Session, RegisterClient(s)
      PROVE  LeavesCounter
  <2>1. state' = [st EXCEPT !.clients[s] = "live"]
    BY <1>2 DEF RegisterClient, st
  <2> QED BY <1>1, <2>1 DEF LeavesCounter, ControllerState
<1>3. CASE RenewClient(c)
  <2>1. state' = RenewLease(st, c)
    BY <1>3 DEF RenewClient, st
  <2> QED BY <1>1, <2>1 DEF LeavesCounter, RenewLease, ControllerState
<1>4. CASE c # Nil /\ UnregisterClient(c)
  <2>1. state' = RemoveClients(st, {c}) /\ c \in Session
    BY <1>4 DEF UnregisterClient, Caller, st
  <2> QED BY <1>1, <2>1, RemoveClientsInflight DEF LeavesCounter
<1> QED BY <1>2, <1>3, <1>4 DEF SessionOperation

\* So do attaching and detaching.
LEMMA SpaceCounter ==
    ASSUME Inv, NEW c \in Caller, SpaceOperation(c)
    PROVE  LeavesCounter
<1> DEFINE st == PruneExpired(state)
<1>1. /\ st \in ControllerState
      /\ st.inflight_requests = state.inflight_requests
  BY PruneInflight DEF Inv
<1> HIDE DEF st
<1>2. PICK sp \in Space :
         (\E i \in Identity : AttachSpace(c, sp, i)) \/ DetachSpace(c, sp)
  BY DEF SpaceOperation
<1>3. ASSUME NEW i \in Identity, AttachSpace(c, sp, i)
      PROVE  LeavesCounter
  <2>1. state' = st \/ state' = Attach(st, c, sp, i)
    BY <1>3 DEF AttachSpace, st
  <2> QED BY <1>1, <2>1 DEF LeavesCounter, Attach, ControllerState
<1>4. CASE DetachSpace(c, sp)
  <2>1. state' = st \/ state' = RemoveSpace(st, sp) \/ state' = Detach(st, c, sp)
    BY <1>4 DEF DetachSpace, st
  <2> QED BY <1>1, <2>1 DEF LeavesCounter, Detach, RemoveSpace, ControllerState
<1> QED BY <1>2, <1>3, <1>4

\* So do enabling and disabling.
LEMMA BackendCounter ==
    ASSUME Inv, NEW c \in Caller, BackendOperation(c)
    PROVE  LeavesCounter
<1>1. state \in ControllerState
  BY DEF Inv, Consistent
<1>2. ASSUME NEW k \in BindingKey, Disable(c, k)
      PROVE  LeavesCounter
  BY <1>1, <1>2, RemoveBindingsFields DEF Disable, SameRequests, LeavesCounter
<1>3. ASSUME NEW k \in BindingKey, NEW r \in Resource, NEW config \in Config,
             Enable(c, k, r, config)
      PROVE  LeavesCounter
  <2>1. PICK b \in BackendForEnable(r, config) :
           state' = Bind(PoolBackend(state, b), k,
                         [owner |-> c, resource |-> r, backend |-> b])
    BY <1>3 DEF Enable
  <2> DEFINE entry == [owner |-> c, resource |-> r, backend |-> b]
             placed == [PoolBackend(state, b) EXCEPT !.bindings[k] = entry]
  <2>2. placed.inflight_requests = state.inflight_requests
    BY <1>1 DEF PoolBackend, ControllerState
  <2>3. state'.inflight_requests = placed.inflight_requests
    BY <1>1, <2>1 DEF Bind, TrackBinding, UntrackBindings, PoolBackend, ControllerState
  <2> QED BY <2>2, <2>3 DEF LeavesCounter
<1>4. \A kind \in Kind, sp \in Space, b \in Binding : Key(kind, sp, b) \in BindingKey
  BY DEF Key, BindingKey
<1> QED BY <1>2, <1>3, <1>4
        DEF BackendOperation, EnableSqlite, EnableLanceDb, DisableSqlite, DisableLanceDb,
            Kind, Resource

\* Calls and streams live outside the counter, and so does what else happens.
LEMMA StreamCounter ==
    ASSUME Inv,
           \/ CallNext
           \/ StreamNext
           \/ ReapExpiredClients
           \/ IdleTimeoutElapses
           \/ \E s \in Session : LeaseLapses(s)
           \/ UNCHANGED vars
    PROVE  LeavesCounter
<1> USE DEF LeavesCounter
<1>1. state \in ControllerState
  BY DEF Inv, Consistent
<1>2. CASE CallNext
  BY <1>2 DEF CallNext, SqliteCall, LanceDbCall, CallReturns
<1>3. CASE StreamNext
  BY <1>1, <1>3
     DEF StreamNext, OpenStream, InsertStream, CloseStream, RemoveStream, UseStream,
         StreamCompletes, StreamGoesStale, ReapStaleStreams, Touched, ControllerState
<1>4. CASE ReapExpiredClients
  BY <1>4, PruneInflight DEF ReapExpiredClients, Inv
<1>5. CASE IdleTimeoutElapses \/ \E s \in Session : LeaseLapses(s)
  BY <1>1, <1>5 DEF IdleTimeoutElapses, LeaseLapses, ControllerState
<1>6. CASE UNCHANGED vars
  BY <1>6 DEF vars
<1> QED BY <1>2, <1>3, <1>4, <1>5, <1>6

-----------------------------------------------------------------------------
(* The counter against the handlers.                                       *)

\* Counter and handlers stay in step when neither changes, when a handler and
\* its guard come, and when they go.
LEMMA GuardedStep ==
    ASSUME InflightExact, NEW t \in Task,
           \/ LeavesCounter /\ Guarded' = Guarded
           \/ /\ t \notin Guarded
              /\ Guarded' = Guarded \cup {t}
              /\ state'.inflight_requests = state.inflight_requests + 1
           \/ /\ t \in Guarded
              /\ Guarded' = Guarded \ {t}
              /\ state'.inflight_requests = state.inflight_requests - 1
    PROVE  InflightExact'
<1>1. Guarded \subseteq Task /\ IsFiniteSet(Guarded)
  BY TaskAssumption, FS_Subset DEF Guarded
<1>2. /\ Cardinality(Guarded \cup {t}) =
            IF t \in Guarded THEN Cardinality(Guarded) ELSE Cardinality(Guarded) + 1
      /\ Cardinality(Guarded \ {t}) =
            IF t \in Guarded THEN Cardinality(Guarded) - 1 ELSE Cardinality(Guarded)
  BY <1>1, FS_AddElement, FS_RemoveElement
<1> QED BY <1>2 DEF InflightExact, LeavesCounter

\* A handler that goes on keeps its guard.
LEMMA GuardedTo ==
    ASSUME ManagedTypeOK, NEW t \in Task, NEW p \in Phase, NEW q \in Phase,
           In(t, p), To(t, q)
    PROVE  Guarded' = Guarded
<1>1. requests[t] \in Request
  BY DEF In, ManagedTypeOK
<1>2. /\ [requests[t] EXCEPT !.phase = q] \in Request
      /\ [requests[t] EXCEPT !.phase = q].guarded = requests[t].guarded
  BY <1>1 DEF Request
<1>3. requests' = [requests EXCEPT ![t] = [requests[t] EXCEPT !.phase = q]]
  BY DEF To
<1> QED BY <1>1, <1>2, <1>3, NilRequestAssumption DEF Guarded, ManagedTypeOK, In

\* A guard that is dropped takes one from the counter.
LEMMA DropCounts ==
    ASSUME Inv, DropRequestGuard
    PROVE  state'.inflight_requests = state.inflight_requests - 1
BY DEF DropRequestGuard, Inv, Consistent, ControllerState

\* One step of a handler, the end of it included.
LEMMA HandlerCounts ==
    ASSUME Inv, ManagedTypeOK, InflightExact, NEW t \in Task, HandlerStep(t)
    PROVE  InflightExact'
<1>1. CASE Finish(t)
  <2>1. requests[t] \in Request
    BY <1>1 DEF Finish, In, ManagedTypeOK
  <2>2. requests' = [requests EXCEPT ![t] = Nil]
    BY <1>1 DEF Finish
  <2>3. CASE requests[t].guarded
    <3>1. t \in Guarded /\ Guarded' = Guarded \ {t}
      BY <1>1, <2>2, <2>3 DEF Guarded, ManagedTypeOK, Finish, In
    <3>2. state'.inflight_requests = state.inflight_requests - 1
      BY <1>1, <2>3, DropCounts DEF Finish
    <3> QED BY <3>1, <3>2, GuardedStep
  <2>4. CASE ~requests[t].guarded
    <3>1. Guarded' = Guarded
      BY <2>2, <2>4 DEF Guarded, ManagedTypeOK
    <3>2. LeavesCounter
      BY <1>1, <2>4 DEF Finish, vars, LeavesCounter
    <3> QED BY <3>1, <3>2, GuardedStep
  <2> QED BY <2>3, <2>4
<1>2. CASE ~Finish(t)
  <2>1. Guarded' = Guarded
    BY <1>2, GuardedTo
       DEF HandlerStep, Diagnose, Refuse, Operate, BeginInline, EndInline, Submit,
           StartBlocking, EndBlocking, Phase
  <2>2. requests[t] # Nil => requests[t].client \in Caller
    BY DEF ManagedTypeOK, Request
  <2>3. LeavesCounter
    <3>1. CASE Operate(t)
      BY <2>2, <3>1, SessionCounter, SpaceCounter, BackendCounter DEF Operate, In
    <3>2. CASE Diagnose(t)
      BY <3>2, StreamCounter DEF Diagnose
    <3>3. CASE Refuse(t) \/ Submit(t)
      BY <3>3, StreamCounter DEF Refuse, Submit
    <3>4. CASE BeginInline(t)
      BY <2>2, <3>4, StreamCounter DEF BeginInline, In, CallNext, StreamNext
    <3>5. CASE EndInline(t)
      BY <3>5, StreamCounter DEF EndInline, CallNext, StreamNext
    <3>6. CASE StartBlocking(t)
      BY <2>2, <3>6, StreamCounter DEF StartBlocking, In, CallNext, StreamNext
    <3>7. CASE EndBlocking(t)
      BY <3>7, StreamCounter DEF EndBlocking, CallNext, StreamNext
    <3> QED BY <1>2, <3>1, <3>2, <3>3, <3>4, <3>5, <3>6, <3>7 DEF HandlerStep
  <2> QED BY <2>1, <2>3, GuardedStep
<1> QED BY <1>1, <1>2

\* One step of the process.
LEMMA ProcessCounts ==
    ASSUME Inv, ManagedTypeOK, InflightExact, [ManagedNext]_managedVars
    PROVE  InflightExact'
<1>1. ASSUME NEW t \in Task, NEW c \in Caller, NEW r \in BOOLEAN, Accept(t, c, r)
      PROVE  InflightExact'
  <2> DEFINE st == PruneExpired(state)
             new == [client |-> c, guarded |-> TRUE,
                     phase |-> IF r THEN "begun" ELSE "diagnosing"]
  <2>1. /\ st \in ControllerState
        /\ st.inflight_requests = state.inflight_requests
    BY PruneInflight DEF Inv
  <2>2. state' = [RenewLease(st, c) EXCEPT !.inflight_requests = @ + 1,
                                           !.recent_request = @ \/ r]
    BY <1>1 DEF Accept, BeginRequest
  <2> HIDE DEF st
  <2>3. state'.inflight_requests = state.inflight_requests + 1
    BY <2>1, <2>2 DEF RenewLease, ControllerState
  <2>4. new \in Request /\ new.guarded
    BY DEF Request, Phase
  <2>5. requests' = [requests EXCEPT ![t] = new] /\ requests[t] = Nil
    BY <1>1 DEF Accept
  <2> HIDE DEF new
  <2>6. t \notin Guarded /\ Guarded' = Guarded \cup {t}
    BY <2>4, <2>5, NilRequestAssumption DEF Guarded, ManagedTypeOK
  <2> QED BY <2>3, <2>6, GuardedStep
<1>2. ASSUME NEW t \in Task, Cancel(t)
      PROVE  InflightExact'
  <2> DEFINE new == [requests[t] EXCEPT !.guarded = FALSE]
  <2>1. requests[t] \in Request /\ requests[t].guarded
    BY <1>2 DEF Cancel, In, ManagedTypeOK
  <2>2. new \in Request /\ ~new.guarded
    BY <2>1 DEF Request
  <2>3. requests' = [requests EXCEPT ![t] = new]
    BY <1>2 DEF Cancel
  <2> HIDE DEF new
  <2>4. t \in Guarded /\ Guarded' = Guarded \ {t}
    BY <2>1, <2>2, <2>3, NilRequestAssumption DEF Guarded, ManagedTypeOK
  <2>5. state'.inflight_requests = state.inflight_requests - 1
    BY <1>2, DropCounts DEF Cancel
  <2> QED BY <2>4, <2>5, GuardedStep
<1>3. CASE \/ MaintenanceStep \/ ShutdownSignal \/ CtrlC \/ Exit
           \/ Environment \/ HostsVanish \/ UNCHANGED managedVars
  <2>1. Guarded' = Guarded
    BY <1>3 DEF MaintenanceStep, ReapSessions, ReapStreams, Decide, ShutdownSignal, CtrlC,
                Exit, Environment, HostsVanish, processVars, managedVars, Guarded
  <2>2. LeavesCounter
    BY <1>3, StreamCounter
       DEF MaintenanceStep, ReapSessions, ReapStreams, Decide, ShutdownSignal, CtrlC, Exit,
           Environment, HostsVanish, managedVars, vars, StreamNext
  <2> QED BY <2>1, <2>2 DEF InflightExact, LeavesCounter
<1> QED BY <1>1, <1>2, <1>3, HandlerCounts DEF ManagedNext

-----------------------------------------------------------------------------
(* The decision to stop.                                                   *)

\* Without sessions the books are empty.
LEMMA NobodyNothing ==
    ASSUME NEW st, Consistent(st), \A s \in Session : ~Registered(st, s)
    PROVE  /\ \A sp \in Space : st.spaces[sp] = Nil
           /\ \A k \in BindingKey : st.bindings[k] = Nil
           /\ \A r \in Resource : st.resource_backends[r] = Nil
<1>1. \A sp \in Space : st.attached_clients[sp] = {}
  BY DEF Consistent, WellAttached, ControllerState
<1>2. \A sp \in Space : st.spaces[sp] = Nil
  BY <1>1 DEF Consistent, WellAttached
<1>3. \A k \in BindingKey : st.bindings[k] = Nil
  BY BindingsPlaced
<1>4. \A r \in Resource : st.resource_backends[r] = Nil
  BY <1>3 DEF Consistent, WellPooled
<1> QED BY <1>2, <1>3, <1>4

\* What the loop finds when it decides to stop.
LEMMA DecisionStep ==
    ASSUME Inv, InflightExact, [ManagedNext]_managedVars,
           loop = "decide", loop' = "stopped"
    PROVE  /\ Guarded = {}
           /\ \A s \in Session : ~Registered(state', s)
           /\ \A sp \in Space : state'.spaces[sp] = Nil
           /\ \A k \in BindingKey : state'.bindings[k] = Nil
           /\ \A r \in Resource : state'.resource_backends[r] = Nil
           /\ \A id \in StreamId : state'.query_streams[id] = Nil
<1>1. Decide
  <2>1. loop' # loop
    OBVIOUS
  <2>2. ~(\E t \in Task : \/ \E c \in Caller, r \in BOOLEAN : Accept(t, c, r)
                        \/ HandlerStep(t)
                        \/ Cancel(t))
    BY <2>1 DEF Accept, Cancel, HandlerStep, Diagnose, Refuse, Operate, BeginInline, EndInline,
                Submit, StartBlocking, EndBlocking, Finish, To
  <2> QED BY <2>1, <2>2
          DEF ManagedNext, managedVars, MaintenanceStep, ReapSessions, ReapStreams,
              ShutdownSignal, CtrlC, Exit, Environment, HostsVanish, processVars
<1>2. /\ state' = PruneExpired(state)
      /\ ShouldShutdown(PruneExpired(state))
  BY <1>1 DEF Decide, ReapExpiredClients
<1>3. /\ Consistent(state')
      /\ state'.inflight_requests = state.inflight_requests
  BY <1>2, PruneInflight DEF Inv
<1>4. /\ \A s \in Session : ~Registered(state', s)
      /\ \A id \in StreamId : state'.query_streams[id] = Nil
      /\ state.inflight_requests = 0
  BY <1>2, <1>3 DEF ShouldShutdown
<1>5. Guarded = {}
  <2>1. IsFiniteSet(Guarded)
    BY TaskAssumption, FS_Subset DEF Guarded
  <2> QED BY <1>4, <2>1, FS_EmptySet DEF InflightExact
<1> QED BY <1>3, <1>4, <1>5, NobodyNothing

-----------------------------------------------------------------------------
\* The inductive invariant of the process.
ProcessInv == Inv /\ ManagedTypeOK /\ InflightExact

\* Whatever the process does, its registry keeps the invariant, its slots their
\* types and its counter the number of handlers.
THEOREM ProcessInvHolds == ManagedSpec => []ProcessInv
<1>1. ManagedInit => ProcessInv
  <2> SUFFICES ASSUME ManagedInit PROVE ProcessInv
    OBVIOUS
  <2>1. Inv
    BY InitInv DEF ManagedInit
  <2>2. ManagedTypeOK
    BY DEF ManagedInit, ManagedTypeOK
  <2>3. Guarded = {}
    BY DEF ManagedInit, Guarded
  <2>4. InflightExact
    BY <2>3, FS_EmptySet DEF ManagedInit, Init, InflightExact
  <2> QED BY <2>1, <2>2, <2>4 DEF ProcessInv
<1>2. ProcessInv /\ [ManagedNext]_managedVars => ProcessInv'
  <2> SUFFICES ASSUME ProcessInv, [ManagedNext]_managedVars PROVE ProcessInv'
    OBVIOUS
  <2>1. Inv'
    BY ProcessRefines, NextInv DEF ProcessInv
  <2>2. ManagedTypeOK'
    BY ManagedTypeStep DEF ProcessInv
  <2>3. InflightExact'
    BY ProcessCounts DEF ProcessInv
  <2> QED BY <2>1, <2>2, <2>3 DEF ProcessInv
<1> QED BY <1>1, <1>2, PTL DEF ManagedSpec

\* The process runs the registry of ControllerRuntime and nothing else touches
\* it: every theorem about ControllerRuntime holds of the process.
THEOREM RunsTheRegistry == ManagedSpec => Spec
<1>1. ManagedInit => Init
  BY DEF ManagedInit
<1>2. ProcessInv /\ [ManagedNext]_managedVars => [Next]_vars
  BY ProcessRefines DEF ProcessInv
<1> QED BY <1>1, <1>2, ProcessInvHolds, PTL DEF ManagedSpec, Spec

\* The counter is the number of handlers alive.
THEOREM CounterCorrect == ManagedSpec => []InflightExact
<1>1. ProcessInv => InflightExact
  BY DEF ProcessInv
<1> QED BY <1>1, ProcessInvHolds, PTL

\* The decision to stop is taken only when nothing is in use.
THEOREM DecisionCorrect == ManagedSpec => DecisionUnused
<1>1. ProcessInv /\ [ManagedNext]_managedVars =>
         [(loop = "decide" /\ loop' = "stopped") =>
            /\ Guarded = {}
            /\ \A s \in Session : ~Registered(state', s)
            /\ \A sp \in Space : state'.spaces[sp] = Nil
            /\ \A k \in BindingKey : state'.bindings[k] = Nil
            /\ \A r \in Resource : state'.resource_backends[r] = Nil
            /\ \A id \in StreamId : state'.query_streams[id] = Nil]_managedVars
  BY DecisionStep DEF ProcessInv
<1> QED BY <1>1, ProcessInvHolds, PTL DEF ManagedSpec, DecisionUnused

-----------------------------------------------------------------------------
(* Handlers and the work they do outside the registry's lock.              *)

\* Work on a backend or a stream belongs to a handler in the middle of it, and
\* to its session; a stream is only opened by a handler itself, and a handler
\* that is dropped leaves a closure behind, waiting or running.
WorkAt(t) ==
    /\ tasks[t] # Nil =>
          /\ requests[t] # Nil
          /\ requests[t].phase \in {"inline", "running"}
          /\ tasks[t].op = "open" => requests[t].phase = "inline"
          /\ tasks[t].op # "call" => tasks[t].client = requests[t].client
    /\ (requests[t] # Nil /\ ~requests[t].guarded) =>
          requests[t].phase \in {"blocking", "running", "done"}

WorkHeld == \A t \in Task : WorkAt(t)

\* What a handler that goes on keeps.
LEMMA ToFields ==
    ASSUME ManagedTypeOK, NEW t \in Task, NEW p \in Phase, NEW q \in Phase,
           In(t, p), To(t, q)
    PROVE  /\ requests'[t] # Nil
           /\ requests'[t].phase = q
           /\ requests'[t].guarded = requests[t].guarded
           /\ requests'[t].client = requests[t].client
           /\ \A u \in Task : u # t => requests'[u] = requests[u]
<1>1. requests[t] \in Request
  BY DEF In, ManagedTypeOK
<1> DEFINE new == [requests[t] EXCEPT !.phase = q]
<1>2. /\ new \in Request
      /\ new.phase = q
      /\ new.guarded = requests[t].guarded
      /\ new.client = requests[t].client
  BY <1>1 DEF Request
<1>3. requests' = [requests EXCEPT ![t] = new]
  BY DEF To
<1> HIDE DEF new
<1> QED BY <1>2, <1>3, NilRequestAssumption DEF ManagedTypeOK

\* Work starts and ends in the slot of its handler.
LEMMA OperationTasks ==
    ASSUME NEW c, SessionOperation(c) \/ SpaceOperation(c) \/ BackendOperation(c)
    PROVE  UNCHANGED tasks
<1>1. CASE SessionOperation(c)
  BY <1>1 DEF SessionOperation, RegisterClient, RenewClient, UnregisterClient
<1>2. CASE SpaceOperation(c)
  BY <1>2 DEF SpaceOperation, AttachSpace, DetachSpace
<1>3. CASE BackendOperation(c)
  <2>1. ASSUME NEW k, NEW r, NEW g, Enable(c, k, r, g) \/ Disable(c, k)
        PROVE  UNCHANGED tasks
    BY <2>1 DEF Enable, Disable
  <2> QED BY <1>3, <2>1
          DEF BackendOperation, EnableSqlite, EnableLanceDb, DisableSqlite, DisableLanceDb
<1> QED BY <1>1, <1>2, <1>3

\* One step of a handler.
LEMMA HandlerWork ==
    ASSUME Inv, ManagedTypeOK, WorkHeld, NEW t \in Task, HandlerStep(t)
    PROVE  WorkHeld'
<1>1. /\ tasks \in [Task -> Job \cup {Nil}]
      /\ WorkAt(t)
  BY DEF Inv, WorkHeld
<1>2. ASSUME \A u \in Task : u # t => tasks'[u] = tasks[u] /\ requests'[u] = requests[u],
             WorkAt(t)'
      PROVE  WorkHeld'
  BY <1>2 DEF WorkHeld, WorkAt
<1>3. CASE Diagnose(t) \/ Refuse(t) \/ Operate(t) \/ Submit(t)
  <2>1. UNCHANGED tasks
    BY <1>3, OperationTasks DEF Diagnose, ReapExpiredClients, Refuse, Operate, Submit, vars
  <2>2. PICK p \in {"begun", "diagnosing"}, q \in {"done", "blocking"} : In(t, p) /\ To(t, q)
    BY <1>3 DEF Diagnose, Refuse, Operate, Submit
  <2>3. tasks[t] = Nil
    BY <1>1, <2>2 DEF WorkAt, In
  <2> QED BY <1>2, <2>1, <2>2, <2>3, ToFields DEF WorkAt, Phase
<1>4. CASE BeginInline(t)
  <2>1. In(t, "begun") /\ To(t, "inline")
    BY <1>4 DEF BeginInline
  <2>2. /\ requests'[t] # Nil
        /\ requests'[t].phase = "inline"
        /\ requests'[t].guarded
        /\ requests'[t].client = requests[t].client
        /\ \A u \in Task : u # t => requests'[u] = requests[u]
    BY <1>1, <2>1, ToFields DEF WorkAt, In, Phase
  <2>3. ASSUME NEW job, tasks' = [tasks EXCEPT ![t] = job],
               \/ job.op = "call"
               \/ job.op = "open" /\ job.client = requests[t].client
        PROVE  WorkHeld'
    BY <1>1, <1>2, <2>2, <2>3 DEF WorkAt
  <2>4. ASSUME NEW sp, NEW b, LanceDbCall(t, requests[t].client, sp, b)
        PROVE  WorkHeld'
    <3> DEFINE job == [op |-> "call", backend |-> state.bindings[Key("lancedb", sp, b)].backend]
    <3>1. tasks' = [tasks EXCEPT ![t] = job] /\ job.op = "call"
      BY <2>4 DEF LanceDbCall, StartTask
    <3> HIDE DEF job
    <3> QED BY <2>3, <3>1
  <2>5. ASSUME NEW sp, NEW b, OpenStream(t, requests[t].client, sp, b)
        PROVE  WorkHeld'
    <3> DEFINE job == [op |-> "open", client |-> requests[t].client, space |-> sp,
                       backend |-> state.bindings[Key("sqlite", sp, b)].backend]
    <3>1. /\ tasks' = [tasks EXCEPT ![t] = job]
          /\ job.op = "open"
          /\ job.client = requests[t].client
      BY <2>5 DEF OpenStream, StartTask
    <3> HIDE DEF job
    <3> QED BY <2>3, <3>1
  <2> QED BY <1>4, <2>4, <2>5 DEF BeginInline
<1>5. CASE EndInline(t) \/ EndBlocking(t)
  <2>1. PICK p \in Phase : In(t, p) /\ To(t, "done")
    BY <1>5 DEF EndInline, EndBlocking, Phase
  <2>2. tasks' = [tasks EXCEPT ![t] = Nil]
    BY <1>1, <1>5
       DEF EndInline, EndBlocking, CallReturns, InsertStream, RemoveStream, vars
  <2> QED BY <1>1, <1>2, <2>1, <2>2, ToFields DEF WorkAt, Phase
<1>6. CASE StartBlocking(t)
  <2>1. In(t, "blocking") /\ tasks[t] = Nil
    BY <1>1, <1>6 DEF StartBlocking, WorkAt, In
  <2>2. CASE To(t, "done") /\ UNCHANGED vars
    BY <1>2, <2>1, <2>2, ToFields DEF WorkAt, Phase, vars
  <2>3. CASE To(t, "running")
    <3>1. /\ requests'[t] # Nil
          /\ requests'[t].phase = "running"
          /\ requests'[t].client = requests[t].client
          /\ \A u \in Task : u # t => requests'[u] = requests[u]
      BY <2>1, <2>3, ToFields DEF Phase
    <3>2. CASE \E id \in StreamId : UseStream(requests[t].client, id)
      BY <1>2, <2>1, <3>1, <3>2 DEF UseStream, WorkAt
    <3>3. ASSUME NEW job, tasks' = [tasks EXCEPT ![t] = job],
                 \/ job.op = "call"
                 \/ job.op = "close" /\ job.client = requests[t].client
          PROVE  WorkHeld'
      BY <1>1, <1>2, <3>1, <3>3 DEF WorkAt
    <3>4. ASSUME NEW sp, NEW b, SqliteCall(t, requests[t].client, sp, b)
          PROVE  WorkHeld'
      <4> DEFINE job == [op |-> "call",
                         backend |-> state.bindings[Key("sqlite", sp, b)].backend]
      <4>1. tasks' = [tasks EXCEPT ![t] = job] /\ job.op = "call"
        BY <3>4 DEF SqliteCall, StartTask
      <4> HIDE DEF job
      <4> QED BY <3>3, <4>1
    <3>5. ASSUME NEW id, CloseStream(t, requests[t].client, id)
          PROVE  WorkHeld'
      <4> DEFINE job == [op |-> "close", client |-> requests[t].client, stream |-> id]
      <4>1. /\ tasks' = [tasks EXCEPT ![t] = job]
            /\ job.op = "close"
            /\ job.client = requests[t].client
        BY <3>5 DEF CloseStream, StartTask
      <4> HIDE DEF job
      <4> QED BY <3>3, <4>1
    <3>6. ~To(t, "done")
      BY <2>1, <3>1, ToFields DEF Phase
    <3> QED BY <1>6, <3>2, <3>4, <3>5, <3>6 DEF StartBlocking
  <2> QED BY <1>6, <2>2, <2>3 DEF StartBlocking
<1>7. CASE Finish(t)
  <2>1. tasks[t] = Nil
    BY <1>1, <1>7 DEF Finish, In, WorkAt
  <2>2. UNCHANGED tasks /\ requests' = [requests EXCEPT ![t] = Nil]
    BY <1>7 DEF Finish, DropRequestGuard, vars
  <2> QED BY <1>2, <2>1, <2>2 DEF WorkAt, ManagedTypeOK
<1> QED BY <1>3, <1>4, <1>5, <1>6, <1>7 DEF HandlerStep

\* One step of the process.
LEMMA ProcessWork ==
    ASSUME Inv, ManagedTypeOK, WorkHeld, [ManagedNext]_managedVars
    PROVE  WorkHeld'
<1>1. ASSUME NEW t \in Task, UNCHANGED tasks, tasks[t] = Nil, NEW new \in Request,
             new.guarded, requests' = [requests EXCEPT ![t] = new]
      PROVE  WorkHeld'
  BY <1>1 DEF WorkHeld, WorkAt, ManagedTypeOK
<1>2. ASSUME NEW t \in Task, NEW c \in Caller, NEW r \in BOOLEAN, Accept(t, c, r)
      PROVE  WorkHeld'
  <2> DEFINE new == [client |-> c, guarded |-> TRUE,
                     phase |-> IF r THEN "begun" ELSE "diagnosing"]
  <2>1. new \in Request /\ new.guarded
    BY DEF Request, Phase
  <2>2. requests' = [requests EXCEPT ![t] = new] /\ requests[t] = Nil
    BY <1>2 DEF Accept
  <2>3. UNCHANGED tasks /\ tasks[t] = Nil
    BY <1>2, <2>2 DEF Accept, BeginRequest, WorkHeld, WorkAt
  <2> HIDE DEF new
  <2> QED BY <1>1, <2>1, <2>2, <2>3
<1>3. ASSUME NEW t \in Task, Cancel(t)
      PROVE  WorkHeld'
  <2> DEFINE new == [requests[t] EXCEPT !.guarded = FALSE]
  <2>1. /\ requests[t] \in Request
        /\ requests[t].phase \in {"blocking", "running"}
    BY <1>3 DEF Cancel, In, ManagedTypeOK
  <2>2. new \in Request /\ new.phase = requests[t].phase /\ new.client = requests[t].client
    BY <2>1 DEF Request
  <2>3. requests' = [requests EXCEPT ![t] = new] /\ UNCHANGED tasks
    BY <1>3 DEF Cancel, DropRequestGuard
  <2> HIDE DEF new
  <2> QED BY <2>1, <2>2, <2>3, NilRequestAssumption DEF WorkHeld, WorkAt, ManagedTypeOK
<1>4. CASE \/ MaintenanceStep \/ ShutdownSignal \/ CtrlC \/ Exit
           \/ Environment \/ HostsVanish \/ UNCHANGED managedVars
  <2>1. UNCHANGED <<tasks, requests>>
    BY <1>4 DEF MaintenanceStep, ReapSessions, ReapStreams, Decide, ReapExpiredClients,
                ReapStaleStreams, ShutdownSignal, CtrlC, Exit, Environment, LeaseLapses,
                IdleTimeoutElapses, StreamCompletes, StreamGoesStale, HostsVanish,
                processVars, managedVars
  <2> QED BY <2>1 DEF WorkHeld, WorkAt
<1> QED BY <1>2, <1>3, <1>4, HandlerWork DEF ManagedNext

\* Work never outlives the slot of its handler.
LEMMA WorkIsHeld == ManagedSpec => []WorkHeld
<1>1. ManagedInit => WorkHeld
  BY DEF ManagedInit, Init, WorkHeld, WorkAt
<1>2. ProcessInv /\ WorkHeld /\ [ManagedNext]_managedVars => WorkHeld'
  BY ProcessWork DEF ProcessInv
<1> QED BY <1>1, <1>2, ProcessInvHolds, PTL DEF ManagedSpec

\* The process is never gone while a call, an open or a close is under way.
ExitCutsNothing == server = "exited" => \A t \in Task : tasks[t] = Nil

\* Neither the handlers nor the closures of dropped handlers are cut short: the
\* drain awaits the former, the end of the runtime the latter, and a closure
\* that is dropped in the queue has not begun.
THEOREM WorkEndsBeforeExit == ManagedSpec => []ExitCutsNothing
<1>1. ManagedInit => ExitCutsNothing
  BY DEF ManagedInit, ExitCutsNothing
<1>2. WorkHeld /\ ExitCutsNothing /\ [ManagedNext]_managedVars => ExitCutsNothing'
  <2> SUFFICES ASSUME WorkHeld, ExitCutsNothing, [ManagedNext]_managedVars,
                      server' = "exited"
               PROVE  \A t \in Task : tasks'[t] = Nil
    BY DEF ExitCutsNothing
  <2>1. CASE server = "exited"
    BY <2>1 DEF ManagedNext, managedVars, ExitCutsNothing
  <2>2. CASE server # "exited"
    <3>1. Exit
      BY <2>2 DEF ManagedNext, managedVars, Accept, Cancel, HandlerStep, Diagnose, Refuse,
                  Operate, BeginInline, EndInline, Submit, StartBlocking, EndBlocking,
                  Finish, To, MaintenanceStep, ReapSessions, ReapStreams, Decide,
                  ShutdownSignal, CtrlC, Environment, HostsVanish, processVars
    <3> QED BY <3>1 DEF Exit, In, WorkHeld, WorkAt
  <2> QED BY <2>1, <2>2
<1> QED BY <1>1, <1>2, WorkIsHeld, PTL DEF ManagedSpec

\* The only work the decision to stop can leave under way is that of closures
\* whose handlers were dropped, which the counter does not know; no stream is
\* being opened.
DecisionLeavesDropped ==
    [][(loop = "decide" /\ loop' = "stopped") =>
          \A t \in Task : tasks[t] # Nil =>
              /\ In(t, "running")
              /\ ~requests[t].guarded
              /\ tasks[t].op # "open"]_managedVars

\* What DecisionUnused says of the registry, said of the work outside its lock.
THEOREM DecisionSeesWork == ManagedSpec => DecisionLeavesDropped
<1>1. ProcessInv /\ WorkHeld /\ [ManagedNext]_managedVars =>
         [(loop = "decide" /\ loop' = "stopped") =>
            \A t \in Task : tasks[t] # Nil =>
                /\ In(t, "running")
                /\ ~requests[t].guarded
                /\ tasks[t].op # "open"]_managedVars
  <2> SUFFICES ASSUME ProcessInv, WorkHeld, [ManagedNext]_managedVars,
                      loop = "decide", loop' = "stopped",
                      NEW t \in Task, tasks[t] # Nil
               PROVE  /\ In(t, "running")
                      /\ ~requests[t].guarded
                      /\ tasks[t].op # "open"
    OBVIOUS
  <2>1. Guarded = {}
    BY DecisionStep DEF ProcessInv
  <2>2. WorkAt(t)
    BY DEF WorkHeld
  <2>3. requests[t] # Nil /\ ~requests[t].guarded
    BY <2>1, <2>2 DEF Guarded, WorkAt
  <2> QED BY <2>2, <2>3 DEF WorkAt, In
<1> QED BY <1>1, ProcessInvHolds, WorkIsHeld, PTL DEF ManagedSpec, DecisionLeavesDropped

-----------------------------------------------------------------------------
(* After the decision.                                                     *)

\* A request arrives between the decision to stop and the signal to the server.
LateAccept ==
    /\ loop = "stopped"
    /\ \E t \in Task, c \in Caller, r \in BOOLEAN : Accept(t, c, r)

\* What the decision saw stays: no handler, no session, no stream.
StaysUnused ==
    loop = "stopped" =>
        /\ Guarded = {}
        /\ \A s \in Session : ~Registered(state, s)
        /\ \A id \in StreamId : state.query_streams[id] = Nil

\* Closures of dropped handlers find nothing to work on any more.
LEMMA UnusedRefuses ==
    ASSUME Inv, \A s \in Session : ~Registered(state, s),
           \A id \in StreamId : state.query_streams[id] = Nil,
           NEW t, NEW c \in Caller
    PROVE  /\ ~ \E sp \in Space, b \in Binding : SqliteCall(t, c, sp, b)
           /\ ~ \E id \in StreamId : CloseStream(t, c, id) \/ UseStream(c, id)
<1>1. \A k \in BindingKey : state.bindings[k] = Nil
  BY NobodyNothing DEF Inv
<1>2. \A sp \in Space, b \in Binding : Key("sqlite", sp, b) \in BindingKey
  BY DEF Key, BindingKey, Kind
<1> QED BY <1>1, <1>2 DEF SqliteCall, BackendAccess, CloseStream, UseStream, StreamAccess

\* One step after the decision.
LEMMA UnusedStep ==
    ASSUME ProcessInv, WorkHeld, StaysUnused, loop = "stopped",
           [ManagedNext]_managedVars, ~LateAccept
    PROVE  StaysUnused'
<1>1. /\ Inv /\ ManagedTypeOK
      /\ state \in ControllerState
      /\ state.clients \in [Session -> ClientStatus]
      /\ tasks \in [Task -> Job \cup {Nil}]
      /\ \A t \in Task : requests[t] # Nil =>
            ~requests[t].guarded /\ requests[t].phase \in {"blocking", "running", "done"}
      /\ \A t \in Task : requests[t] # Nil => requests[t].client \in Caller
      /\ \A t \in Task : tasks[t] # Nil => tasks[t].op # "open"
  BY DEF ProcessInv, Inv, Consistent, ControllerState, WorkHeld, WorkAt, StaysUnused, Guarded,
         ManagedTypeOK, Request
<1>2. /\ Guarded = {}
      /\ \A s \in Session : ~Registered(state, s)
      /\ \A id \in StreamId : state.query_streams[id] = Nil
  BY DEF StaysUnused
<1>3. ASSUME UNCHANGED state, Guarded' = {}
      PROVE  StaysUnused'
  BY <1>2, <1>3 DEF StaysUnused, Registered
<1>4. ASSUME NEW t \in Task, HandlerStep(t)
      PROVE  StaysUnused'
  <2>1. CASE Finish(t)
    BY <1>1, <1>2, <1>3, <2>1 DEF Finish, In, Guarded, ManagedTypeOK, vars
  <2>2. CASE StartBlocking(t)
    <3>1. requests[t].client \in Caller
      BY <1>1, <2>2 DEF StartBlocking, In
    <3>2. To(t, "done") /\ UNCHANGED vars
      BY <1>1, <1>2, <2>2, <3>1, UnusedRefuses DEF StartBlocking
    <3> QED BY <1>1, <1>2, <1>3, <2>2, <3>2, GuardedTo DEF StartBlocking, Phase, vars
  <2>3. CASE EndBlocking(t)
    <3>1. Guarded' = {}
      BY <1>1, <1>2, <2>3, GuardedTo DEF EndBlocking, Phase
    <3>2. CASE CallReturns(t) \/ UNCHANGED vars
      BY <1>3, <3>1, <3>2 DEF CallReturns, vars
    <3>3. CASE RemoveStream(t)
      BY <1>1, <1>2, <3>1, <3>3 DEF RemoveStream, StaysUnused, Registered, ControllerState
    <3> QED BY <2>3, <3>2, <3>3 DEF EndBlocking
  <2> QED BY <1>1, <1>4, <2>1, <2>2, <2>3
          DEF HandlerStep, Diagnose, Refuse, Operate, BeginInline, EndInline, Submit, In
<1>5. ASSUME NEW t \in Task
      PROVE  ~Cancel(t)
  BY <1>1, <1>5 DEF Cancel, In
<1>6. CASE Environment
  <2>1. Guarded' = {}
    BY <1>2, <1>6 DEF Environment, processVars, Guarded
  <2>2. UNCHANGED state \/ IdleTimeoutElapses
    BY <1>2, <1>6 DEF Environment, LeaseLapses, StreamCompletes, StreamGoesStale, Registered
  <2>3. CASE IdleTimeoutElapses
    BY <1>1, <1>2, <2>1, <2>3
       DEF IdleTimeoutElapses, StaysUnused, Registered, ControllerState
  <2> QED BY <1>3, <2>1, <2>2, <2>3
<1>7. CASE ShutdownSignal \/ CtrlC \/ Exit \/ HostsVanish \/ UNCHANGED managedVars
  BY <1>2, <1>3, <1>7 DEF ShutdownSignal, CtrlC, Exit, HostsVanish, managedVars, Guarded
<1>8. ~MaintenanceStep
  BY DEF MaintenanceStep, ReapSessions, ReapStreams, Decide
<1> QED BY <1>4, <1>5, <1>6, <1>7, <1>8 DEF ManagedNext, LateAccept

\* A controller that decided to stop leaves no session behind, unless a request
\* is accepted between the decision and the signal: that window, and nothing
\* else, is what breaks StopsUnused.
THEOREM StopsUnusedUnlessLate == ManagedSpec /\ [][~LateAccept]_managedVars => []StopsUnused
<1>1. ManagedInit => StaysUnused
  BY DEF ManagedInit, StaysUnused
<1>2. ProcessInv /\ WorkHeld /\ StaysUnused /\ [ManagedNext]_managedVars
      /\ [~LateAccept]_managedVars => StaysUnused'
  <2> SUFFICES ASSUME ProcessInv, WorkHeld, StaysUnused, [ManagedNext]_managedVars,
                      [~LateAccept]_managedVars, loop' = "stopped"
               PROVE  StaysUnused'
    BY DEF StaysUnused
  <2>1. CASE UNCHANGED managedVars
    BY <2>1 DEF managedVars, StaysUnused, Guarded, Registered
  <2>2. CASE loop = "stopped" /\ ~LateAccept
    BY <2>2, UnusedStep
  <2>3. CASE loop # "stopped" /\ ~(UNCHANGED managedVars)
    <3>1. Decide
      BY <2>3 DEF ManagedNext, Accept, Cancel, HandlerStep, Diagnose, Refuse, Operate,
                  BeginInline, EndInline, Submit, StartBlocking, EndBlocking, Finish, To,
                  MaintenanceStep, ReapSessions, ReapStreams, ShutdownSignal, CtrlC, Exit,
                  Environment, HostsVanish, processVars
    <3>2. loop = "decide" /\ UNCHANGED requests
      BY <3>1 DEF Decide
    <3>3. /\ Guarded = {}
          /\ \A s \in Session : ~Registered(state', s)
          /\ \A id \in StreamId : state'.query_streams[id] = Nil
      BY <3>2, DecisionStep DEF ProcessInv
    <3> QED BY <3>2, <3>3 DEF StaysUnused, Guarded, Registered
  <2> QED BY <2>1, <2>2, <2>3
<1>3. StaysUnused => StopsUnused
  BY DEF StaysUnused, StopsUnused
<1> QED BY <1>1, <1>2, <1>3, ProcessInvHolds, WorkIsHeld, PTL DEF ManagedSpec

\* What is proved of the registry and its streams holds in the process: the
\* sessions' end reclaims what they owned, streams go for a reason, and the
\* registry is the one SessionRegistry describes.
THEOREM ProcessInherits ==
    ManagedSpec => /\ ImplementsRegistry
                   /\ SessionEndReclaims
                   /\ StreamRemovalJustified
                   /\ PooledWhileBound
                   /\ OrphansByOpen
                   /\ OrphansStayReapable
BY RunsTheRegistry, ImplementsOwnership, EndReclaims, StreamsTakenForCause,
   PooledBackendsStay, OrphansComeByOpen, OrphansAwaitReaper, PTL
=============================================================================
