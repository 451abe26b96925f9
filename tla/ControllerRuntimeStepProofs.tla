--------------------- MODULE ControllerRuntimeStepProofs ---------------------
(***************************************************************************)
(* What one step of ControllerRuntime may do to sessions, to what they     *)
(* hold and to query streams, and that it is a step of SessionRegistry,    *)
(* proved for all values of the constants.                                 *)
(***************************************************************************)
EXTENDS ControllerRuntimeProofs

\* new holds nothing that st did not hold, and a pooled backend has gone only
\* with the last binding of its database.
Ebbs(new, st) ==
    /\ \A k \in BindingKey : new.bindings[k] \in {Nil, st.bindings[k]}
    /\ \A r \in Resource :
          /\ new.resource_backends[r] \in {Nil, st.resource_backends[r]}
          /\ new.resource_backends[r] # st.resource_backends[r] => new.resources[r] = {}
          /\ new.resources[r] \subseteq st.resources[r]

\* Bindings that are removed take nothing else along.
LEMMA RemoveBindingsEbbs ==
    ASSUME NEW st \in ControllerState,
           NEW keys \in SUBSET BindingKey
    PROVE  Ebbs(RemoveBindings(st, keys), st)
<1> DEFINE new == RemoveBindings(st, keys)
           gone == Enabled(st, keys)
<1>1. /\ \A k \in BindingKey :
            new.bindings[k] = IF k \in keys THEN Nil ELSE st.bindings[k]
      /\ Untracked(new, st, gone, st.bindings)
  BY RemoveBindingsFields
<1> HIDE DEF new, gone
<1>2. ASSUME NEW r \in Resource
      PROVE  /\ new.resource_backends[r] \in {Nil, st.resource_backends[r]}
             /\ new.resource_backends[r] # st.resource_backends[r] => new.resources[r] = {}
             /\ new.resources[r] \subseteq st.resources[r]
  BY <1>1 DEF Untracked, Released
<1>3. Ebbs(new, st)
  BY <1>1, <1>2 DEF Ebbs
<1> QED BY <1>3 DEF new

\* new is st after some of its sessions have ended, as far as the status of
\* sessions, bindings, pooled backends and streams are concerned.
OnlyEnds(new, st) ==
    /\ Ebbs(new, st)
    /\ \A s \in Session :
          \/ new.clients[s] = st.clients[s]
          \/ Registered(st, s) /\ new.clients[s] = "ended"
    /\ \A k \in BindingKey :
          (st.bindings[k] # Nil /\ Registered(new, st.bindings[k].owner)) =>
              /\ new.bindings[k] = st.bindings[k]
              /\ new.resource_backends[st.bindings[k].resource]
                    = st.resource_backends[st.bindings[k].resource]
    /\ \A id \in StreamId :
          new.query_streams[id] =
              IF /\ st.query_streams[id] # Nil
                 /\ Registered(st, st.query_streams[id].owner)
                 /\ ~Registered(new, st.query_streams[id].owner)
              THEN Nil ELSE st.query_streams[id]
    /\ new.next_query_stream_id = st.next_query_stream_id

\* Sessions that end twice over in one critical section.
LEMMA OnlyEndsTwice ==
    ASSUME NEW a, NEW b, NEW c, OnlyEnds(b, a), OnlyEnds(c, b)
    PROVE  OnlyEnds(c, a)
<1>1. \A s : Registered(c, s) => Registered(b, s)
  BY DEF OnlyEnds, Registered
<1>2. \A s : Registered(b, s) => Registered(a, s)
  BY DEF OnlyEnds, Registered
<1>3. ASSUME NEW s \in Session
      PROVE  \/ c.clients[s] = a.clients[s]
             \/ Registered(a, s) /\ c.clients[s] = "ended"
  <2>1. \/ c.clients[s] = b.clients[s]
        \/ Registered(b, s) /\ c.clients[s] = "ended"
    BY DEF OnlyEnds
  <2>2. \/ b.clients[s] = a.clients[s]
        \/ Registered(a, s) /\ b.clients[s] = "ended"
    BY DEF OnlyEnds
  <2> QED BY <2>1, <2>2, <1>2
<1>4. ASSUME NEW k \in BindingKey, a.bindings[k] # Nil, Registered(c, a.bindings[k].owner)
      PROVE  /\ c.bindings[k] = a.bindings[k]
             /\ c.resource_backends[a.bindings[k].resource]
                   = a.resource_backends[a.bindings[k].resource]
  <2>1. /\ b.bindings[k] = a.bindings[k]
        /\ b.resource_backends[a.bindings[k].resource]
              = a.resource_backends[a.bindings[k].resource]
    BY <1>1, <1>4 DEF OnlyEnds
  <2> QED BY <1>4, <2>1 DEF OnlyEnds
<1>5. ASSUME NEW id \in StreamId
      PROVE  c.query_streams[id] =
                IF /\ a.query_streams[id] # Nil
                   /\ Registered(a, a.query_streams[id].owner)
                   /\ ~Registered(c, a.query_streams[id].owner)
                THEN Nil ELSE a.query_streams[id]
  <2>1. b.query_streams[id] =
           IF /\ a.query_streams[id] # Nil
              /\ Registered(a, a.query_streams[id].owner)
              /\ ~Registered(b, a.query_streams[id].owner)
           THEN Nil ELSE a.query_streams[id]
    BY DEF OnlyEnds
  <2>2. c.query_streams[id] =
           IF /\ b.query_streams[id] # Nil
              /\ Registered(b, b.query_streams[id].owner)
              /\ ~Registered(c, b.query_streams[id].owner)
           THEN Nil ELSE b.query_streams[id]
    BY DEF OnlyEnds
  <2> QED BY <1>1, <1>2, <2>1, <2>2
<1>6. c.next_query_stream_id = a.next_query_stream_id
  BY DEF OnlyEnds
<1>7. Ebbs(c, a)
  BY DEF OnlyEnds, Ebbs
<1> QED BY <1>3, <1>4, <1>5, <1>6, <1>7 DEF OnlyEnds

\* Removing sessions does nothing to what the others hold.
LEMMA RemoveClientsOnlyEnds ==
    ASSUME NEW st, Consistent(st),
           NEW S \in SUBSET Session
    PROVE  /\ OnlyEnds(RemoveClients(st, S), st)
           /\ \A s \in S : ~Registered(RemoveClients(st, S), s)
<1>1. CASE Ended(st, S) = {}
  <2>1. RemoveClients(st, S) = st
    BY <1>1, RemoveClientsNone
  <2>2. \A s \in S : ~Registered(st, s)
    BY <1>1 DEF Ended
  <2> QED BY <2>1, <2>2 DEF OnlyEnds, Ebbs
<1>2. CASE Ended(st, S) # {}
  <2> DEFINE new == RemoveClients(st, S)
             gone == Ended(st, S)
             keys == OwnedByAny(st, gone)
             released == RemoveBindings(st, keys)
  <2>1. /\ ClientsRemoved(new, st, gone)
        /\ new.bindings = released.bindings
        /\ new.resource_backends = released.resource_backends
        /\ new.resources = released.resources
    BY <1>2, RemoveClientsFields
  <2>2. keys \in SUBSET BindingKey /\ gone \in SUBSET Session
    BY DEF OwnedByAny, Ended
  <2>3. /\ \A k \in BindingKey :
              released.bindings[k] = IF k \in keys THEN Nil ELSE st.bindings[k]
        /\ Untracked(released, st, Enabled(st, keys), st.bindings)
        /\ Ebbs(released, st)
    BY <2>2, RemoveBindingsFields, RemoveBindingsEbbs DEF Consistent
  <2>4. \A s \in gone : Registered(st, s)
    BY DEF Ended
  <2>10. \A s \in S : Registered(st, s) => s \in gone
    BY DEF Ended
  <2> HIDE DEF new, released
  <2>5. \A s \in Session : Registered(new, s) <=> Registered(st, s) /\ s \notin gone
    BY <2>1, <2>2 DEF ClientsRemoved, Registered
  <2>6. \A s \in Session :
           \/ new.clients[s] = st.clients[s]
           \/ Registered(st, s) /\ new.clients[s] = "ended"
    BY <2>1, <2>4 DEF ClientsRemoved
  <2>7. ASSUME NEW k \in BindingKey,
               st.bindings[k] # Nil, Registered(new, st.bindings[k].owner)
        PROVE  /\ new.bindings[k] = st.bindings[k]
               /\ new.resource_backends[st.bindings[k].resource]
                     = st.resource_backends[st.bindings[k].resource]
    <3> DEFINE r == st.bindings[k].resource
    <3>1. st.bindings[k].owner \in Session /\ r \in Resource
      BY <2>7 DEF Consistent, ControllerState, BindingEntry
    <3>2. st.bindings[k].owner \notin gone
      BY <2>5, <2>7, <3>1
    <3>3. k \notin keys
      BY <2>2, <3>2 DEF OwnedByAny, Consistent, WellOwned
    <3>4. k \in st.resources[r]
      BY <2>7, <3>1 DEF Consistent, WellPooled
    <3>5. ~Released(st, Enabled(st, keys), st.bindings, r)
      BY <3>3, <3>4 DEF Released, OnAmong, Enabled
    <3> QED BY <2>1, <2>3, <3>1, <3>3, <3>5 DEF Untracked
  <2>8. ASSUME NEW id \in StreamId
        PROVE  new.query_streams[id] =
                  IF /\ st.query_streams[id] # Nil
                     /\ Registered(st, st.query_streams[id].owner)
                     /\ ~Registered(new, st.query_streams[id].owner)
                  THEN Nil ELSE st.query_streams[id]
    <3>1. st.query_streams[id] # Nil => st.query_streams[id].owner \in Session
      BY DEF Consistent, ControllerState, StreamEntry
    <3>2. new.query_streams[id] =
             IF st.query_streams[id] # Nil /\ st.query_streams[id].owner \in gone
             THEN Nil ELSE st.query_streams[id]
      BY <2>1 DEF ClientsRemoved
    <3> QED BY <2>4, <2>5, <3>1, <3>2
  <2>11. Ebbs(new, st)
    BY <2>1, <2>3 DEF Ebbs
  <2>9. OnlyEnds(new, st)
    BY <2>1, <2>6, <2>7, <2>8, <2>11 DEF OnlyEnds, ClientsRemoved
  <2> QED BY <2>5, <2>9, <2>10 DEF new
<1> QED BY <1>1, <1>2

-----------------------------------------------------------------------------
\* A step that ends no session, and at most lets a lease run out.
Quiet ==
    \A s \in Session :
        \/ state'.clients[s] = state.clients[s]
        \/ state.clients[s] = "live" /\ state'.clients[s] = "lapsed"

\* A step that first prunes, with st the state when that is done: no lease is
\* over any more, and the rest of the step at most registers a new session.
Prunes(st) ==
    /\ OnlyEnds(st, state)
    /\ \A s \in Session : st.clients[s] # "lapsed"
    /\ \A s \in Session :
          \/ state'.clients[s] = st.clients[s]
          \/ st.clients[s] = "unused" /\ state'.clients[s] = "live"
    /\ state'.bindings = st.bindings
    /\ state'.resource_backends = st.resource_backends
    /\ state'.resources = st.resources
    /\ state'.query_streams = st.query_streams
    /\ state'.next_query_stream_id = st.next_query_stream_id

SameHoldings ==
    /\ state'.bindings = state.bindings
    /\ state'.resource_backends = state.resource_backends
    /\ state'.resources = state.resources

SameStreams ==
    /\ state'.query_streams = state.query_streams
    /\ state'.next_query_stream_id = state.next_query_stream_id

\* Once expired sessions are pruned, every session that is left is live.
LEMMA PrunedState ==
    ASSUME Consistent(state)
    PROVE  LET st == PruneExpired(state)
           IN /\ Consistent(st)
              /\ st \in ControllerState
              /\ OnlyEnds(st, state)
              /\ \A s \in Session : st.clients[s] # "lapsed"
<1> DEFINE st == PruneExpired(state)
           S == {s \in Session : state.clients[s] = "lapsed"}
<1>1. Consistent(st) /\ st \in ControllerState
  BY PruneExpiredConsistent DEF Consistent
<1>2. OnlyEnds(st, state) /\ \A s \in S : ~Registered(st, s)
  BY RemoveClientsOnlyEnds DEF PruneExpired
<1> HIDE DEF st
<1>3. ASSUME NEW s \in Session, st.clients[s] = "lapsed"
      PROVE  FALSE
  <2>1. state.clients[s] = "lapsed"
    BY <1>2, <1>3 DEF OnlyEnds
  <2> QED BY <1>2, <1>3, <2>1 DEF Registered
<1> QED BY <1>1, <1>2, <1>3 DEF st

\* The helpers that only move attachments leave the rest alone.
LEMMA AttachmentFrames ==
    ASSUME NEW st \in ControllerState, NEW c, NEW sp, NEW identity
    PROVE  /\ Attach(st, c, sp, identity).clients = st.clients
           /\ Attach(st, c, sp, identity).bindings = st.bindings
           /\ Attach(st, c, sp, identity).resource_backends = st.resource_backends
           /\ Attach(st, c, sp, identity).resources = st.resources
           /\ Attach(st, c, sp, identity).query_streams = st.query_streams
           /\ Attach(st, c, sp, identity).next_query_stream_id = st.next_query_stream_id
           /\ Detach(st, c, sp).clients = st.clients
           /\ Detach(st, c, sp).bindings = st.bindings
           /\ Detach(st, c, sp).resource_backends = st.resource_backends
           /\ Detach(st, c, sp).resources = st.resources
           /\ Detach(st, c, sp).query_streams = st.query_streams
           /\ Detach(st, c, sp).next_query_stream_id = st.next_query_stream_id
           /\ RemoveSpace(st, sp).clients = st.clients
           /\ RemoveSpace(st, sp).bindings = st.bindings
           /\ RemoveSpace(st, sp).resource_backends = st.resource_backends
           /\ RemoveSpace(st, sp).resources = st.resources
           /\ RemoveSpace(st, sp).query_streams = st.query_streams
           /\ RemoveSpace(st, sp).next_query_stream_id = st.next_query_stream_id
  BY DEF Attach, Detach, RemoveSpace, ControllerState

\* Renewing changes nothing once expired sessions are pruned.
LEMMA RenewLeasePruned ==
    ASSUME NEW st \in ControllerState, NEW c,
           \A s \in Session : st.clients[s] # "lapsed"
    PROVE  RenewLease(st, c) = st
<1>1. CASE Registered(st, c)
  <2>1. c \in Session /\ st.clients[c] = "live"
    BY <1>1 DEF Registered
  <2> QED BY <2>1 DEF RenewLease, ControllerState
<1>2. CASE ~Registered(st, c)
  BY <1>2 DEF RenewLease
<1> QED BY <1>1, <1>2

\* Requests, registrations and renewals.
LEMMA SessionSteps ==
    ASSUME Inv, SessionNext
    PROVE  /\ (Quiet /\ SameHoldings /\ SameStreams) \/ (\E st : Prunes(st))
           /\ UNCHANGED <<tasks, workers>>
<1> DEFINE st == PruneExpired(state)
<1>1. /\ Consistent(state) /\ state \in ControllerState
      /\ Consistent(st) /\ st \in ControllerState
      /\ OnlyEnds(st, state)
      /\ \A s \in Session : st.clients[s] # "lapsed"
  BY PrunedState DEF Inv, Consistent
<1> HIDE DEF st
<1>2. ASSUME NEW s \in Session, RegisterClient(s)
      PROVE  Prunes(st)
  <2>1. state' = [st EXCEPT !.clients[s] = "live"] /\ state.clients[s] = "unused"
    BY <1>2 DEF RegisterClient, st
  <2>2. st.clients[s] = "unused"
    BY <1>1, <2>1 DEF OnlyEnds, Registered
  <2> QED BY <1>1, <2>1, <2>2 DEF Prunes, ControllerState
<1>3. ASSUME NEW s \in Session, RenewClient(s)
      PROVE  Prunes(st)
  <2>1. state' = st
    BY <1>1, <1>3, RenewLeasePruned DEF RenewClient, st
  <2> QED BY <1>1, <2>1 DEF Prunes
<1>4. ASSUME NEW s \in Session, UnregisterClient(s)
      PROVE  Prunes(state')
  <2>1. state' = RemoveClients(st, {s})
    BY <1>4 DEF UnregisterClient, st
  <2>2. OnlyEnds(state', st)
    BY <1>1, <2>1, RemoveClientsOnlyEnds
  <2>3. OnlyEnds(state', state)
    BY <1>1, <2>2, OnlyEndsTwice
  <2>4. \A x \in Session : state'.clients[x] # "lapsed"
    BY <1>1, <2>2 DEF OnlyEnds
  <2> QED BY <2>3, <2>4 DEF Prunes
<1>5. ASSUME NEW s \in Session, LeaseLapses(s)
      PROVE  Quiet /\ SameHoldings /\ SameStreams
  BY <1>1, <1>5 DEF LeaseLapses, Quiet, SameHoldings, SameStreams, ControllerState
<1>6. ASSUME NEW c \in Caller, NEW r \in BOOLEAN, BeginRequest(c, r)
      PROVE  Prunes(st)
  <2>1. RenewLease(st, c) = st
    BY <1>1, RenewLeasePruned
  <2>2. state' = [st EXCEPT !.inflight_requests = @ + 1,
                            !.recent_request = @ \/ r]
    BY <1>6, <2>1 DEF BeginRequest, st
  <2> QED BY <1>1, <2>2 DEF Prunes, ControllerState
<1>7. CASE DropRequestGuard
  BY <1>1, <1>7 DEF DropRequestGuard, Quiet, SameHoldings, SameStreams, ControllerState
<1>8. CASE ReapExpiredClients
  BY <1>1, <1>8 DEF ReapExpiredClients, Prunes, st
<1>9. CASE IdleTimeoutElapses
  BY <1>1, <1>9 DEF IdleTimeoutElapses, Quiet, SameHoldings, SameStreams, ControllerState
<1>10. UNCHANGED <<tasks, workers>>
  BY DEF SessionNext, RegisterClient, RenewClient, UnregisterClient, LeaseLapses,
         BeginRequest, DropRequestGuard, ReapExpiredClients, IdleTimeoutElapses
<1> QED BY <1>2, <1>3, <1>4, <1>5, <1>6, <1>7, <1>8, <1>9, <1>10 DEF SessionNext

\* Attaching and detaching.
LEMMA SpaceSteps ==
    ASSUME Inv, SpaceNext
    PROVE  (\E st : Prunes(st)) /\ UNCHANGED <<tasks, workers>>
<1> DEFINE st == PruneExpired(state)
<1>1. /\ st \in ControllerState
      /\ OnlyEnds(st, state)
      /\ \A s \in Session : st.clients[s] # "lapsed"
  BY PrunedState DEF Inv
<1>2. ASSUME state'.clients = st.clients,
             state'.bindings = st.bindings,
             state'.resource_backends = st.resource_backends,
             state'.resources = st.resources,
             state'.query_streams = st.query_streams,
             state'.next_query_stream_id = st.next_query_stream_id
      PROVE  Prunes(st)
  BY <1>1, <1>2 DEF Prunes
<1>3. \E c, sp, i : \/ state' = st
                    \/ state' = Attach(st, c, sp, i)
                    \/ state' = Detach(st, c, sp)
                    \/ state' = RemoveSpace(st, sp)
  BY DEF SpaceNext, AttachSpace, DetachSpace
<1>4. UNCHANGED <<tasks, workers>>
  BY DEF SpaceNext, AttachSpace, DetachSpace
<1> HIDE DEF st
<1> QED BY <1>1, <1>2, <1>3, <1>4, AttachmentFrames

\* Bindings, calls and streams end no session.
LEMMA OtherSteps ==
    ASSUME Inv, BackendNext \/ CallNext \/ StreamNext
    PROVE  state'.clients = state.clients
<1>1. state \in ControllerState
  BY DEF Inv, Consistent
<1>2. ASSUME NEW c, NEW k, NEW r, NEW g, Enable(c, k, r, g)
      PROVE  state'.clients = state.clients
  BY <1>1, <1>2
     DEF Enable, Bind, TrackBinding, UntrackBindings, PoolBackend, ControllerState
<1>3. ASSUME NEW c, NEW k, Disable(c, k)
      PROVE  state'.clients = state.clients
  BY <1>1, <1>3 DEF Disable, RemoveBindings, UntrackBindings, ControllerState
<1>4. CASE BackendNext
  BY <1>2, <1>3, <1>4
     DEF BackendNext, EnableSqlite, EnableLanceDb, DisableSqlite, DisableLanceDb
<1>5. CASE CallNext
  BY <1>5 DEF CallNext, SqliteCall, LanceDbCall, CallReturns
<1>6. CASE StreamNext
  BY <1>1, <1>6
     DEF StreamNext, OpenStream, InsertStream, CloseStream, RemoveStream, UseStream,
         StreamCompletes, StreamGoesStale, ReapStaleStreams, Touched, ControllerState
<1> QED BY <1>4, <1>5, <1>6

\* Every step is of one of the two forms.
LEMMA StepForms ==
    ASSUME Inv, [Next]_vars
    PROVE  Quiet \/ \E st : Prunes(st)
  BY SessionSteps, SpaceSteps, OtherSteps DEF Next, Quiet, vars

-----------------------------------------------------------------------------
\* A lease that is over never runs again: no step renews before it prunes, so
\* no request, however late, revives its session.
THEOREM LeasesStayOver == Spec => LapsedNeverRevived
<1> DEFINE Over ==
      \A s \in Session : state.clients[s] \in {"lapsed", "ended"} =>
          state'.clients[s] \in {state.clients[s], "ended"}
<1>1. Inv /\ [Next]_vars => [Over]_vars
  <2> SUFFICES ASSUME Inv, [Next]_vars, NEW s \in Session,
                      state.clients[s] \in {"lapsed", "ended"}
               PROVE  state'.clients[s] \in {state.clients[s], "ended"}
    OBVIOUS
  <2>1. CASE Quiet
    BY <2>1 DEF Quiet
  <2>2. ASSUME NEW st, Prunes(st)
        PROVE  state'.clients[s] \in {state.clients[s], "ended"}
    BY <2>2 DEF Prunes, OnlyEnds
  <2> QED BY <2>1, <2>2, StepForms
<1> QED BY <1>1, InvHolds, PTL DEF Spec, LapsedNeverRevived

\* No stream of a session outlives the step that ends the session.
LEMMA EndTakesStreams ==
    ASSUME Inv, [Next]_vars, NEW s \in Session, Ends(s)
    PROVE  \A id \in StreamId :
              state'.query_streams[id] # Nil => state'.query_streams[id].owner # s
<1>1. Registered(state, s) /\ ~Registered(state', s)
  BY DEF Ends
<1>2. PICK st : Prunes(st)
  BY <1>1, StepForms DEF Quiet, Registered
<1>3. ~Registered(st, s)
  BY <1>1, <1>2 DEF Prunes, Registered
<1> QED BY <1>1, <1>2, <1>3 DEF Prunes, OnlyEnds

\* The step that ends a session leaves nothing registered for it: neither an
\* attachment, nor a binding, nor a stream.
THEOREM EndReclaims == Spec => SessionEndReclaims
<1> DEFINE Reclaims ==
      \A s \in Session : Ends(s) =>
          /\ state'.attached_space_ids[s] = {}
          /\ \A sp \in Space : s \notin state'.attached_clients[sp]
          /\ \A k \in BindingKey :
                state'.bindings[k] # Nil => state'.bindings[k].owner # s
          /\ \A id \in StreamId :
                state'.query_streams[id] # Nil => state'.query_streams[id].owner # s
<1>1. Inv /\ Inv' /\ [Next]_vars => [Reclaims]_vars
  <2> SUFFICES ASSUME Inv, Inv', [Next]_vars, NEW s \in Session, Ends(s)
               PROVE  /\ state'.attached_space_ids[s] = {}
                      /\ \A sp \in Space : s \notin state'.attached_clients[sp]
                      /\ \A k \in BindingKey :
                            state'.bindings[k] # Nil => state'.bindings[k].owner # s
                      /\ \A id \in StreamId :
                            state'.query_streams[id] # Nil =>
                                state'.query_streams[id].owner # s
    OBVIOUS
  <2>1. Registered(state, s) /\ ~Registered(state', s)
    BY DEF Ends
  <2>2. Consistent(state')
    BY DEF Inv
  <2>3. state'.attached_space_ids[s] = {}
    BY <2>1, <2>2 DEF Consistent, WellAttached
  <2>4. \A sp \in Space : s \notin state'.attached_clients[sp]
    BY <2>2, <2>3 DEF Consistent, WellAttached
  <2>5. \A k \in BindingKey : state'.bindings[k] # Nil => state'.bindings[k].owner # s
    BY <2>1, <2>2, BindingsPlaced
  <2> QED BY <2>3, <2>4, <2>5, EndTakesStreams
<1> QED BY <1>1, InvHolds, PTL DEF Spec, SessionEndReclaims

\* The end of sessions takes neither a binding nor a pooled backend from a
\* session that stays.
THEOREM EndSparesOthers == Spec => SessionEndSparesOthers
<1> DEFINE Spares ==
      (\E s \in Session : Ends(s)) =>
          \A k \in BindingKey :
              (state.bindings[k] # Nil /\ ~Ends(state.bindings[k].owner)) =>
                  LET r == state.bindings[k].resource
                  IN /\ state'.bindings[k] = state.bindings[k]
                     /\ state'.resource_backends[r] = state.resource_backends[r]
<1>1. Inv /\ [Next]_vars => [Spares]_vars
  <2> SUFFICES ASSUME Inv, [Next]_vars, NEW s \in Session, Ends(s),
                      NEW k \in BindingKey,
                      state.bindings[k] # Nil, ~Ends(state.bindings[k].owner)
               PROVE  /\ state'.bindings[k] = state.bindings[k]
                      /\ state'.resource_backends[state.bindings[k].resource]
                            = state.resource_backends[state.bindings[k].resource]
    OBVIOUS
  <2>1. Registered(state, state.bindings[k].owner)
    BY BindingsPlaced DEF Inv
  <2>2. Registered(state', state.bindings[k].owner)
    BY <2>1 DEF Ends
  <2>3. PICK st : Prunes(st)
    BY StepForms DEF Ends, Quiet, Registered
  <2>4. Registered(st, state.bindings[k].owner)
    <3>1. state.clients[state.bindings[k].owner] \in {"live", "lapsed"}
      BY <2>1 DEF Registered
    <3> QED BY <2>2, <2>3, <3>1 DEF Prunes, OnlyEnds, Registered
  <2> QED BY <2>3, <2>4 DEF Prunes, OnlyEnds
<1> QED BY <1>1, InvHolds, PTL DEF Spec, SessionEndSparesOthers

-----------------------------------------------------------------------------
(* The pool of backends, and the database files behind it.                 *)

\* What an enable may end up with is of the database it names; it is in use
\* already, or new: then neither its handle nor a locked file is in use.
LEMMA BackendsForEnable ==
    ASSUME Consistent(state), NEW r \in Resource, NEW config \in Config,
           NEW b \in BackendForEnable(r, config)
    PROVE  /\ b \in Backend
           /\ b.resource = r
           /\ state.resource_backends[r] # Nil => b = state.resource_backends[r]
           /\ state.resource_backends[r] = Nil =>
                 \A a \in LiveBackends :
                     /\ a.handle # b.handle
                     /\ ~ /\ r \in SqliteResource
                          /\ a.resource = r
                          /\ a.config \in LockingConfig
                          /\ b.config \in LockingConfig
<1>1. CASE state.resource_backends[r] = Nil
  <2>1. b \in NewBackends(r, config)
    BY <1>1 DEF BackendForEnable
  <2>2. ~FileLocked(r, config)
    BY <2>1 DEF NewBackends
  <2>3. PICK h \in Handle : /\ b = [handle |-> h, resource |-> r, config |-> config]
                            /\ \A a \in LiveBackends : a.handle # h
    BY <2>1, <2>2 DEF NewBackends
  <2>4. b \in Backend /\ b.handle = h /\ b.resource = r /\ b.config = config
    BY <2>3 DEF Backend
  <2> HIDE DEF LiveBackends
  <2> QED BY <1>1, <2>2, <2>3, <2>4 DEF FileLocked
<1>2. CASE state.resource_backends[r] # Nil
  <2>1. b = state.resource_backends[r]
    BY <1>2 DEF BackendForEnable
  <2> QED BY <1>2, <2>1 DEF Consistent, WellPooled, ControllerState
<1> QED BY <1>1, <1>2

\* An enable binds the key to a backend it may have.
LEMMA EnableSteps ==
    ASSUME Inv, NEW c \in Caller, NEW k \in BindingKey, NEW r \in Resource,
           NEW config \in Config, Enable(c, k, r, config)
    PROVE  \E b \in BackendForEnable(r, config) :
              /\ b \in Backend
              /\ b.resource = r
              /\ Registered(state, c)
              /\ Bound(state', state, c, k, b)
<1>1. PICK b \in BackendForEnable(r, config) :
         state' = Bind(PoolBackend(state, b), k,
                       [owner |-> c, resource |-> r, backend |-> b])
  BY DEF Enable
<1>2. Consistent(state) /\ state \in ControllerState /\ Registered(state, c)
  BY DEF Enable, EnsureCreationAccess, AttachedTo, Inv, Consistent
<1>3. b \in Backend /\ b.resource = r /\ c \in Session
  BY <1>2, BackendsForEnable DEF Registered
<1>4. state' = Bind(PoolBackend(state, b), k,
                    [owner |-> c, resource |-> b.resource, backend |-> b])
  BY <1>1, <1>3
<1>5. Bound(state', state, c, k, b)
  BY <1>2, <1>3, <1>4, BindFields
<1> QED BY <1>2, <1>3, <1>5

\* Only enabling adds to what is held: every other step leaves bindings and
\* pool alone, or lets some of it go.
LEMMA HoldingSteps ==
    ASSUME Inv, [Next]_vars
    PROVE  \/ Ebbs(state', state)
           \/ /\ \E c \in Caller, k \in BindingKey, r \in Resource, g \in Config :
                    Enable(c, k, r, g)
              /\ UNCHANGED <<tasks, workers>>
<1>1. SameHoldings => Ebbs(state', state)
  BY DEF SameHoldings, Ebbs
<1>2. ASSUME NEW st, Prunes(st)
      PROVE  Ebbs(state', state)
  BY <1>2 DEF Prunes, OnlyEnds, Ebbs
<1>3. state \in ControllerState
  BY DEF Inv, Consistent
<1>4. CASE SessionNext \/ SpaceNext
  BY <1>1, <1>2, <1>4, SessionSteps, SpaceSteps
<1>5. CASE BackendNext
  <2>1. \A sp \in Space, b \in Binding :
           Key("sqlite", sp, b) \in BindingKey /\ Key("lancedb", sp, b) \in BindingKey
    BY DEF Key, BindingKey, Kind
  <2>2. ASSUME NEW c, NEW k \in BindingKey, Disable(c, k)
        PROVE  Ebbs(state', state)
    <3>1. state' = RemoveBindings(state, {k}) /\ {k} \in SUBSET BindingKey
      BY <2>2 DEF Disable
    <3> QED BY <1>3, <3>1, RemoveBindingsEbbs
  <2>3. ASSUME NEW c, NEW k, NEW r, NEW g, Enable(c, k, r, g)
        PROVE  UNCHANGED <<tasks, workers>>
    BY <2>3 DEF Enable
  <2>4. SqliteResource \subseteq Resource /\ LanceResource \subseteq Resource
    BY DEF Resource
  <2> QED BY <1>5, <2>1, <2>2, <2>3, <2>4
          DEF BackendNext, EnableSqlite, EnableLanceDb, DisableSqlite, DisableLanceDb
<1>6. CASE CallNext
  BY <1>1, <1>6 DEF CallNext, SqliteCall, LanceDbCall, CallReturns, SameHoldings
<1>7. CASE StreamNext
  <2>1. SameHoldings
    BY <1>3, <1>7
       DEF StreamNext, OpenStream, InsertStream, CloseStream, RemoveStream, UseStream,
           StreamCompletes, StreamGoesStale, ReapStaleStreams, Touched, ControllerState,
           SameHoldings
  <2> QED BY <1>1, <2>1
<1>8. CASE UNCHANGED vars
  BY <1>1, <1>8 DEF vars, SameHoldings
<1> QED BY <1>4, <1>5, <1>6, <1>7, <1>8 DEF Next

\* A backend leaves the pool with the last binding of its database, or when
\* the only binding there is is enabled again.
THEOREM PooledBackendsStay == Spec => PooledWhileBound
<1> DEFINE Stay ==
      \A r \in Resource :
          (/\ state.resource_backends[r] # Nil
           /\ state'.resource_backends[r] # state.resource_backends[r]) =>
              \/ state'.resources[r] = {}
              \/ \E k \in BindingKey :
                    state.resources[r] = {k} /\ state'.resources[r] = {k}
<1>1. Inv /\ [Next]_vars => [Stay]_vars
  <2> SUFFICES ASSUME Inv, [Next]_vars, NEW r \in Resource,
                      state.resource_backends[r] # Nil,
                      state'.resource_backends[r] # state.resource_backends[r]
               PROVE  \/ state'.resources[r] = {}
                      \/ \E k \in BindingKey :
                            state.resources[r] = {k} /\ state'.resources[r] = {k}
    OBVIOUS
  <2>1. CASE Ebbs(state', state)
    BY <2>1 DEF Ebbs
  <2>2. ASSUME NEW c \in Caller, NEW k \in BindingKey, NEW x \in Resource,
               NEW g \in Config, Enable(c, k, x, g)
        PROVE  \/ state'.resources[r] = {}
               \/ state.resources[r] = {k} /\ state'.resources[r] = {k}
    <3>1. PICK b \in BackendForEnable(x, g) : b.resource = x /\ Bound(state', state, c, k, b)
      BY <2>2, EnableSteps
    <3> DEFINE old == Enabled(state, {k})
    <3>2. /\ state'.resources[r] = (state.resources[r] \ OnAmong(old, state.bindings, r))
                                   \cup (IF r = x THEN {k} ELSE {})
          /\ state'.resource_backends[r] =
                IF Released(state, old, state.bindings, r) THEN Nil
                ELSE IF r = x THEN b ELSE state.resource_backends[r]
      BY <3>1 DEF Bound
    <3>3. r = x => b = state.resource_backends[r]
      BY BackendsForEnable DEF Inv
    <3>4. Released(state, old, state.bindings, r)
      BY <3>2, <3>3
    <3>5. state.resources[r] # {} /\ state.resources[r] \subseteq OnAmong(old, state.bindings, r)
      BY <3>4 DEF Released
    <3>6. state.resources[r] = {k} /\ OnAmong(old, state.bindings, r) = {k}
      BY <3>5 DEF OnAmong, Enabled
    <3> QED BY <3>2, <3>6
  <2> QED BY <2>1, <2>2, HoldingSteps
<1> QED BY <1>1, InvHolds, PTL DEF Spec, PooledWhileBound

\* A clone of backend b is held by the pool, a binding, a blocking call that
\* is under way, or the producer thread of a stream.
Holds(st, jobs, threads, b) ==
    \/ \E r \in Resource : st.resource_backends[r] = b
    \/ \E k \in BindingKey : st.bindings[k] # Nil /\ st.bindings[k].backend = b
    \/ \E t \in Task : /\ jobs[t] # Nil
                       /\ jobs[t].op \in {"call", "open"}
                       /\ jobs[t].backend = b
    \/ \E id \in StreamId : threads[id] = b

LEMMA LiveNow ==
    \A b : b \in LiveBackends <=> b # Nil /\ Holds(state, tasks, workers, b)
  BY DEF LiveBackends, Holds

LEMMA LiveNext ==
    \A b : b \in LiveBackends' <=> b # Nil /\ Holds(state', tasks', workers', b)
  BY DEF LiveBackends, Holds

\* Calls and producer threads work on clones of what is in use already.
LEMMA ClonesOfLive ==
    ASSUME Inv, [Next]_vars
    PROVE  /\ \A t \in Task :
                 (tasks'[t] # Nil /\ tasks'[t].op \in {"call", "open"}) =>
                     tasks'[t].backend \in LiveBackends
           /\ \A id \in StreamId : workers'[id] # Nil => workers'[id] \in LiveBackends
<1> DEFINE TasksLive ==
             \A t \in Task : (tasks'[t] # Nil /\ tasks'[t].op \in {"call", "open"}) =>
                                 tasks'[t].backend \in LiveBackends
           WorkersLive ==
             \A id \in StreamId : workers'[id] # Nil => workers'[id] \in LiveBackends
<1> SUFFICES TasksLive /\ WorkersLive
  OBVIOUS
<1>1. /\ state \in ControllerState
      /\ tasks \in [Task -> Job \cup {Nil}]
      /\ workers \in [StreamId -> Backend \cup {Nil}]
  BY DEF Inv, Consistent
<1>2. ASSUME NEW t \in Task, tasks[t] # Nil, tasks[t].op \in {"call", "open"}
      PROVE  tasks[t].backend \in LiveBackends /\ tasks[t].backend \in Backend
  <2>1. tasks[t].backend \in Backend
    BY <1>1, <1>2 DEF Job
  <2> QED BY <1>2, <2>1, LiveNow, NilAssumption DEF Holds
<1>3. \A id \in StreamId : workers[id] # Nil => workers[id] \in LiveBackends
  BY LiveNow DEF Holds
<1>4. ASSUME NEW k \in BindingKey, state.bindings[k] # Nil
      PROVE  state.bindings[k].backend \in LiveBackends
  <2>1. state.bindings[k].backend \in Backend
    BY <1>1, <1>4 DEF ControllerState, BindingEntry
  <2> QED BY <1>4, <2>1, LiveNow, NilAssumption DEF Holds
<1>5. UNCHANGED tasks => TasksLive
  BY <1>2
<1>6. UNCHANGED workers => WorkersLive
  BY <1>3
<1>7. ASSUME NEW t \in Task, NEW job, StartTask(t, job),
             job.op \in {"call", "open"} => job.backend \in LiveBackends
      PROVE  TasksLive
  BY <1>1, <1>2, <1>7 DEF StartTask
<1>8. ASSUME NEW t \in Task, tasks' = [tasks EXCEPT ![t] = Nil]
      PROVE  TasksLive
  BY <1>1, <1>2, <1>8
<1>9. \A sp \in Space, b \in Binding :
         Key("sqlite", sp, b) \in BindingKey /\ Key("lancedb", sp, b) \in BindingKey
  BY DEF Key, BindingKey, Kind
<1>10. ASSUME NEW t \in Task, NEW c, NEW sp \in Space, NEW b \in Binding,
              \/ SqliteCall(t, c, sp, b)
              \/ LanceDbCall(t, c, sp, b)
              \/ OpenStream(t, c, sp, b)
       PROVE  TasksLive /\ WorkersLive
  <2>1. PICK k \in BindingKey :
           /\ state.bindings[k] # Nil
           /\ \E job : /\ StartTask(t, job)
                      /\ job.backend = state.bindings[k].backend
    BY <1>9, <1>10 DEF SqliteCall, LanceDbCall, OpenStream, BackendAccess
  <2>2. UNCHANGED workers
    BY <1>10 DEF SqliteCall, LanceDbCall, OpenStream
  <2> HIDE DEF TasksLive, WorkersLive
  <2> QED BY <1>4, <1>6, <1>7, <2>1, <2>2
<1>11. ASSUME NEW t \in Task, InsertStream(t)
       PROVE  TasksLive /\ WorkersLive
  <2>1. /\ tasks[t] # Nil
        /\ tasks[t].op = "open"
        /\ workers' = [workers EXCEPT ![state.next_query_stream_id] = tasks[t].backend]
        /\ tasks' = [tasks EXCEPT ![t] = Nil]
    BY <1>11 DEF InsertStream
  <2>2. WorkersLive
    BY <1>1, <1>2, <1>3, <2>1
  <2> QED BY <1>8, <2>1, <2>2
<1>12. ASSUME NEW t \in Task, NEW c, NEW id, CloseStream(t, c, id)
       PROVE  TasksLive /\ WorkersLive
  BY <1>6, <1>7, <1>12 DEF CloseStream
<1>13. ASSUME NEW t \in Task, CallReturns(t) \/ RemoveStream(t)
       PROVE  TasksLive /\ WorkersLive
  BY <1>6, <1>8, <1>13 DEF CallReturns, RemoveStream
<1>14. ASSUME NEW id \in StreamId, StreamCompletes(id)
       PROVE  TasksLive /\ WorkersLive
  <2>1. workers' = [workers EXCEPT ![id] = Nil] /\ UNCHANGED tasks
    BY <1>14 DEF StreamCompletes
  <2> QED BY <1>1, <1>3, <1>5, <2>1
<1>15. ASSUME UNCHANGED <<tasks, workers>>
       PROVE  TasksLive /\ WorkersLive
  BY <1>5, <1>6, <1>15
<1> HIDE DEF TasksLive, WorkersLive
<1>16. CASE SessionNext \/ SpaceNext
  BY <1>15, <1>16, SessionSteps, SpaceSteps
<1>17. CASE BackendNext
  BY <1>15, <1>17
     DEF BackendNext, EnableSqlite, EnableLanceDb, DisableSqlite, DisableLanceDb,
         Enable, Disable
<1>18. CASE CallNext
  BY <1>10, <1>13, <1>18 DEF CallNext
<1>19. CASE StreamNext
  BY <1>10, <1>11, <1>12, <1>13, <1>14, <1>15, <1>19
     DEF StreamNext, UseStream, StreamGoesStale, ReapStaleStreams
<1>20. CASE UNCHANGED vars
  BY <1>15, <1>20 DEF vars
<1> QED BY <1>16, <1>17, <1>18, <1>19, <1>20 DEF Next

\* What is in use after a step was in use before, or has just been enabled.
LEMMA LiveSteps ==
    ASSUME Inv, [Next]_vars
    PROVE  \/ LiveBackends' \subseteq LiveBackends
           \/ \E r \in Resource, g \in Config : \E b \in BackendForEnable(r, g) :
                 LiveBackends' \subseteq LiveBackends \cup {b}
<1>1. ASSUME NEW b, b # Nil,
             \/ \E t \in Task : /\ tasks'[t] # Nil
                                /\ tasks'[t].op \in {"call", "open"}
                                /\ tasks'[t].backend = b
             \/ \E id \in StreamId : workers'[id] = b
      PROVE  b \in LiveBackends
  BY <1>1, ClonesOfLive
<1>2. CASE Ebbs(state', state)
  <2>1. ASSUME NEW b \in LiveBackends'
        PROVE  b \in LiveBackends
    <3>1. CASE \E r \in Resource : state'.resource_backends[r] = b
      BY <1>2, <3>1, LiveNow, LiveNext DEF Ebbs, Holds
    <3>2. CASE \E k \in BindingKey : state'.bindings[k] # Nil /\ state'.bindings[k].backend = b
      BY <1>2, <3>2, LiveNow, LiveNext DEF Ebbs, Holds
    <3> QED BY <1>1, <3>1, <3>2, LiveNext DEF Holds
  <2> QED BY <2>1
<1>3. ASSUME NEW c \in Caller, NEW k \in BindingKey, NEW r \in Resource, NEW g \in Config,
             Enable(c, k, r, g)
      PROVE  \E b \in BackendForEnable(r, g) : LiveBackends' \subseteq LiveBackends \cup {b}
  <2>1. PICK b \in BackendForEnable(r, g) : Bound(state', state, c, k, b)
    BY <1>3, EnableSteps
  <2>2. ASSUME NEW a \in LiveBackends', a # b
        PROVE  a \in LiveBackends
    <3>1. CASE \E x \in Resource : state'.resource_backends[x] = a
      <4>1. PICK x \in Resource : state'.resource_backends[x] = a
        BY <3>1
      <4>2. state.resource_backends[x] = a
        BY <2>1, <2>2, <4>1, LiveNext DEF Bound
      <4> QED BY <2>2, <4>2, LiveNow, LiveNext DEF Holds
    <3>2. CASE \E l \in BindingKey : state'.bindings[l] # Nil /\ state'.bindings[l].backend = a
      <4>1. PICK l \in BindingKey : state'.bindings[l] # Nil /\ state'.bindings[l].backend = a
        BY <3>2
      <4>2. state'.bindings[l] = state.bindings[l]
        BY <2>1, <2>2, <4>1 DEF Bound
      <4> QED BY <2>2, <4>1, <4>2, LiveNow, LiveNext DEF Holds
    <3> QED BY <1>1, <2>2, <3>1, <3>2, LiveNext DEF Holds
  <2> QED BY <2>2
<1> QED BY <1>2, <1>3, HoldingSteps

\* A handle is one object, and one locked database file is open in one object,
\* even while calls and streams still work on backends whose binding is gone.
FileOpenOnce ==
    \A a, b \in LiveBackends :
        /\ a.handle = b.handle => a = b
        /\ (/\ a.resource = b.resource
            /\ a.resource \in SqliteResource
            /\ {a.config, b.config} \subseteq LockingConfig) => a = b

\* The backend of a binding is of the database the binding names.
BindingsBacked ==
    \A k \in BindingKey : state.bindings[k] # Nil =>
        state.bindings[k].backend.resource = state.bindings[k].resource

\* An open that would be the second on a locked file is refused, so what is in
\* use stays unambiguous.
LEMMA FilesStep ==
    ASSUME Inv, FileOpenOnce, BindingsBacked, [Next]_vars
    PROVE  FileOpenOnce' /\ BindingsBacked'
<1>1. FileOpenOnce'
  <2>1. CASE LiveBackends' \subseteq LiveBackends
    BY <2>1 DEF FileOpenOnce
  <2>2. ASSUME NEW r \in Resource, NEW g \in Config, NEW b \in BackendForEnable(r, g),
               LiveBackends' \subseteq LiveBackends \cup {b}
        PROVE  FileOpenOnce'
    <3>1. /\ b \in Backend
          /\ b.resource = r
          /\ state.resource_backends[r] # Nil => b = state.resource_backends[r]
          /\ state.resource_backends[r] = Nil =>
                \A a \in LiveBackends :
                    /\ a.handle # b.handle
                    /\ ~ /\ r \in SqliteResource
                         /\ a.resource = r
                         /\ a.config \in LockingConfig
                         /\ b.config \in LockingConfig
      BY BackendsForEnable DEF Inv
    <3>2. CASE state.resource_backends[r] # Nil
      <4>1. b \in LiveBackends
        BY <3>1, <3>2, LiveNow DEF Holds
      <4> QED BY <2>2, <4>1 DEF FileOpenOnce
    <3>3. CASE state.resource_backends[r] = Nil
      <4> SUFFICES ASSUME NEW a \in LiveBackends \cup {b}, NEW x \in LiveBackends \cup {b}
                   PROVE  /\ a.handle = x.handle => a = x
                          /\ (/\ a.resource = x.resource
                              /\ a.resource \in SqliteResource
                              /\ {a.config, x.config} \subseteq LockingConfig) => a = x
        BY <2>2 DEF FileOpenOnce
      <4> HIDE DEF LiveBackends
      <4>1. CASE a \in LiveBackends /\ x \in LiveBackends
        BY <4>1 DEF FileOpenOnce
      <4>2. CASE a = b /\ x = b
        BY <4>2
      <4>3. CASE a = b /\ x \in LiveBackends
        BY <3>1, <3>3, <4>3
      <4>4. CASE a \in LiveBackends /\ x = b
        BY <3>1, <3>3, <4>4
      <4> QED BY <4>1, <4>2, <4>3, <4>4
    <3> QED BY <3>2, <3>3
  <2> QED BY <2>1, <2>2, LiveSteps
<1>2. BindingsBacked'
  <2>1. CASE Ebbs(state', state)
    BY <2>1 DEF Ebbs, BindingsBacked
  <2>2. ASSUME NEW c \in Caller, NEW k \in BindingKey, NEW r \in Resource,
               NEW g \in Config, Enable(c, k, r, g)
        PROVE  BindingsBacked'
    <3>1. PICK b : Bound(state', state, c, k, b)
      BY <2>2, EnableSteps
    <3> QED BY <3>1 DEF Bound, BindingsBacked
  <2> QED BY <2>1, <2>2, HoldingSteps
<1> QED BY <1>1, <1>2

\* No database file with a lock is open twice, whatever outlives its binding.
THEOREM FilesOpenOnce == Spec => [](FileOpenOnce /\ BindingsBacked)
<1>1. Init => FileOpenOnce /\ BindingsBacked
  BY LiveNow DEF Init, Holds, FileOpenOnce, BindingsBacked
<1>2. /\ Inv /\ FileOpenOnce /\ BindingsBacked /\ [Next]_vars
      => FileOpenOnce' /\ BindingsBacked'
  BY FilesStep
<1> QED BY <1>1, <1>2, InvHolds, PTL DEF Spec

\* Two bindings of one database whose configurations lock the file share one
\* backend: the part of BackendShared that holds whatever hosts do.
SharedUnderLock ==
    \A k, l \in BindingKey :
        (/\ state.bindings[k] # Nil
         /\ state.bindings[l] # Nil
         /\ state.bindings[k].resource = state.bindings[l].resource
         /\ state.bindings[k].resource \in SqliteResource
         /\ {state.bindings[k].backend.config, state.bindings[l].backend.config}
               \subseteq LockingConfig)
        => state.bindings[k].backend = state.bindings[l].backend

\* The lock on the file makes up for the pool that a second enable empties.
THEOREM LockingBindingsShare == Spec => []SharedUnderLock
<1>1. Inv /\ FileOpenOnce /\ BindingsBacked => SharedUnderLock
  <2> SUFFICES ASSUME Inv, FileOpenOnce, BindingsBacked PROVE SharedUnderLock
    OBVIOUS
  <2>1. ASSUME NEW k \in BindingKey, state.bindings[k] # Nil
        PROVE  /\ state.bindings[k].backend \in LiveBackends
               /\ state.bindings[k].backend.resource = state.bindings[k].resource
    <3>1. state.bindings[k].backend \in Backend
      BY <2>1 DEF Inv, Consistent, ControllerState, BindingEntry
    <3> QED BY <2>1, <3>1, LiveNow, NilAssumption DEF Holds, BindingsBacked
  <2> HIDE DEF LiveBackends
  <2> QED BY <2>1 DEF FileOpenOnce, SharedUnderLock
<1> QED BY <1>1, FilesOpenOnce, InvHolds, PTL

\* A session enables a binding that it has already.
Reenables ==
    \E c \in Caller, k \in BindingKey, r \in Resource, g \in Config :
        state.bindings[k] # Nil /\ Enable(c, k, r, g)

\* Every binding works on the backend in the pool.
PoolHoldsAll ==
    \A k \in BindingKey : state.bindings[k] # Nil =>
        state.resource_backends[state.bindings[k].resource] = state.bindings[k].backend

\* Enabling twice is the only way to two backends on one database: while no
\* session does it, all bindings of a database share the pooled backend.
THEOREM SharedUnlessReenabled == Spec /\ [][~Reenables]_vars => []BackendShared
<1>1. Init => PoolHoldsAll
  BY DEF Init, PoolHoldsAll
<1>2. /\ Inv /\ Inv' /\ PoolHoldsAll /\ [Next]_vars /\ [~Reenables]_vars
      => PoolHoldsAll'
  <2> SUFFICES ASSUME Inv, Inv', PoolHoldsAll, [Next]_vars, [~Reenables]_vars,
                      NEW l \in BindingKey, state'.bindings[l] # Nil
               PROVE  state'.resource_backends[state'.bindings[l].resource]
                         = state'.bindings[l].backend
    BY DEF PoolHoldsAll
  <2>1. /\ state'.bindings[l].resource \in Resource
        /\ l \in state'.resources[state'.bindings[l].resource]
    BY DEF Inv, Consistent, ControllerState, BindingEntry, WellPooled
  <2>2. CASE Ebbs(state', state)
    BY <2>1, <2>2 DEF Ebbs, PoolHoldsAll
  <2>3. ASSUME NEW c \in Caller, NEW k \in BindingKey, NEW r \in Resource,
               NEW g \in Config, Enable(c, k, r, g), state' # state
        PROVE  state'.resource_backends[state'.bindings[l].resource]
                  = state'.bindings[l].backend
    <3>1. state.bindings[k] = Nil
      BY <2>3 DEF Reenables, vars
    <3>2. PICK b \in BackendForEnable(r, g) : /\ b.resource = r
                                              /\ b \in Backend
                                              /\ Bound(state', state, c, k, b)
      BY <2>3, EnableSteps
    <3>3. Enabled(state, {k}) = {}
      BY <3>1 DEF Enabled
    <3>4. \A x \in Resource : state'.resource_backends[x] =
             IF x = r THEN b ELSE state.resource_backends[x]
      BY <3>2, <3>3 DEF Bound, Released, OnAmong
    <3>5. CASE l = k
      BY <2>3, <3>2, <3>4, <3>5 DEF Bound
    <3>6. CASE l # k
      <4>1. state'.bindings[l] = state.bindings[l]
        BY <3>2, <3>6 DEF Bound
      <4>2. state.resource_backends[state.bindings[l].resource] = state.bindings[l].backend
        BY <4>1 DEF PoolHoldsAll
      <4>3. state.bindings[l].backend # Nil
        BY <4>1, NilAssumption DEF Inv, Consistent, ControllerState, BindingEntry
      <4>4. state.bindings[l].resource = r => b = state.bindings[l].backend
        BY <4>2, <4>3, BackendsForEnable DEF Inv
      <4> QED BY <2>1, <3>4, <4>1, <4>2, <4>4
    <3> QED BY <3>5, <3>6
  <2> QED BY <2>2, <2>3, HoldingSteps DEF PoolHoldsAll
<1>3. PoolHoldsAll => BackendShared
  BY DEF PoolHoldsAll, BackendShared
<1> QED BY <1>1, <1>2, <1>3, InvHolds, PTL DEF Spec

-----------------------------------------------------------------------------
(* Streams.  Identifiers are not used twice, so a close that has passed its *)
(* access check still names a stream of the session that asked for it.      *)

StreamInv ==
    /\ \A id \in StreamId :
          state.query_streams[id] # Nil => id < state.next_query_stream_id
    /\ \A t \in Task :
          (tasks[t] # Nil /\ tasks[t].op = "close") =>
              /\ tasks[t].stream < state.next_query_stream_id
              /\ state.query_streams[tasks[t].stream] # Nil =>
                    state.query_streams[tasks[t].stream].owner = tasks[t].client

\* Streams may go or be touched.
StreamsKept ==
    /\ state'.next_query_stream_id = state.next_query_stream_id
    /\ \A id \in StreamId : state'.query_streams[id] # Nil =>
          /\ state.query_streams[id] # Nil
          /\ state'.query_streams[id].owner = state.query_streams[id].owner
          /\ state'.query_streams[id].space = state.query_streams[id].space

\* An open enters its stream under the next number; the others stay.
StreamOpened ==
    /\ state'.clients = state.clients
    /\ \E t \in Task :
          LET id == state.next_query_stream_id
          IN /\ tasks[t] \in Job
             /\ tasks[t].op = "open"
             /\ tasks'[t] = Nil
             /\ state'.next_query_stream_id = id + 1
             /\ \A x \in StreamId : state'.query_streams[x] =
                   IF x = id
                   THEN [owner |-> tasks[t].client, space |-> tasks[t].space,
                         stale |-> FALSE]
                   ELSE state.query_streams[x]

\* Streams may go or be touched, and nobody starts a close.
NoNewStreams ==
    /\ StreamsKept
    /\ \A t \in Task : \/ tasks'[t] = tasks[t]
                       \/ tasks'[t] = Nil
                       \/ tasks'[t].op # "close"

\* Such a step cannot make a close name somebody else's stream.
LEMMA NoNewStreamsInv ==
    ASSUME Inv, StreamInv, NoNewStreams
    PROVE  StreamInv'
<1>1. \A t \in Task : tasks[t] # Nil /\ tasks[t].op = "close" => tasks[t].stream \in StreamId
  BY DEF Inv, Job
<1>2. ASSUME NEW t \in Task, tasks'[t] # Nil, tasks'[t].op = "close"
      PROVE  /\ tasks'[t].stream < state'.next_query_stream_id
             /\ state'.query_streams[tasks'[t].stream] # Nil =>
                   state'.query_streams[tasks'[t].stream].owner = tasks'[t].client
  <2>1. tasks'[t] = tasks[t]
    BY <1>2 DEF NoNewStreams, StreamsKept
  <2>2. tasks[t].stream \in StreamId
    BY <1>1, <1>2, <2>1
  <2> QED BY <1>2, <2>1, <2>2 DEF NoNewStreams, StreamsKept, StreamInv
<1>3. \A id \in StreamId :
         state'.query_streams[id] # Nil => id < state'.next_query_stream_id
  BY DEF NoNewStreams, StreamsKept, StreamInv
<1> QED BY <1>2, <1>3 DEF StreamInv

\* Sessions that end take their streams, and nothing else outside StreamNext
\* touches one.
LEMMA RegistryStreams ==
    ASSUME Inv, [SessionNext \/ SpaceNext \/ BackendNext \/ CallNext]_vars
    PROVE  /\ NoNewStreams
           /\ UNCHANGED workers
           /\ \A id \in StreamId : state'.query_streams[id] \in {Nil, state.query_streams[id]}
           /\ \A id \in StreamId :
                 (state.query_streams[id] # Nil /\ state'.query_streams[id] = Nil) =>
                     Ends(state.query_streams[id].owner)
<1>1. ASSUME NEW st, Prunes(st), UNCHANGED tasks
      PROVE  /\ NoNewStreams
             /\ \A id \in StreamId : state'.query_streams[id] \in {Nil, state.query_streams[id]}
             /\ \A id \in StreamId :
                   (state.query_streams[id] # Nil /\ state'.query_streams[id] = Nil) =>
                       Ends(state.query_streams[id].owner)
  <2>1. NoNewStreams
    BY <1>1 DEF Prunes, OnlyEnds, NoNewStreams, StreamsKept
  <2>2. ASSUME NEW id \in StreamId,
               state.query_streams[id] # Nil, state'.query_streams[id] = Nil
        PROVE  Ends(state.query_streams[id].owner)
    <3> DEFINE s == state.query_streams[id].owner
    <3>1. Registered(state, s) /\ ~Registered(st, s)
      BY <1>1, <2>2 DEF Prunes, OnlyEnds
    <3>2. s \in Session /\ st.clients[s] = "ended"
      BY <1>1, <3>1 DEF Prunes, OnlyEnds, Registered
    <3>3. state'.clients[s] = "ended"
      BY <1>1, <3>2 DEF Prunes
    <3> QED BY <3>1, <3>3 DEF Ends, Registered
  <2>3. \A id \in StreamId : state'.query_streams[id] \in {Nil, state.query_streams[id]}
    BY <1>1 DEF Prunes, OnlyEnds
  <2> QED BY <2>1, <2>2, <2>3
<1>2. ASSUME SameStreams, UNCHANGED tasks
      PROVE  /\ NoNewStreams
             /\ \A id \in StreamId : state'.query_streams[id] \in {Nil, state.query_streams[id]}
             /\ \A id \in StreamId :
                   (state.query_streams[id] # Nil /\ state'.query_streams[id] = Nil) =>
                       Ends(state.query_streams[id].owner)
  BY <1>2 DEF SameStreams, NoNewStreams, StreamsKept
<1>3. CASE SessionNext \/ SpaceNext
  BY <1>1, <1>2, <1>3, SessionSteps, SpaceSteps
<1>4. CASE BackendNext
  <2>1. state \in ControllerState
    BY DEF Inv, Consistent
  <2>2. ASSUME NEW c, NEW k, NEW r, NEW g, Enable(c, k, r, g)
        PROVE  SameStreams /\ UNCHANGED <<tasks, workers>>
    BY <2>1, <2>2
       DEF Enable, Bind, TrackBinding, UntrackBindings, PoolBackend, ControllerState,
           SameStreams
  <2>3. ASSUME NEW c, NEW k, Disable(c, k)
        PROVE  SameStreams /\ UNCHANGED <<tasks, workers>>
    BY <2>1, <2>3 DEF Disable, RemoveBindings, UntrackBindings, ControllerState, SameStreams
  <2> QED BY <1>2, <1>4, <2>2, <2>3
          DEF BackendNext, EnableSqlite, EnableLanceDb, DisableSqlite, DisableLanceDb
<1>5. CASE CallNext
  <2>1. /\ UNCHANGED <<state, workers>>
        /\ \A t \in Task : tasks'[t] = tasks[t] \/ tasks'[t] = Nil \/ tasks'[t].op # "close"
    BY <1>5 DEF CallNext, SqliteCall, LanceDbCall, CallReturns, StartTask, Inv
  <2> QED BY <2>1 DEF NoNewStreams, StreamsKept
<1>6. CASE UNCHANGED vars
  BY <1>2, <1>6 DEF vars, SameStreams
<1> QED BY <1>3, <1>4, <1>5, <1>6

\* A stream is taken from the registry for a reason its owner can know of.
Justified(id) ==
    LET owner == state.query_streams[id].owner
    IN \/ Ends(owner)
       \/ workers[id] = Nil /\ state.query_streams[id].stale
       \/ \E t \in Task :
             /\ tasks[t] = [op |-> "close", client |-> owner, stream |-> id]
             /\ tasks'[t] = Nil

\* The steps on streams keep the numbering and take a stream only if they may.
LEMMA StreamSteps ==
    ASSUME Inv, StreamInv, StreamNext
    PROVE  /\ StreamInv'
           /\ StreamsKept \/ StreamOpened
           /\ \A id \in StreamId :
                 (state.query_streams[id] # Nil /\ state'.query_streams[id] = Nil) =>
                     Justified(id)
<1>1. /\ state \in ControllerState
      /\ tasks \in [Task -> Job \cup {Nil}]
      /\ state.query_streams \in [StreamId -> StreamEntry \cup {Nil}]
      /\ state.next_query_stream_id \in Nat
      /\ state.next_query_stream_id > 0
  BY DEF Inv, Consistent, ControllerState
<1>2. \A id \in StreamId : id \in Nat
  BY ConstantsAssumption DEF StreamId
<1>3. ASSUME NEW id \in StreamId, state.query_streams[id] # Nil, NEW stale \in BOOLEAN,
             state' = [state EXCEPT !.query_streams[id].stale = stale]
      PROVE  /\ state'.next_query_stream_id = state.next_query_stream_id
             /\ \A x \in StreamId :
                   /\ state'.query_streams[x] = Nil <=> state.query_streams[x] = Nil
                   /\ state.query_streams[x] # Nil =>
                         /\ state'.query_streams[x].owner = state.query_streams[x].owner
                         /\ state'.query_streams[x].space = state.query_streams[x].space
  <2>1. [state.query_streams[id] EXCEPT !.stale = stale] \in StreamEntry
    BY <1>1, <1>3 DEF StreamEntry
  <2>2. /\ [state.query_streams[id] EXCEPT !.stale = stale].owner = state.query_streams[id].owner
        /\ [state.query_streams[id] EXCEPT !.stale = stale].space = state.query_streams[id].space
    BY <1>1, <1>3 DEF StreamEntry
  <2>3. /\ state'.next_query_stream_id = state.next_query_stream_id
        /\ state'.query_streams = [state.query_streams EXCEPT
              ![id] = [state.query_streams[id] EXCEPT !.stale = stale]]
    BY <1>1, <1>3 DEF ControllerState
  <2> QED BY <1>1, <1>3, <2>1, <2>2, <2>3, NilAssumption
<1>4. ASSUME NEW t \in Task, NEW c \in Caller, NEW sp \in Space, NEW b \in Binding,
             OpenStream(t, c, sp, b)
      PROVE  NoNewStreams /\ SameStreams
  BY <1>1, <1>4 DEF OpenStream, StartTask, NoNewStreams, StreamsKept, SameStreams
<1>5. ASSUME NEW t \in Task, InsertStream(t)
      PROVE  /\ StreamInv'
             /\ StreamOpened
             /\ \A id \in StreamId :
                   state.query_streams[id] # Nil => state'.query_streams[id] # Nil
  <2> DEFINE id == state.next_query_stream_id
             entry == [owner |-> tasks[t].client, space |-> tasks[t].space,
                       stale |-> FALSE]
  <2>1. id \in StreamId /\ tasks[t] \in Job /\ tasks[t].op = "open"
    BY <1>1, <1>5, ConstantsAssumption DEF InsertStream, StreamId
  <2>2. entry \in StreamEntry
    BY <2>1 DEF Job, StreamEntry
  <2>3. /\ state'.query_streams = [state.query_streams EXCEPT ![id] = entry]
        /\ state'.next_query_stream_id = id + 1
        /\ tasks' = [tasks EXCEPT ![t] = Nil]
    BY <1>1, <1>5 DEF InsertStream, ControllerState
  <2> HIDE DEF entry
  <2>4. \A x \in StreamId : state'.query_streams[x] # Nil => x < state'.next_query_stream_id
    BY <1>1, <1>2, <2>1, <2>3 DEF StreamInv
  <2>5. ASSUME NEW u \in Task, tasks'[u] # Nil, tasks'[u].op = "close"
        PROVE  /\ tasks'[u].stream < state'.next_query_stream_id
               /\ state'.query_streams[tasks'[u].stream] # Nil =>
                     state'.query_streams[tasks'[u].stream].owner = tasks'[u].client
    <3>1. tasks'[u] = tasks[u]
      BY <1>1, <2>3, <2>5
    <3>2. tasks[u].stream \in StreamId
      BY <1>1, <2>5, <3>1 DEF Job
    <3>3. /\ tasks[u].stream < id
          /\ state.query_streams[tasks[u].stream] # Nil =>
                state.query_streams[tasks[u].stream].owner = tasks[u].client
      BY <2>5, <3>1 DEF StreamInv
    <3>4. state'.query_streams[tasks[u].stream] = state.query_streams[tasks[u].stream]
      BY <1>1, <1>2, <2>3, <3>2, <3>3
    <3> QED BY <1>1, <1>2, <2>3, <3>1, <3>2, <3>3, <3>4
  <2>6. \A x \in StreamId : state.query_streams[x] # Nil => state'.query_streams[x] # Nil
    BY <1>1, <2>2, <2>3, NilAssumption
  <2>7. state'.clients = state.clients
    BY OtherSteps
  <2>8. \A x \in StreamId :
           state'.query_streams[x] = IF x = id THEN entry ELSE state.query_streams[x]
    BY <1>1, <2>1, <2>3
  <2>9. tasks'[t] = Nil
    BY <1>1, <2>3
  <2>10. StreamOpened
    BY <2>1, <2>3, <2>7, <2>8, <2>9 DEF StreamOpened, entry
  <2> QED BY <2>4, <2>5, <2>6, <2>10 DEF StreamInv
<1>6. ASSUME NEW t \in Task, NEW c \in Caller, NEW id \in StreamId, CloseStream(t, c, id)
      PROVE  /\ StreamInv'
             /\ StreamsKept
             /\ \A x \in StreamId :
                   state.query_streams[x] # Nil => state'.query_streams[x] # Nil
  <2>1. /\ state.query_streams[id] # Nil
        /\ state.query_streams[id].owner = c
        /\ state' = [state EXCEPT !.query_streams[id].stale = FALSE]
        /\ tasks' = [tasks EXCEPT ![t] = [op |-> "close", client |-> c, stream |-> id]]
    BY <1>6 DEF CloseStream, StreamAccess, StartTask, Touched
  <2>2. /\ state'.next_query_stream_id = state.next_query_stream_id
        /\ \A x \in StreamId :
              /\ state'.query_streams[x] = Nil <=> state.query_streams[x] = Nil
              /\ state.query_streams[x] # Nil =>
                    /\ state'.query_streams[x].owner = state.query_streams[x].owner
                    /\ state'.query_streams[x].space = state.query_streams[x].space
    BY <1>3, <2>1
  <2>3. \A x \in StreamId : state'.query_streams[x] # Nil => x < state'.next_query_stream_id
    BY <2>2 DEF StreamInv
  <2>4. ASSUME NEW u \in Task, tasks'[u] # Nil, tasks'[u].op = "close"
        PROVE  /\ tasks'[u].stream < state'.next_query_stream_id
               /\ state'.query_streams[tasks'[u].stream] # Nil =>
                     state'.query_streams[tasks'[u].stream].owner = tasks'[u].client
    <3>1. CASE u = t
      <4>1. tasks'[u] = [op |-> "close", client |-> c, stream |-> id]
        BY <1>1, <2>1, <3>1
      <4> QED BY <2>1, <2>2, <2>3, <4>1
    <3>2. CASE u # t
      <4>1. tasks'[u] = tasks[u]
        BY <1>1, <2>1, <3>2
      <4>2. tasks[u].stream \in StreamId
        BY <1>1, <2>4, <4>1 DEF Job
      <4> QED BY <2>2, <2>4, <4>1, <4>2 DEF StreamInv
    <3> QED BY <3>1, <3>2
  <2> QED BY <2>2, <2>3, <2>4 DEF StreamInv, StreamsKept
<1>7. ASSUME NEW t \in Task, RemoveStream(t)
      PROVE  /\ NoNewStreams
             /\ \A id \in StreamId :
                   (state.query_streams[id] # Nil /\ state'.query_streams[id] = Nil) =>
                       Justified(id)
  <2> DEFINE id == tasks[t].stream
  <2>1. tasks[t] \in Job /\ tasks[t].op = "close" /\ id \in StreamId
    BY <1>1, <1>7 DEF RemoveStream, Job
  <2>2. /\ state'.query_streams = [state.query_streams EXCEPT ![id] = Nil]
        /\ state'.next_query_stream_id = state.next_query_stream_id
        /\ tasks' = [tasks EXCEPT ![t] = Nil]
    BY <1>1, <1>7 DEF RemoveStream, ControllerState
  <2>3. NoNewStreams
    BY <1>1, <2>2 DEF NoNewStreams, StreamsKept
  <2>4. ASSUME state.query_streams[id] # Nil
        PROVE  Justified(id)
    <3>1. state.query_streams[id].owner = tasks[t].client
      BY <1>1, <1>7, <2>1, <2>4, NilJobAssumption DEF StreamInv
    <3>2. tasks[t] = [op |-> "close", client |-> tasks[t].client, stream |-> id]
      BY <2>1 DEF Job
    <3> QED BY <1>1, <2>2, <3>1, <3>2 DEF Justified
  <2>5. \A x \in StreamId : x # id => state'.query_streams[x] = state.query_streams[x]
    BY <1>1, <2>2
  <2> QED BY <2>3, <2>4, <2>5
<1>8. ASSUME NEW id \in StreamId,
             \/ \E c \in Caller : UseStream(c, id)
             \/ StreamCompletes(id)
             \/ StreamGoesStale(id)
      PROVE  /\ NoNewStreams
             /\ \A x \in StreamId :
                   state.query_streams[x] # Nil => state'.query_streams[x] # Nil
  <2>1. UNCHANGED tasks
    BY <1>8 DEF UseStream, StreamCompletes, StreamGoesStale
  <2>2. \/ state' = state
        \/ /\ state.query_streams[id] # Nil
           /\ \E stale \in BOOLEAN : state' = [state EXCEPT !.query_streams[id].stale = stale]
    BY <1>8 DEF UseStream, StreamAccess, StreamCompletes, StreamGoesStale, Touched
  <2> QED BY <1>3, <2>1, <2>2 DEF NoNewStreams, StreamsKept
<1>9. CASE ReapStaleStreams
  <2>1. /\ \A id \in StreamId : state'.query_streams[id] =
              IF Reapable(id) THEN Nil ELSE state.query_streams[id]
        /\ state'.next_query_stream_id = state.next_query_stream_id
        /\ UNCHANGED tasks
    BY <1>1, <1>9 DEF ReapStaleStreams, ControllerState
  <2>2. NoNewStreams
    BY <2>1 DEF NoNewStreams, StreamsKept
  <2>3. \A id \in StreamId :
           (state.query_streams[id] # Nil /\ state'.query_streams[id] = Nil) => Justified(id)
    BY <2>1 DEF Reapable, Justified
  <2> QED BY <2>2, <2>3, NoNewStreamsInv DEF NoNewStreams
<1> QED BY <1>4, <1>5, <1>6, <1>7, <1>8, <1>9, NoNewStreamsInv
        DEF StreamNext, SameStreams, NoNewStreams

\* One step, of any kind.
LEMMA StreamsStep ==
    ASSUME Inv, StreamInv, [Next]_vars
    PROVE  /\ StreamInv'
           /\ StreamsKept \/ StreamOpened
           /\ \A id \in StreamId :
                 (state.query_streams[id] # Nil /\ state'.query_streams[id] = Nil) =>
                     Justified(id)
<1>1. CASE StreamNext
  BY <1>1, StreamSteps
<1>2. CASE [SessionNext \/ SpaceNext \/ BackendNext \/ CallNext]_vars
  BY <1>2, RegistryStreams, NoNewStreamsInv DEF Justified, NoNewStreams
<1> QED BY <1>1, <1>2 DEF Next

\* Stream numbers grow, and a close under way names a stream of its caller.
LEMMA StreamInvHolds == Spec => []StreamInv
<1>1. Init => StreamInv
  BY DEF Init, StreamInv
<1>2. Inv /\ StreamInv /\ [Next]_vars => StreamInv'
  BY StreamsStep
<1> QED BY <1>1, <1>2, InvHolds, PTL DEF Spec

\* A query stream disappears only when its owner's session ends, when its
\* owner closes it, or when it is complete and has been idle for the threshold.
THEOREM StreamsTakenForCause == Spec => StreamRemovalJustified
<1> DEFINE Taken ==
      \A id \in StreamId :
          (state.query_streams[id] # Nil /\ state'.query_streams[id] = Nil) =>
              Justified(id)
<1>1. Inv /\ StreamInv /\ [Next]_vars => [Taken]_vars
  BY StreamsStep
<1>2. StreamRemovalJustified <=> [][Taken]_vars
  BY DEF StreamRemovalJustified, Justified
<1> QED BY <1>1, <1>2, InvHolds, StreamInvHolds, PTL DEF Spec

\* An identifier names one stream for good: a stream that a step leaves in the
\* registry was there before, with the owner and the space it has, or has just
\* been entered under the next number, which grows.
StreamIdsFresh ==
    [][/\ state'.next_query_stream_id \in
             {state.next_query_stream_id, state.next_query_stream_id + 1}
       /\ \A id \in StreamId : state'.query_streams[id] # Nil =>
             \/ /\ state.query_streams[id] # Nil
                /\ state'.query_streams[id].owner = state.query_streams[id].owner
                /\ state'.query_streams[id].space = state.query_streams[id].space
             \/ /\ state.query_streams[id] = Nil
                /\ id = state.next_query_stream_id
                /\ state'.next_query_stream_id = id + 1]_vars

\* A reader, a close or a reaper that comes late finds its own stream or none.
THEOREM IdentifiersFresh == Spec => StreamIdsFresh
<1> DEFINE Fresh ==
      /\ state'.next_query_stream_id \in
             {state.next_query_stream_id, state.next_query_stream_id + 1}
      /\ \A id \in StreamId : state'.query_streams[id] # Nil =>
             \/ /\ state.query_streams[id] # Nil
                /\ state'.query_streams[id].owner = state.query_streams[id].owner
                /\ state'.query_streams[id].space = state.query_streams[id].space
             \/ /\ state.query_streams[id] = Nil
                /\ id = state.next_query_stream_id
                /\ state'.next_query_stream_id = id + 1
<1>1. Inv /\ StreamInv /\ [Next]_vars => [Fresh]_vars
  <2> SUFFICES ASSUME Inv, StreamInv, [Next]_vars PROVE Fresh
    OBVIOUS
  <2>1. CASE StreamsKept
    BY <2>1 DEF StreamsKept
  <2>2. CASE StreamOpened
    <3> DEFINE next == state.next_query_stream_id
    <3>1. next \in Nat
      BY DEF Inv, Consistent, ControllerState
    <3>2. next \in StreamId => state.query_streams[next] = Nil
      BY <3>1 DEF StreamInv
    <3> QED BY <2>2, <3>2 DEF StreamOpened
  <2> QED BY <2>1, <2>2, StreamsStep
<1> QED BY <1>1, InvHolds, StreamInvHolds, PTL DEF Spec, StreamIdsFresh

-----------------------------------------------------------------------------
(* What becomes of a stream that is entered for a session already gone.    *)

Orphan(id) ==
    /\ state.query_streams[id] # Nil
    /\ ~Registered(state, state.query_streams[id].owner)

\* An orphaned stream is out of everybody's reach, so it stays until the reaper
\* finds it stale.
OrphansOutOfReach ==
    \A id \in StreamId : Orphan(id) => \A c \in Caller : ~StreamAccess(c, id)

\* A stream is orphaned in one way only: its open was under way outside the
\* lock when the session ended, and enters the stream all the same.
OrphansByOpen ==
    [][\A id \in StreamId : (~Orphan(id) /\ Orphan(id)') =>
          /\ id = state.next_query_stream_id
          /\ \E t \in Task : /\ tasks[t] # Nil
                             /\ tasks[t].op = "open"
                             /\ tasks'[t] = Nil
                             /\ ~Registered(state, tasks[t].client)]_vars

\* Access asks for the owner, attached to the space, which is registered.
THEOREM OrphansUnreachable == Spec => []OrphansOutOfReach
<1>1. Inv => OrphansOutOfReach
  <2> SUFFICES ASSUME Inv, NEW id \in StreamId, Orphan(id),
                      NEW c \in Caller, StreamAccess(c, id)
               PROVE  FALSE
    BY DEF OrphansOutOfReach
  <2> DEFINE sp == state.query_streams[id].space
  <2>1. sp \in Space
    BY DEF Inv, Consistent, ControllerState, StreamEntry, StreamAccess
  <2>2. EnsureSpaceAccess(state, sp, c) /\ ~Registered(state, c)
    BY DEF StreamAccess, Orphan
  <2>3. state.attached_clients[sp] # {}
    BY <2>1, <2>2 DEF EnsureSpaceAccess, Inv, Consistent, WellAttached
  <2> QED BY <2>2, <2>3 DEF EnsureSpaceAccess, AttachedTo
<1> QED BY <1>1, InvHolds, PTL

\* The end of a session takes the streams that are registered; only one that
\* comes later can be left without an owner.
THEOREM OrphansComeByOpen == Spec => OrphansByOpen
<1> DEFINE ByOpen ==
      \A id \in StreamId : (~Orphan(id) /\ Orphan(id)') =>
          /\ id = state.next_query_stream_id
          /\ \E t \in Task : /\ tasks[t] # Nil
                             /\ tasks[t].op = "open"
                             /\ tasks'[t] = Nil
                             /\ ~Registered(state, tasks[t].client)
<1>1. Inv /\ StreamInv /\ [Next]_vars => [ByOpen]_vars
  <2> SUFFICES ASSUME Inv, StreamInv, [Next]_vars,
                      NEW id \in StreamId, ~Orphan(id), Orphan(id)'
               PROVE  /\ id = state.next_query_stream_id
                      /\ \E t \in Task : /\ tasks[t] # Nil
                                         /\ tasks[t].op = "open"
                                         /\ tasks'[t] = Nil
                                         /\ ~Registered(state, tasks[t].client)
    OBVIOUS
  <2>1. /\ state'.query_streams[id] # Nil
        /\ ~Registered(state', state'.query_streams[id].owner)
    BY DEF Orphan
  <2>2. CASE StreamsKept
    <3> DEFINE s == state.query_streams[id].owner
    <3>1. state.query_streams[id] # Nil /\ state'.query_streams[id].owner = s
      BY <2>1, <2>2 DEF StreamsKept
    <3>2. Ends(s) /\ s \in Session
      BY <2>1, <3>1 DEF Orphan, Ends, Registered
    <3> QED BY <2>1, <3>1, <3>2, EndTakesStreams
  <2>3. CASE StreamOpened
    <3>1. PICK t \in Task :
             /\ tasks[t] \in Job
             /\ tasks[t].op = "open"
             /\ tasks'[t] = Nil
             /\ state'.query_streams[id] =
                   IF id = state.next_query_stream_id
                   THEN [owner |-> tasks[t].client, space |-> tasks[t].space,
                         stale |-> FALSE]
                   ELSE state.query_streams[id]
      BY <2>3 DEF StreamOpened
    <3>2. state'.clients = state.clients
      BY <2>3 DEF StreamOpened
    <3>3. id = state.next_query_stream_id
      BY <2>1, <3>1, <3>2 DEF Orphan, Registered
    <3>4. ~Registered(state, tasks[t].client)
      BY <2>1, <3>1, <3>2, <3>3 DEF Registered
    <3> QED BY <3>1, <3>3, <3>4, NilJobAssumption
  <2> QED BY <2>2, <2>3, StreamsStep
<1> QED BY <1>1, InvHolds, StreamInvHolds, PTL DEF Spec, OrphansByOpen

\* Whoever a stream or an open under way names has been a session once.
OwnersKnown ==
    /\ \A id \in StreamId : state.query_streams[id] # Nil =>
          state.clients[state.query_streams[id].owner] # "unused"
    /\ \A t \in Task : (tasks[t] # Nil /\ tasks[t].op = "open") =>
          state.clients[tasks[t].client] # "unused"

\* No identifier is handed out twice: a session that has been is never unused.
LEMMA KnownStay ==
    ASSUME Inv, [Next]_vars, NEW s \in Session
    PROVE  /\ state.clients[s] # "unused" => state'.clients[s] # "unused"
           /\ state.clients[s] = "ended" => state'.clients[s] = "ended"
<1>1. CASE Quiet
  BY <1>1 DEF Quiet
<1>2. ASSUME NEW st, Prunes(st)
      PROVE  /\ state.clients[s] # "unused" => state'.clients[s] # "unused"
             /\ state.clients[s] = "ended" => state'.clients[s] = "ended"
  BY <1>2 DEF Prunes, OnlyEnds, Registered
<1> QED BY <1>1, <1>2, StepForms

\* An open starts for a session that is registered.
LEMMA OpensByRegistered ==
    ASSUME Inv, [Next]_vars, NEW t \in Task, tasks'[t] # Nil, tasks'[t].op = "open"
    PROVE  \/ tasks'[t] = tasks[t]
           \/ Registered(state, tasks'[t].client)
<1>1. tasks \in [Task -> Job \cup {Nil}]
  BY DEF Inv
<1>2. CASE SessionNext \/ SpaceNext
  BY <1>2, SessionSteps, SpaceSteps
<1>3. CASE BackendNext \/ UNCHANGED vars
  <2>1. ASSUME NEW c, NEW k, NEW r, NEW g, Enable(c, k, r, g) \/ Disable(c, k)
        PROVE  UNCHANGED tasks
    BY <2>1 DEF Enable, Disable
  <2> QED BY <1>3, <2>1
          DEF BackendNext, EnableSqlite, EnableLanceDb, DisableSqlite, DisableLanceDb, vars
<1>4. CASE CallNext
  BY <1>1, <1>4 DEF CallNext, SqliteCall, LanceDbCall, CallReturns, StartTask
<1>5. CASE StreamNext
  <2>1. ASSUME NEW u \in Task, NEW c \in Caller, NEW sp \in Space, NEW b \in Binding,
               OpenStream(u, c, sp, b)
        PROVE  tasks'[t] = tasks[t] \/ Registered(state, tasks'[t].client)
    <3> DEFINE k == Key("sqlite", sp, b)
    <3>1. k \in BindingKey
      BY DEF Key, BindingKey, Kind
    <3> HIDE DEF k
    <3>2. /\ state.bindings[k] # Nil
          /\ EnsureOwnerMatch(state.bindings[k], c)
          /\ StartTask(u, [op |-> "open", client |-> c, space |-> sp,
                           backend |-> state.bindings[k].backend])
      BY <2>1 DEF OpenStream, BackendAccess, EnsureBindingAccess, k
    <3>3. Registered(state, c)
      BY <3>1, <3>2, BindingsPlaced DEF EnsureOwnerMatch, Inv
    <3> QED BY <1>1, <3>2, <3>3 DEF StartTask
  <2>2. ASSUME NEW u \in Task, InsertStream(u) \/ RemoveStream(u)
        PROVE  tasks'[t] = tasks[t]
    BY <1>1, <2>2 DEF InsertStream, RemoveStream
  <2>3. ASSUME NEW u \in Task, NEW c, NEW id, CloseStream(u, c, id)
        PROVE  tasks'[t] = tasks[t]
    BY <1>1, <2>3 DEF CloseStream, StartTask
  <2> QED BY <1>5, <2>1, <2>2, <2>3
          DEF StreamNext, UseStream, StreamCompletes, StreamGoesStale, ReapStaleStreams
<1> QED BY <1>2, <1>3, <1>4, <1>5 DEF Next

\* So everybody a stream ever names stays known.
LEMMA OwnersKnownHolds == Spec => []OwnersKnown
<1>1. Init => OwnersKnown
  BY DEF Init, OwnersKnown
<1>2. Inv /\ StreamInv /\ OwnersKnown /\ [Next]_vars => OwnersKnown'
  <2> SUFFICES ASSUME Inv, StreamInv, OwnersKnown, [Next]_vars PROVE OwnersKnown'
    OBVIOUS
  <2>1. /\ \A id \in StreamId : state.query_streams[id] # Nil =>
              state.query_streams[id].owner \in Session
        /\ \A t \in Task : (tasks[t] # Nil /\ tasks[t].op = "open") =>
              tasks[t].client \in Session
    BY DEF Inv, Consistent, ControllerState, StreamEntry, Job
  <2>2. ASSUME NEW id \in StreamId, state'.query_streams[id] # Nil
        PROVE  state'.clients[state'.query_streams[id].owner] # "unused"
    <3>1. CASE StreamsKept
      BY <2>1, <2>2, <3>1, KnownStay DEF StreamsKept, OwnersKnown
    <3>2. CASE StreamOpened
      <4>1. PICK t \in Task :
               /\ tasks[t] \in Job
               /\ tasks[t].op = "open"
               /\ state'.query_streams[id] =
                     IF id = state.next_query_stream_id
                     THEN [owner |-> tasks[t].client, space |-> tasks[t].space,
                           stale |-> FALSE]
                     ELSE state.query_streams[id]
        BY <3>2 DEF StreamOpened
      <4>2. tasks[t].client \in Session /\ state.clients[tasks[t].client] # "unused"
        BY <2>1, <4>1, NilJobAssumption DEF OwnersKnown
      <4> QED BY <2>1, <2>2, <4>1, <4>2, KnownStay DEF OwnersKnown
    <3> QED BY <3>1, <3>2, StreamsStep
  <2>3. ASSUME NEW t \in Task, tasks'[t] # Nil, tasks'[t].op = "open"
        PROVE  state'.clients[tasks'[t].client] # "unused"
    BY <2>1, <2>3, OpensByRegistered, KnownStay DEF OwnersKnown, Registered
  <2> QED BY <2>2, <2>3 DEF OwnersKnown
<1> QED BY <1>1, <1>2, InvHolds, StreamInvHolds, PTL DEF Spec

\* Nothing gets between an orphaned stream and its reaper: once the stream is
\* stale and its query over, it stays so until it is gone, because nobody can
\* use it, no completion is left to come, and its session does not come back.
OrphansStayReapable ==
    [][\A id \in StreamId :
          (Orphan(id) /\ Reapable(id) /\ state'.query_streams[id] # Nil) =>
              (Orphan(id) /\ Reapable(id))']_vars

\* What makes OrphanStreamsReclaimed follow from a loop that goes on reaping.
THEOREM OrphansAwaitReaper == Spec => OrphansStayReapable
<1> DEFINE Await ==
      \A id \in StreamId :
          (Orphan(id) /\ Reapable(id) /\ state'.query_streams[id] # Nil) =>
              (Orphan(id) /\ Reapable(id))'
<1>1. /\ Inv /\ StreamInv /\ OwnersKnown /\ OrphansOutOfReach /\ [Next]_vars
      => [Await]_vars
  <2> SUFFICES ASSUME Inv, StreamInv, OwnersKnown, OrphansOutOfReach, [Next]_vars,
                      NEW id \in StreamId, Orphan(id), Reapable(id),
                      state'.query_streams[id] # Nil
               PROVE  (Orphan(id) /\ Reapable(id))'
    OBVIOUS
  <2> DEFINE s == state.query_streams[id].owner
  <2>1. /\ state \in ControllerState
        /\ state.query_streams[id] # Nil
        /\ state.query_streams[id].stale
        /\ workers[id] = Nil
        /\ workers \in [StreamId -> Backend \cup {Nil}]
        /\ state.query_streams \in [StreamId -> StreamEntry \cup {Nil}]
        /\ state.next_query_stream_id \in Nat
    BY DEF Reapable, Inv, Consistent, ControllerState
  <2>2. s \in Session /\ state.clients[s] = "ended"
    <3>1. s \in Session
      BY <2>1 DEF StreamEntry
    <3> QED BY <2>1, <3>1 DEF Orphan, OwnersKnown, Registered, ControllerState, ClientStatus
  <2>3. ~Registered(state', s)
    BY <2>2, KnownStay DEF Registered
  <2>4. state'.query_streams[id] = state.query_streams[id] /\ workers'[id] = Nil
    <3>1. CASE [SessionNext \/ SpaceNext \/ BackendNext \/ CallNext]_vars
      BY <2>1, <3>1, RegistryStreams
    <3>2. ASSUME NEW c \in Caller, StreamAccess(c, id)
          PROVE  FALSE
      BY <3>2 DEF OrphansOutOfReach
    <3>3. ASSUME NEW t \in Task, InsertStream(t)
          PROVE  state'.query_streams[id] = state.query_streams[id] /\ workers'[id] = Nil
      <4>1. id # state.next_query_stream_id
        BY <2>1 DEF StreamInv
      <4>2. /\ state'.query_streams[id] = state.query_streams[id]
            /\ workers' = [workers EXCEPT ![state.next_query_stream_id] = tasks[t].backend]
        BY <2>1, <3>3, <4>1 DEF InsertStream, ControllerState
      <4> QED BY <2>1, <4>1, <4>2
    <3>4. ASSUME NEW x \in StreamId, x # id, NEW stale \in BOOLEAN,
                 state' = [state EXCEPT !.query_streams[x].stale = stale]
          PROVE  state'.query_streams[id] = state.query_streams[id]
      BY <2>1, <3>4 DEF ControllerState
    <3>5. ASSUME NEW x \in StreamId,
                 \/ \E c \in Caller : UseStream(c, x)
                 \/ \E c \in Caller, t \in Task : CloseStream(t, c, x)
          PROVE  state'.query_streams[id] = state.query_streams[id] /\ workers'[id] = Nil
      BY <2>1, <3>2, <3>4, <3>5 DEF UseStream, CloseStream, Touched
    <3>6. ASSUME NEW x \in StreamId, StreamCompletes(x)
          PROVE  state'.query_streams[id] = state.query_streams[id] /\ workers'[id] = Nil
      <4>1. x # id
        BY <2>1, <3>6 DEF StreamCompletes
      <4>2. workers' = [workers EXCEPT ![x] = Nil]
        BY <3>6 DEF StreamCompletes
      <4> QED BY <2>1, <3>4, <3>6, <4>1, <4>2 DEF StreamCompletes, Touched
    <3>7. ASSUME NEW x \in StreamId, StreamGoesStale(x)
          PROVE  state'.query_streams[id] = state.query_streams[id] /\ workers'[id] = Nil
      <4>1. x # id
        BY <2>1, <3>7 DEF StreamGoesStale
      <4> QED BY <2>1, <3>4, <3>7, <4>1 DEF StreamGoesStale
    <3>8. ASSUME NEW t \in Task, RemoveStream(t)
          PROVE  state'.query_streams[id] = state.query_streams[id] /\ workers'[id] = Nil
      BY <2>1, <3>8 DEF RemoveStream, ControllerState
    <3>9. CASE ReapStaleStreams
      BY <2>1, <3>9 DEF ReapStaleStreams, ControllerState
    <3>10. ASSUME NEW t, NEW c, NEW sp, NEW b, OpenStream(t, c, sp, b)
           PROVE  state'.query_streams[id] = state.query_streams[id] /\ workers'[id] = Nil
      BY <2>1, <3>10 DEF OpenStream
    <3> QED BY <3>1, <3>3, <3>5, <3>6, <3>7, <3>8, <3>9, <3>10 DEF Next, StreamNext
  <2> QED BY <2>1, <2>3, <2>4 DEF Orphan, Reapable
<1> QED BY <1>1, InvHolds, StreamInvHolds, OwnersKnownHolds, OrphansUnreachable, PTL
        DEF Spec, OrphansStayReapable

\* The rule of ensure_space_access_locked that lets everybody into a space with
\* nobody attached never applies: who is let in is registered and attached.
SpacesClosed ==
    \A c \in Caller, sp \in Space :
        EnsureSpaceAccess(state, sp, c) => AttachedTo(state, c, sp)

\* A space with nobody attached is not listed.
THEOREM SpacesStayClosed == Spec => []SpacesClosed
<1>1. Inv => SpacesClosed
  BY DEF Inv, Consistent, WellAttached, EnsureSpaceAccess, SpacesClosed
<1> QED BY <1>1, InvHolds, PTL

-----------------------------------------------------------------------------
(* ControllerRuntime implements SessionRegistry: every step of the         *)
(* controller is a step of the abstract registry of ownership, or changes  *)
(* nothing it speaks of.                                                   *)

\* The abstract state a controller state stands for.
AliveOf(st) == {s \in Session : Registered(st, s)}
PastOf(st)  == {s \in Session : st.clients[s] = "ended"}
OwnerOf(st) == [k \in BindingKey |-> IF st.bindings[k] = Nil THEN Nil
                                     ELSE st.bindings[k].owner]

\* new is st after the sessions "gone" have lost everything.
EndsTo(new, st, gone) ==
    /\ AliveOf(new) = AliveOf(st) \ gone
    /\ PastOf(new) = PastOf(st) \cup gone
    /\ new.attached_space_ids =
          [s \in Session |-> IF s \in gone THEN {} ELSE st.attached_space_ids[s]]
    /\ OwnerOf(new) =
          [k \in BindingKey |-> IF OwnerOf(st)[k] \in gone THEN Nil ELSE OwnerOf(st)[k]]

\* What the abstract registry sees of remove_client_locked.
LEMMA RemoveClientsEndsTo ==
    ASSUME NEW st, Consistent(st),
           NEW S \in SUBSET Session
    PROVE  EndsTo(RemoveClients(st, S), st, Ended(st, S))
<1> DEFINE new == RemoveClients(st, S)
           gone == Ended(st, S)
<1>1. Consistent(new) /\ new \in ControllerState /\ st \in ControllerState
  BY RemoveClientsConsistent DEF Consistent
<1>2. gone \subseteq AliveOf(st) /\ gone \subseteq Session
  BY DEF Ended, AliveOf
<1>3. CASE gone = {}
  <2>1. new = st
    BY <1>3, RemoveClientsNone
  <2>2. st.attached_space_ids = [s \in Session |-> st.attached_space_ids[s]]
    BY <1>1 DEF ControllerState
  <2> QED BY <1>3, <2>1, <2>2 DEF EndsTo, OwnerOf
<1>4. CASE gone # {}
  <2> DEFINE keys == OwnedByAny(st, gone)
  <2>1. ClientsRemoved(new, st, gone)
    BY <1>4, RemoveClientsFields
  <2>2. \A k \in BindingKey : new.bindings[k] = IF k \in keys THEN Nil ELSE st.bindings[k]
    <3>1. keys \in SUBSET BindingKey
      BY DEF OwnedByAny
    <3>2. new.bindings = RemoveBindings(st, keys).bindings
      BY <1>4, RemoveClientsFields
    <3> HIDE DEF new
    <3> QED BY <1>1, <3>1, <3>2, RemoveBindingsFields
  <2> HIDE DEF new, gone
  <2>3. AliveOf(new) = AliveOf(st) \ gone /\ PastOf(new) = PastOf(st) \cup gone
    BY <1>2, <2>1 DEF ClientsRemoved, AliveOf, PastOf, Registered
  <2>4. new.attached_space_ids =
           [s \in Session |-> IF s \in gone THEN {} ELSE st.attached_space_ids[s]]
    BY <1>1, <2>1 DEF ClientsRemoved, ControllerState
  <2>5. ASSUME NEW k \in BindingKey
        PROVE  OwnerOf(new)[k] = IF OwnerOf(st)[k] \in gone THEN Nil ELSE OwnerOf(st)[k]
    <3>1. k \in keys <=> st.bindings[k] # Nil /\ st.bindings[k].owner \in gone
      BY <1>2 DEF OwnedByAny, Consistent, WellOwned
    <3>2. Nil \notin gone
      BY <1>2, NilAssumption
    <3> QED BY <2>2, <3>1, <3>2 DEF OwnerOf
  <2>6. OwnerOf(new) =
           [k \in BindingKey |-> IF OwnerOf(st)[k] \in gone THEN Nil ELSE OwnerOf(st)[k]]
    BY <2>5 DEF OwnerOf
  <2> QED BY <2>3, <2>4, <2>6 DEF EndsTo, new, gone
<1> QED BY <1>3, <1>4

\* new and st are the same to the abstract registry.
SameOwnership(new, st) ==
    /\ AliveOf(new) = AliveOf(st)
    /\ PastOf(new) = PastOf(st)
    /\ new.attached_space_ids = st.attached_space_ids
    /\ OwnerOf(new) = OwnerOf(st)

\* Sessions that end twice over in one critical section.
LEMMA EndsToTwice ==
    ASSUME NEW a, NEW b, NEW c,
           NEW g \in SUBSET Session, NEW h \in SUBSET Session,
           EndsTo(b, a, g), EndsTo(c, b, h)
    PROVE  EndsTo(c, a, g \cup h)
<1>1. AliveOf(c) = AliveOf(a) \ (g \cup h) /\ PastOf(c) = PastOf(a) \cup (g \cup h)
  BY DEF EndsTo
<1>2. c.attached_space_ids =
         [s \in Session |-> IF s \in g \cup h THEN {} ELSE a.attached_space_ids[s]]
  BY DEF EndsTo
<1>3. OwnerOf(c) =
         [k \in BindingKey |-> IF OwnerOf(a)[k] \in g \cup h THEN Nil ELSE OwnerOf(a)[k]]
  <2> DEFINE oa == OwnerOf(a)
             ob == OwnerOf(b)
  <2>1. ob = [k \in BindingKey |-> IF oa[k] \in g THEN Nil ELSE oa[k]]
    BY DEF EndsTo
  <2>2. OwnerOf(c) = [k \in BindingKey |-> IF ob[k] \in h THEN Nil ELSE ob[k]]
    BY DEF EndsTo
  <2> HIDE DEF oa, ob
  <2> QED BY <2>1, <2>2 DEF oa
<1> QED BY <1>1, <1>2, <1>3 DEF EndsTo

\* The sessions a request prunes are alive in the abstract state and end there.
LEMMA PruneEndsTo ==
    ASSUME Consistent(state)
    PROVE  \E gone \in SUBSET AliveOf(state) : EndsTo(PruneExpired(state), state, gone)
<1> DEFINE S == {s \in Session : state.clients[s] = "lapsed"}
<1>1. Ended(state, S) \in SUBSET AliveOf(state)
  BY DEF Ended, AliveOf
<1>2. EndsTo(PruneExpired(state), state, Ended(state, S))
  BY RemoveClientsEndsTo DEF PruneExpired
<1> QED BY <1>1, <1>2

\* What a request does to a pruned state, and the abstract action it is.
LEMMA RegistryEnd ==
    ASSUME NEW gone \in SUBSET AliveOf(state),
           NEW st, EndsTo(st, state, gone), SameOwnership(state', st)
    PROVE  Registry!Next
<1>1. EndsTo(state', state, gone)
  BY DEF EndsTo, SameOwnership
<1>2. Registry!End(gone)
  BY <1>1 DEF Registry!End, Registry!JoinedAfter, Registry!OwnerAfter,
              EndsTo, AliveOf, PastOf, OwnerOf
<1> QED BY <1>2 DEF Registry!Next, AliveOf

\* A registration begins a session that never was.
LEMMA RegistryBegin ==
    ASSUME NEW gone \in SUBSET AliveOf(state),
           NEW st \in ControllerState, EndsTo(st, state, gone),
           NEW s \in Session, state.clients[s] = "unused",
           state' = [st EXCEPT !.clients[s] = "live"]
    PROVE  Registry!Next
<1>1. s \notin AliveOf(state) \cup PastOf(state)
  BY DEF AliveOf, PastOf, Registered
<1>2. s \notin AliveOf(st) \cup PastOf(st)
  BY <1>1 DEF EndsTo
<1>3. AliveOf(state') = (AliveOf(state) \ gone) \cup {s}
  <2>1. AliveOf(state') = AliveOf(st) \cup {s}
    BY DEF AliveOf, Registered, ControllerState
  <2> QED BY <2>1 DEF EndsTo
<1>4. PastOf(state') = PastOf(state) \cup gone
  <2>1. PastOf(state') = PastOf(st)
    BY <1>2 DEF PastOf, ControllerState
  <2> QED BY <2>1 DEF EndsTo
<1>5. state'.attached_space_ids = st.attached_space_ids /\ OwnerOf(state') = OwnerOf(st)
  BY DEF OwnerOf, ControllerState
<1>6. Registry!Begin(s, gone)
  BY <1>1, <1>3, <1>4, <1>5
     DEF Registry!Begin, Registry!JoinedAfter, Registry!OwnerAfter,
         EndsTo, AliveOf, PastOf, OwnerOf
<1> QED BY <1>6 DEF Registry!Next, AliveOf

\* An attachment joins a space.
LEMMA RegistryJoin ==
    ASSUME NEW gone \in SUBSET AliveOf(state),
           NEW st \in ControllerState, EndsTo(st, state, gone),
           NEW c, Registered(st, c), NEW sp \in Space, NEW i,
           state' = Attach(st, c, sp, i)
    PROVE  Registry!Next
<1>1. c \in Session /\ c \in AliveOf(state) \ gone
  BY DEF EndsTo, AliveOf, Registered
<1>2. /\ AliveOf(state') = AliveOf(st)
      /\ PastOf(state') = PastOf(st)
      /\ OwnerOf(state') = OwnerOf(st)
  BY AttachmentFrames DEF AliveOf, PastOf, OwnerOf, Registered
<1>3. state'.attached_space_ids = [st.attached_space_ids EXCEPT ![c] = @ \cup {sp}]
  BY DEF Attach, ControllerState
<1>4. Registry!Join(c, sp, gone)
  BY <1>1, <1>2, <1>3
     DEF Registry!Join, Registry!JoinedAfter, Registry!OwnerAfter,
         EndsTo, AliveOf, PastOf, OwnerOf
<1> QED BY <1>1, <1>4 DEF Registry!Next, AliveOf

\* A detachment leaves a space; the entry of an idle space that goes with it
\* names no session any more.
LEMMA RegistryLeave ==
    ASSUME NEW gone \in SUBSET AliveOf(state),
           NEW st, Consistent(st), EndsTo(st, state, gone),
           NEW c, NEW sp \in Space, MayDetach(st, c, sp),
           state' = Detach(st, c, sp)
    PROVE  Registry!Next
<1> DEFINE left == [st EXCEPT !.attached_space_ids[c] = @ \ {sp},
                              !.attached_clients[sp] = @ \ {c}]
<1>1. /\ st \in ControllerState
      /\ c \in Session
      /\ c \in AliveOf(state) \ gone
  BY DEF MayDetach, EndsTo, AliveOf, Registered, Consistent
<1>2. /\ AliveOf(state') = AliveOf(st)
      /\ PastOf(state') = PastOf(st)
      /\ OwnerOf(state') = OwnerOf(st)
  BY <1>1, AttachmentFrames DEF AliveOf, PastOf, OwnerOf, Registered
<1>3. left \in ControllerState
  BY <1>1 DEF ControllerState
<1>4. left.attached_space_ids = [st.attached_space_ids EXCEPT ![c] = @ \ {sp}]
  BY <1>1 DEF ControllerState
<1>5. state' = IF IdleSpace(left, sp) THEN RemoveSpace(left, sp) ELSE left
  BY DEF Detach
<1> HIDE DEF left
<1>6. state'.attached_space_ids = left.attached_space_ids
  <2>1. CASE IdleSpace(left, sp)
    <3>1. left.attached_clients[sp] = {}
      BY <2>1 DEF IdleSpace
    <3>2. state'.attached_space_ids =
             [s \in Session |-> IF s \in left.attached_clients[sp]
                                THEN left.attached_space_ids[s] \ {sp}
                                ELSE left.attached_space_ids[s]]
      BY <1>3, <1>5, <2>1 DEF RemoveSpace, ControllerState
    <3> QED BY <1>3, <3>1, <3>2 DEF ControllerState
  <2> QED BY <1>5, <2>1
<1>7. ASSUME NEW x \in BindingKey, OwnerOf(state)[x] = c
      PROVE  x.space # sp
  <2>1. OwnerOf(st)[x] = c
    BY <1>1, <1>7 DEF EndsTo
  <2>2. st.bindings[x] # Nil /\ st.bindings[x].owner = c
    BY <1>1, <2>1, NilAssumption DEF OwnerOf
  <2>3. x \in st.owned_binding_keys[c]
    BY <1>1, <2>2 DEF Consistent, WellOwned
  <2> QED BY <2>3 DEF MayDetach
<1>8. Registry!Leave(c, sp, gone)
  BY <1>1, <1>2, <1>4, <1>6, <1>7
     DEF Registry!Leave, Registry!JoinedAfter, Registry!OwnerAfter,
         EndsTo, AliveOf, PastOf, OwnerOf
<1> QED BY <1>1, <1>8 DEF Registry!Next, AliveOf

-----------------------------------------------------------------------------
\* Requests, registrations and renewals.
LEMMA SessionRefines ==
    ASSUME Inv, SessionNext
    PROVE  Registry!Next \/ SameOwnership(state', state)
<1> DEFINE st == PruneExpired(state)
<1>1. /\ Consistent(state) /\ state \in ControllerState
      /\ Consistent(st) /\ st \in ControllerState
      /\ \A s \in Session : st.clients[s] # "lapsed"
  BY PrunedState DEF Inv, Consistent
<1>2. PICK gone \in SUBSET AliveOf(state) : EndsTo(st, state, gone)
  BY <1>1, PruneEndsTo
<1> HIDE DEF st
<1>3. ASSUME NEW s \in Session, RegisterClient(s)
      PROVE  Registry!Next
  <2>1. state.clients[s] = "unused" /\ state' = [st EXCEPT !.clients[s] = "live"]
    BY <1>3 DEF RegisterClient, st
  <2> QED BY <1>1, <1>2, <2>1, RegistryBegin
<1>4. ASSUME state' = st
      PROVE  Registry!Next
  <2>1. SameOwnership(state', st)
    BY <1>4 DEF SameOwnership
  <2> QED BY <1>2, <2>1, RegistryEnd
<1>5. ASSUME NEW s \in Session, RenewClient(s)
      PROVE  Registry!Next
  BY <1>1, <1>4, <1>5, RenewLeasePruned DEF RenewClient, st
<1>6. ASSUME NEW s \in Session, UnregisterClient(s)
      PROVE  Registry!Next
  <2> DEFINE ended == Ended(st, {s})
  <2>1. EndsTo(state', st, ended)
    BY <1>1, <1>6, RemoveClientsEndsTo DEF UnregisterClient, st
  <2>2. ended \in SUBSET AliveOf(st) /\ ended \in SUBSET Session /\ gone \in SUBSET Session
    BY DEF Ended, AliveOf
  <2>3. EndsTo(state', state, gone \cup ended)
    BY <1>2, <2>1, <2>2, EndsToTwice
  <2>4. gone \cup ended \in SUBSET AliveOf(state)
    BY <1>2, <2>2 DEF EndsTo
  <2>5. SameOwnership(state', state')
    BY DEF SameOwnership
  <2> QED BY <2>3, <2>4, <2>5, RegistryEnd
<1>7. ASSUME NEW s \in Session, LeaseLapses(s)
      PROVE  SameOwnership(state', state)
  BY <1>1, <1>7
     DEF LeaseLapses, SameOwnership, AliveOf, PastOf, OwnerOf, Registered, ControllerState
<1>8. ASSUME NEW c \in Caller, NEW r \in BOOLEAN, BeginRequest(c, r)
      PROVE  Registry!Next
  <2>1. RenewLease(st, c) = st
    BY <1>1, RenewLeasePruned
  <2>2. state' = [st EXCEPT !.inflight_requests = @ + 1, !.recent_request = @ \/ r]
    BY <1>8, <2>1 DEF BeginRequest, st
  <2>3. SameOwnership(state', st)
    BY <1>1, <2>2 DEF SameOwnership, AliveOf, PastOf, OwnerOf, Registered, ControllerState
  <2> QED BY <1>2, <2>3, RegistryEnd
<1>9. ASSUME DropRequestGuard \/ IdleTimeoutElapses
      PROVE  SameOwnership(state', state)
  <2>1. /\ state'.clients = state.clients
        /\ state'.attached_space_ids = state.attached_space_ids
        /\ state'.bindings = state.bindings
    BY <1>1, <1>9 DEF DropRequestGuard, IdleTimeoutElapses, ControllerState
  <2> QED BY <2>1 DEF SameOwnership, AliveOf, PastOf, OwnerOf, Registered
<1>10. CASE ReapExpiredClients
  BY <1>4, <1>10 DEF ReapExpiredClients, st
<1> QED BY <1>3, <1>5, <1>6, <1>7, <1>8, <1>9, <1>10 DEF SessionNext

\* Attaching and detaching.
LEMMA SpaceRefines ==
    ASSUME Inv, SpaceNext
    PROVE  Registry!Next
<1> DEFINE st == PruneExpired(state)
<1>1. Consistent(state) /\ Consistent(st) /\ st \in ControllerState
  BY PrunedState DEF Inv, Consistent
<1>2. PICK gone \in SUBSET AliveOf(state) : EndsTo(st, state, gone)
  BY <1>1, PruneEndsTo
<1>3. PICK c \in Caller, sp \in Space :
         (\E i \in Identity : AttachSpace(c, sp, i)) \/ DetachSpace(c, sp)
  BY DEF SpaceNext
<1>4. \/ state' = st
      \/ \E i \in Identity : Registered(st, c) /\ state' = Attach(st, c, sp, i)
      \/ st.spaces[sp] # Nil /\ IdleSpace(st, sp)
      \/ MayDetach(st, c, sp) /\ state' = Detach(st, c, sp)
  BY <1>3 DEF AttachSpace, DetachSpace
<1> HIDE DEF st
<1>5. CASE state' = st
  <2>1. SameOwnership(state', st)
    BY <1>5 DEF SameOwnership
  <2> QED BY <1>2, <2>1, RegistryEnd
<1>6. ASSUME NEW i \in Identity, Registered(st, c), state' = Attach(st, c, sp, i)
      PROVE  Registry!Next
  BY <1>1, <1>2, <1>6, RegistryJoin
<1>7. CASE MayDetach(st, c, sp) /\ state' = Detach(st, c, sp)
  BY <1>1, <1>2, <1>7, RegistryLeave
<1>8. ~(st.spaces[sp] # Nil /\ IdleSpace(st, sp))
  BY <1>1 DEF Consistent, WellAttached, IdleSpace
<1> QED BY <1>4, <1>5, <1>6, <1>7, <1>8

\* Enabling claims a binding, disabling releases it.
LEMMA EnableRefines ==
    ASSUME Inv, NEW c \in Caller, NEW k \in BindingKey, NEW r \in Resource,
           NEW config \in Config, Enable(c, k, r, config)
    PROVE  Registry!Next
<1>1. /\ Consistent(state)
      /\ state \in ControllerState
      /\ AttachedTo(state, c, k.space)
      /\ EnsureOwnerMatch(state.bindings[k], c)
  BY DEF Enable, EnsureCreationAccess, Inv, Consistent
<1>2. c \in Session /\ c \in AliveOf(state) /\ k.space \in state.attached_space_ids[c]
  BY <1>1 DEF AttachedTo, Registered, AliveOf, Consistent, WellAttached, BindingKey
<1>3. PICK b \in Backend : b.resource = r /\ Bound(state', state, c, k, b)
  BY EnableSteps
<1> DEFINE entry == [owner |-> c, resource |-> b.resource, backend |-> b]
<1>4. entry # Nil /\ entry.owner = c
  BY <1>2, <1>3, NilAssumption DEF BindingEntry
<1> HIDE DEF entry
<1>5. /\ \A l \in BindingKey : state'.bindings[l] = IF l = k THEN entry ELSE state.bindings[l]
      /\ SameSpaces(state', state)
  BY <1>3 DEF Bound, entry
<1>6. OwnerOf(state') = [OwnerOf(state) EXCEPT ![k] = c]
  BY <1>4, <1>5 DEF OwnerOf
<1>7. OwnerOf(state)[k] \in {Nil, c}
  BY <1>1 DEF OwnerOf, EnsureOwnerMatch
<1>8. Registry!Claim(c, k)
  BY <1>2, <1>5, <1>6, <1>7 DEF Registry!Claim, AliveOf, OwnerOf, Registered, SameSpaces
<1> QED BY <1>2, <1>8 DEF Registry!Next

\* Disabling releases a binding of its owner.
LEMMA DisableRefines ==
    ASSUME Inv, NEW c, NEW k \in BindingKey, Disable(c, k)
    PROVE  Registry!Next
<1>1. /\ Consistent(state)
      /\ state \in ControllerState
      /\ state.bindings[k] # Nil
      /\ state.bindings[k].owner = c
      /\ state' = RemoveBindings(state, {k})
  BY DEF Disable, EnsureBindingAccess, EnsureOwnerMatch, Inv, Consistent
<1>2. c \in Session /\ c \in AliveOf(state)
  BY <1>1, BindingsPlaced DEF AliveOf
<1>3. {k} \in SUBSET BindingKey
  OBVIOUS
<1>4. /\ SameSpaces(state', state)
      /\ \A l \in BindingKey : state'.bindings[l] = IF l \in {k} THEN Nil ELSE state.bindings[l]
  BY <1>1, <1>3, RemoveBindingsFields
<1>5. OwnerOf(state') = [OwnerOf(state) EXCEPT ![k] = Nil] /\ OwnerOf(state)[k] = c
  BY <1>1, <1>4 DEF OwnerOf
<1>6. Registry!Release(c, k)
  BY <1>2, <1>4, <1>5 DEF Registry!Release, SameSpaces, AliveOf, OwnerOf, Registered
<1> QED BY <1>2, <1>6 DEF Registry!Next

\* Both of them, for both kinds of database.
LEMMA BackendRefines ==
    ASSUME Inv, BackendNext
    PROVE  Registry!Next
<1>1. \A sp \in Space, b \in Binding :
         Key("sqlite", sp, b) \in BindingKey /\ Key("lancedb", sp, b) \in BindingKey
  BY DEF Key, BindingKey, Kind
<1>2. \A r \in SqliteResource \cup LanceResource : r \in Resource
  BY DEF Resource
<1> QED BY <1>1, <1>2, EnableRefines, DisableRefines
        DEF BackendNext, EnableSqlite, EnableLanceDb, DisableSqlite, DisableLanceDb

\* Calls and streams are nothing to the abstract registry.
LEMMA CallStreamRefines ==
    ASSUME Inv, CallNext \/ StreamNext
    PROVE  SameOwnership(state', state)
<1>1. state \in ControllerState
  BY DEF Inv, Consistent
<1>2. /\ state'.clients = state.clients
      /\ state'.attached_space_ids = state.attached_space_ids
      /\ state'.bindings = state.bindings
  <2>1. CASE CallNext
    BY <2>1 DEF CallNext, SqliteCall, LanceDbCall, CallReturns
  <2>2. CASE StreamNext
    BY <1>1, <2>2
       DEF StreamNext, OpenStream, InsertStream, CloseStream, RemoveStream, UseStream,
           StreamCompletes, StreamGoesStale, ReapStaleStreams, Touched, ControllerState
  <2> QED BY <2>1, <2>2
<1> QED BY <1>2 DEF SameOwnership, AliveOf, PastOf, OwnerOf, Registered

\* The controller implements the abstract registry of ownership: sessions join,
\* claim, release and leave there as they attach, enable, disable and detach
\* here, nobody takes what another holds, and the end of a session gives back
\* all it holds in one step.
THEOREM ImplementsOwnership == Spec => ImplementsRegistry
<1>1. Init => Registry!Init
  BY DEF Init, Registry!Init, Registered
<1>2. Inv /\ [Next]_vars => [Registry!Next]_(Registry!vars)
  <2> SUFFICES ASSUME Inv, [Next]_vars PROVE Registry!Next \/ UNCHANGED Registry!vars
    OBVIOUS
  <2>1. SameOwnership(state', state) => UNCHANGED Registry!vars
    BY DEF SameOwnership, AliveOf, PastOf, OwnerOf, Registry!vars
  <2>2. UNCHANGED vars => SameOwnership(state', state)
    BY DEF vars, SameOwnership
  <2> QED BY <2>1, <2>2, SessionRefines, SpaceRefines, BackendRefines, CallStreamRefines
          DEF Next
<1> QED BY <1>1, <1>2, InvHolds, PTL DEF Spec, ImplementsRegistry, Registry!Spec
=============================================================================
