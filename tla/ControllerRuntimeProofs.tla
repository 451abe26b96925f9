----------------------- MODULE ControllerRuntimeProofs -----------------------
(***************************************************************************)
(* Proofs about ControllerRuntime, for every number of sessions, spaces,   *)
(* bindings, databases and streams.                                        *)
(***************************************************************************)
EXTENDS ControllerRuntime, TLAPS

\* The inductive invariant, on one value of the state behind the mutex.
Consistent(st) ==
    /\ st \in ControllerState
    /\ st.next_query_stream_id > 0
    /\ WellAttached(st)
    /\ WellOwned(st)
    /\ WellPooled(st)

\* Frames: the parts of the state that an operator leaves alone.
SameSpaces(new, st) ==
    /\ new.clients = st.clients
    /\ new.attached_space_ids = st.attached_space_ids
    /\ new.attached_clients = st.attached_clients
    /\ new.spaces = st.spaces

SameRequests(new, st) ==
    /\ new.query_streams = st.query_streams
    /\ new.next_query_stream_id = st.next_query_stream_id
    /\ new.inflight_requests = st.inflight_requests
    /\ new.recent_request = st.recent_request

SameBooks(new, st) ==
    /\ new.owned_binding_keys = st.owned_binding_keys
    /\ new.resources = st.resources
    /\ new.resource_backends = st.resource_backends
    /\ new.resource_configs = st.resource_configs

\* The books once the entries of "keys" have been untracked.
Untracked(new, st, keys, entry) ==
    /\ \A s \in Session : new.owned_binding_keys[s] =
          st.owned_binding_keys[s] \ OwnedAmong(keys, entry, s)
    /\ \A r \in Resource :
          /\ new.resources[r] = st.resources[r] \ OnAmong(keys, entry, r)
          /\ new.resource_backends[r] =
                IF Released(st, keys, entry, r) THEN Nil ELSE st.resource_backends[r]
          /\ new.resource_configs[r] =
                IF Released(st, keys, entry, r) THEN Nil ELSE st.resource_configs[r]

-----------------------------------------------------------------------------
\* Untracking changes the books of the named keys and nothing else.
LEMMA UntrackBindingsFields ==
    ASSUME NEW st \in ControllerState,
           NEW keys \in SUBSET BindingKey,
           NEW entry
    PROVE  LET new == UntrackBindings(st, keys, entry)
           IN /\ new \in ControllerState
              /\ SameSpaces(new, st)
              /\ SameRequests(new, st)
              /\ new.bindings = st.bindings
              /\ Untracked(new, st, keys, entry)
<1> DEFINE new == UntrackBindings(st, keys, entry)
<1>1. new \in ControllerState /\ new.bindings = st.bindings
  BY DEF ControllerState, UntrackBindings
<1>2. SameSpaces(new, st) /\ SameRequests(new, st)
  BY DEF ControllerState, UntrackBindings, SameSpaces, SameRequests
<1>3. Untracked(new, st, keys, entry)
  BY DEF ControllerState, UntrackBindings, Untracked
<1> QED BY <1>1, <1>2, <1>3

\* Removing bindings clears their entries and untracks those that had one.
LEMMA RemoveBindingsFields ==
    ASSUME NEW st \in ControllerState,
           NEW keys \in SUBSET BindingKey
    PROVE  LET new == RemoveBindings(st, keys)
           IN /\ new \in ControllerState
              /\ SameSpaces(new, st)
              /\ SameRequests(new, st)
              /\ \A k \in BindingKey :
                    new.bindings[k] = IF k \in keys THEN Nil ELSE st.bindings[k]
              /\ Untracked(new, st, Enabled(st, keys), st.bindings)
<1> DEFINE cleared == [st EXCEPT !.bindings =
                        [k \in BindingKey |-> IF k \in keys THEN Nil ELSE @[k]]]
           gone == Enabled(st, keys)
           new == UntrackBindings(cleared, gone, st.bindings)
<1>1. /\ cleared \in ControllerState
      /\ \A k \in BindingKey :
            cleared.bindings[k] = IF k \in keys THEN Nil ELSE st.bindings[k]
  BY DEF ControllerState
<1>2. SameSpaces(cleared, st) /\ SameRequests(cleared, st) /\ SameBooks(cleared, st)
  BY DEF ControllerState, SameSpaces, SameRequests, SameBooks
<1>3. gone \in SUBSET BindingKey
  BY DEF Enabled
<1>4. new = RemoveBindings(st, keys)
  BY DEF RemoveBindings
<1> HIDE DEF cleared, gone
<1>5. /\ new \in ControllerState
      /\ SameSpaces(new, cleared)
      /\ SameRequests(new, cleared)
      /\ new.bindings = cleared.bindings
      /\ Untracked(new, cleared, gone, st.bindings)
  BY <1>1, <1>3, UntrackBindingsFields
<1> HIDE DEF new
<1>6. SameSpaces(new, st) /\ SameRequests(new, st)
  BY <1>2, <1>5 DEF SameSpaces, SameRequests
<1>7. Untracked(new, st, gone, st.bindings)
  BY <1>2, <1>5 DEF SameBooks, Untracked, Released
<1> QED BY <1>1, <1>4, <1>5, <1>6, <1>7 DEF gone

\* The books stay right when bindings go.
LEMMA RemoveBindingsConsistent ==
    ASSUME NEW st, Consistent(st),
           NEW keys \in SUBSET BindingKey
    PROVE  Consistent(RemoveBindings(st, keys))
<1> DEFINE new == RemoveBindings(st, keys)
           gone == Enabled(st, keys)
<1>1. /\ new \in ControllerState
      /\ SameSpaces(new, st)
      /\ SameRequests(new, st)
      /\ \A k \in BindingKey :
            new.bindings[k] = IF k \in keys THEN Nil ELSE st.bindings[k]
      /\ Untracked(new, st, gone, st.bindings)
  BY RemoveBindingsFields DEF Consistent
<1>2. st \in ControllerState /\ WellOwned(st) /\ WellPooled(st)
  BY DEF Consistent
<1> HIDE DEF new
<1>3. new.next_query_stream_id > 0
  BY <1>1 DEF Consistent, SameRequests
<1>4. WellAttached(new)
  BY <1>1 DEF Consistent, SameSpaces, WellAttached, Registered
<1>5. WellOwned(new)
  <2>1. ASSUME NEW s \in Session
        PROVE  new.owned_binding_keys[s] =
                  {k \in BindingKey : new.bindings[k] # Nil /\ new.bindings[k].owner = s}
    <3>1. /\ new.owned_binding_keys[s] = st.owned_binding_keys[s] \ OwnedAmong(gone, st.bindings, s)
          /\ st.owned_binding_keys[s] =
                {k \in BindingKey : st.bindings[k] # Nil /\ st.bindings[k].owner = s}
      BY <1>1, <1>2 DEF Untracked, WellOwned
    <3> QED BY <1>1, <3>1 DEF OwnedAmong, Enabled
  <2>2. ASSUME NEW k \in BindingKey, new.bindings[k] # Nil
        PROVE  AttachedTo(new, new.bindings[k].owner, k.space)
    BY <1>1, <1>2, <2>2 DEF WellOwned, AttachedTo, Registered, SameSpaces
  <2> QED BY <2>1, <2>2 DEF WellOwned
<1>6. WellPooled(new)
  <2>1. ASSUME NEW r \in Resource
        PROVE  new.resources[r] =
                  {k \in BindingKey : new.bindings[k] # Nil /\ new.bindings[k].resource = r}
    <3>1. /\ new.resources[r] = st.resources[r] \ OnAmong(gone, st.bindings, r)
          /\ st.resources[r] =
                {k \in BindingKey : st.bindings[k] # Nil /\ st.bindings[k].resource = r}
      BY <1>1, <1>2 DEF Untracked, WellPooled
    <3> QED BY <1>1, <3>1 DEF OnAmong, Enabled
  <2>2. ASSUME NEW r \in Resource
        PROVE  /\ new.resource_backends[r] = Nil <=> new.resource_configs[r] = Nil
               /\ new.resource_backends[r] # Nil =>
                     /\ new.resources[r] # {}
                     /\ new.resource_backends[r].resource = r
                     /\ new.resource_backends[r].config = new.resource_configs[r]
    <3>1. CASE Released(st, gone, st.bindings, r)
      BY <1>1, <3>1 DEF Untracked
    <3>2. CASE ~Released(st, gone, st.bindings, r)
      BY <1>1, <1>2, <3>2 DEF Untracked, Released, WellPooled
    <3> QED BY <3>1, <3>2
  <2> QED BY <2>1, <2>2 DEF WellPooled
<1> QED BY <1>1, <1>3, <1>4, <1>5, <1>6 DEF Consistent, new

-----------------------------------------------------------------------------
\* The sessions of S that RemoveClients ends, and what they own.
Ended(st, S) == {s \in S : Registered(st, s)}
OwnedByAny(st, S) == {k \in BindingKey : \E s \in S : k \in st.owned_binding_keys[s]}

\* The fields after the end of the sessions "gone".
ClientsRemoved(new, st, gone) ==
    /\ \A s \in Session :
          /\ new.clients[s] = IF s \in gone THEN "ended" ELSE st.clients[s]
          /\ new.attached_space_ids[s] =
                IF s \in gone THEN {} ELSE st.attached_space_ids[s]
          /\ new.owned_binding_keys[s] =
                IF s \in gone THEN {}
                ELSE st.owned_binding_keys[s]
                     \ OwnedAmong(Enabled(st, OwnedByAny(st, gone)), st.bindings, s)
    /\ \A sp \in Space :
          /\ new.attached_clients[sp] =
                st.attached_clients[sp] \ {s \in gone : sp \in st.attached_space_ids[s]}
          /\ new.spaces[sp] = IF IdleSpace(new, sp) THEN Nil ELSE st.spaces[sp]
    /\ \A id \in StreamId :
          new.query_streams[id] =
              IF st.query_streams[id] # Nil /\ st.query_streams[id].owner \in gone
              THEN Nil ELSE st.query_streams[id]
    /\ new.next_query_stream_id = st.next_query_stream_id
    /\ new.inflight_requests = st.inflight_requests
    /\ new.recent_request = st.recent_request

\* The end of sessions releases their bindings, attachments and streams.
LEMMA RemoveClientsFields ==
    ASSUME NEW st, Consistent(st),
           NEW S \in SUBSET Session,
           Ended(st, S) # {}
    PROVE  LET new == RemoveClients(st, S)
               released == RemoveBindings(st, OwnedByAny(st, Ended(st, S)))
           IN /\ new \in ControllerState
              /\ ClientsRemoved(new, st, Ended(st, S))
              /\ new.bindings = released.bindings
              /\ new.resources = released.resources
              /\ new.resource_backends = released.resource_backends
              /\ new.resource_configs = released.resource_configs
<1> DEFINE gone == Ended(st, S)
           keys == OwnedByAny(st, gone)
           released == RemoveBindings(st, keys)
           left == [released EXCEPT
                      !.clients = [s \in Session |-> IF s \in gone THEN "ended" ELSE @[s]],
                      !.attached_space_ids =
                          [s \in Session |-> IF s \in gone THEN {} ELSE @[s]],
                      !.owned_binding_keys =
                          [s \in Session |-> IF s \in gone THEN {} ELSE @[s]],
                      !.attached_clients =
                          [sp \in Space |->
                             @[sp] \ {s \in gone : sp \in st.attached_space_ids[s]}],
                      !.query_streams = StreamsWithout(released, gone)]
           new == CleanupEmptySpaces(left)
<1>1. RemoveClients(st, S) = new
  BY DEF RemoveClients, Ended, OwnedByAny
<1>2. keys \in SUBSET BindingKey /\ gone \in SUBSET Session /\ st \in ControllerState
  BY DEF OwnedByAny, Ended, Consistent
<1> HIDE DEF keys, gone
<1>3. /\ released \in ControllerState
      /\ SameSpaces(released, st)
      /\ SameRequests(released, st)
      /\ \A s \in Session : released.owned_binding_keys[s] =
            st.owned_binding_keys[s] \ OwnedAmong(Enabled(st, keys), st.bindings, s)
  BY <1>2, RemoveBindingsFields DEF Untracked
<1> HIDE DEF released
<1>4. StreamsWithout(released, gone) \in [StreamId -> StreamEntry \cup {Nil}]
  BY <1>3 DEF StreamsWithout, ControllerState
<1>5. /\ left \in ControllerState
      /\ left.bindings = released.bindings
      /\ left.resources = released.resources
      /\ left.resource_backends = released.resource_backends
      /\ left.resource_configs = released.resource_configs
      /\ left.spaces = released.spaces
  BY <1>2, <1>3, <1>4 DEF ControllerState, ClientStatus
<1>6. /\ \A s \in Session :
            /\ left.clients[s] = IF s \in gone THEN "ended" ELSE released.clients[s]
            /\ left.attached_space_ids[s] =
                  IF s \in gone THEN {} ELSE released.attached_space_ids[s]
            /\ left.owned_binding_keys[s] =
                  IF s \in gone THEN {} ELSE released.owned_binding_keys[s]
      /\ \A sp \in Space : left.attached_clients[sp] =
            released.attached_clients[sp] \ {s \in gone : sp \in st.attached_space_ids[s]}
      /\ left.query_streams = StreamsWithout(released, gone)
      /\ left.next_query_stream_id = released.next_query_stream_id
      /\ left.inflight_requests = released.inflight_requests
      /\ left.recent_request = released.recent_request
  BY <1>2, <1>3 DEF ControllerState
<1> HIDE DEF left
<1>7. /\ new \in ControllerState
      /\ \A sp \in Space : new.spaces[sp] = IF IdleSpace(new, sp) THEN Nil ELSE left.spaces[sp]
      /\ SameBooks(new, left)
      /\ SameRequests(new, left)
      /\ new.bindings = left.bindings
      /\ new.clients = left.clients
      /\ new.attached_space_ids = left.attached_space_ids
      /\ new.attached_clients = left.attached_clients
  BY <1>5 DEF CleanupEmptySpaces, ControllerState, IdleSpace, SameBooks, SameRequests
<1> HIDE DEF new
<1>8. ClientsRemoved(new, st, gone)
  <2>1. ASSUME NEW s \in Session
        PROVE  /\ new.clients[s] = IF s \in gone THEN "ended" ELSE st.clients[s]
               /\ new.attached_space_ids[s] =
                     IF s \in gone THEN {} ELSE st.attached_space_ids[s]
               /\ new.owned_binding_keys[s] =
                     IF s \in gone THEN {}
                     ELSE st.owned_binding_keys[s]
                          \ OwnedAmong(Enabled(st, keys), st.bindings, s)
    <3>1. /\ new.clients = left.clients
          /\ new.attached_space_ids = left.attached_space_ids
          /\ new.owned_binding_keys = left.owned_binding_keys
          /\ released.clients = st.clients
          /\ released.attached_space_ids = st.attached_space_ids
      BY <1>3, <1>7 DEF SameSpaces, SameBooks
    <3> QED BY <1>3, <1>6, <3>1
  <2>2. \A sp \in Space :
           /\ new.attached_clients[sp] =
                 st.attached_clients[sp] \ {s \in gone : sp \in st.attached_space_ids[s]}
           /\ new.spaces[sp] = IF IdleSpace(new, sp) THEN Nil ELSE st.spaces[sp]
    BY <1>3, <1>5, <1>6, <1>7 DEF SameSpaces
  <2>3. \A id \in StreamId :
           new.query_streams[id] =
               IF st.query_streams[id] # Nil /\ st.query_streams[id].owner \in gone
               THEN Nil ELSE st.query_streams[id]
    BY <1>3, <1>6, <1>7 DEF SameRequests, StreamsWithout
  <2>4. /\ new.next_query_stream_id = st.next_query_stream_id
        /\ new.inflight_requests = st.inflight_requests
        /\ new.recent_request = st.recent_request
    BY <1>3, <1>6, <1>7 DEF SameRequests
  <2> QED BY <2>1, <2>2, <2>3, <2>4 DEF ClientsRemoved, keys
<1>9. /\ new.bindings = released.bindings
      /\ new.resources = released.resources
      /\ new.resource_backends = released.resource_backends
      /\ new.resource_configs = released.resource_configs
  BY <1>5, <1>7 DEF SameBooks
<1> QED BY <1>1, <1>7, <1>8, <1>9 DEF gone, keys, released

\* A set with no registered session ends nothing.
LEMMA RemoveClientsNone ==
    ASSUME NEW st, NEW S, Ended(st, S) = {}
    PROVE  RemoveClients(st, S) = st
  BY DEF RemoveClients, Ended

\* The books stay right when sessions end.
LEMMA RemoveClientsConsistent ==
    ASSUME NEW st, Consistent(st),
           NEW S \in SUBSET Session
    PROVE  Consistent(RemoveClients(st, S))
<1>1. CASE Ended(st, S) = {}
  BY <1>1, RemoveClientsNone
<1>2. CASE Ended(st, S) # {}
  <2> DEFINE new == RemoveClients(st, S)
             gone == Ended(st, S)
             keys == OwnedByAny(st, gone)
             released == RemoveBindings(st, keys)
  <2>1. /\ new \in ControllerState
        /\ ClientsRemoved(new, st, gone)
        /\ new.bindings = released.bindings
        /\ new.resources = released.resources
        /\ new.resource_backends = released.resource_backends
        /\ new.resource_configs = released.resource_configs
    BY <1>2, RemoveClientsFields
  <2>2. keys \in SUBSET BindingKey /\ gone \in SUBSET Session
    BY DEF OwnedByAny, Ended
  <2>3. Consistent(st) /\ Consistent(released)
    BY <2>2, RemoveBindingsConsistent
  <2>4. /\ \A k \in BindingKey :
              released.bindings[k] = IF k \in keys THEN Nil ELSE st.bindings[k]
        /\ Untracked(released, st, Enabled(st, keys), st.bindings)
        /\ SameSpaces(released, st)
    BY <2>2, <2>3, RemoveBindingsFields DEF Consistent
  <2> HIDE DEF new, released
  <2>5. \A k \in BindingKey : new.bindings[k] # Nil =>
           /\ new.bindings[k] = st.bindings[k]
           /\ st.bindings[k].owner \in Session
           /\ st.bindings[k].owner \notin gone
           /\ AttachedTo(st, st.bindings[k].owner, k.space)
    BY <2>1, <2>2, <2>3, <2>4 DEF Consistent, WellOwned, OwnedByAny, AttachedTo, Registered
  <2>10. \A sp \in Space : new.attached_clients[sp] = st.attached_clients[sp] \ gone
    BY <2>1, <2>2, <2>3 DEF ClientsRemoved, Consistent, WellAttached, ControllerState
  <2>6. WellAttached(new)
    <3>1. ASSUME NEW s \in Session, NEW sp \in Space
          PROVE  sp \in new.attached_space_ids[s] <=> s \in new.attached_clients[sp]
      <4>1. new.attached_space_ids[s] = IF s \in gone THEN {} ELSE st.attached_space_ids[s]
        BY <2>1 DEF ClientsRemoved
      <4>2. sp \in st.attached_space_ids[s] <=> s \in st.attached_clients[sp]
        BY <2>3 DEF Consistent, WellAttached
      <4> QED BY <2>10, <4>1, <4>2
    <3>2. \A s \in Session : new.attached_space_ids[s] # {} => Registered(new, s)
      BY <2>1, <2>2, <2>3 DEF ClientsRemoved, Consistent, WellAttached, Registered
    <3>3. ASSUME NEW sp \in Space, new.attached_clients[sp] = {}
          PROVE  new.spaces[sp] = Nil
      <4>1. ASSUME NEW k \in BindingKey, k.space = sp, new.bindings[k] # Nil
            PROVE  FALSE
        BY <2>1, <2>2, <2>5, <3>3, <4>1, <2>3
           DEF ClientsRemoved, AttachedTo, Consistent, WellAttached
      <4> QED BY <2>1, <3>3, <4>1 DEF ClientsRemoved, IdleSpace
    <3>4. ASSUME NEW sp \in Space, new.attached_clients[sp] # {}
          PROVE  new.spaces[sp] # Nil
      BY <2>1, <2>3, <3>4 DEF ClientsRemoved, IdleSpace, Consistent, WellAttached
    <3> QED BY <3>1, <3>2, <3>3, <3>4 DEF WellAttached
  <2>7. WellOwned(new)
    <3>1. ASSUME NEW s \in Session
          PROVE  new.owned_binding_keys[s] =
                    {k \in BindingKey : new.bindings[k] # Nil /\ new.bindings[k].owner = s}
      <4>1. CASE s \in gone
        <5>1. new.owned_binding_keys[s] = {}
          BY <2>1, <4>1 DEF ClientsRemoved
        <5> QED BY <2>5, <4>1, <5>1
      <4>2. CASE s \notin gone
        <5>1. new.owned_binding_keys[s] = released.owned_binding_keys[s]
          BY <2>1, <2>4, <4>2 DEF ClientsRemoved, Untracked
        <5> QED BY <2>1, <2>3, <5>1 DEF Consistent, WellOwned
      <4> QED BY <4>1, <4>2
    <3>2. ASSUME NEW k \in BindingKey, new.bindings[k] # Nil
          PROVE  AttachedTo(new, new.bindings[k].owner, k.space)
      <4>1. k.space \in Space
        BY DEF BindingKey
      <4>2. new.bindings[k].owner \in new.attached_clients[k.space]
        BY <2>5, <2>10, <3>2, <4>1 DEF AttachedTo
      <4>3. new.clients[new.bindings[k].owner] = st.clients[new.bindings[k].owner]
        BY <2>1, <2>5, <3>2 DEF ClientsRemoved
      <4> QED BY <2>5, <3>2, <4>2, <4>3 DEF AttachedTo, Registered
    <3> QED BY <3>1, <3>2 DEF WellOwned
  <2>8. WellPooled(new)
    BY <2>1, <2>3 DEF Consistent, WellPooled
  <2>9. new.next_query_stream_id > 0
    BY <2>1, <2>3 DEF ClientsRemoved, Consistent
  <2> QED BY <2>1, <2>6, <2>7, <2>8, <2>9 DEF Consistent, new
<1> QED BY <1>1, <1>2

-----------------------------------------------------------------------------
\* A bound key names a space, and its owner is a registered session.
LEMMA BindingsPlaced ==
    ASSUME NEW st, Consistent(st)
    PROVE  \A k \in BindingKey :
              /\ k.space \in Space
              /\ st.bindings[k] # Nil =>
                    /\ st.bindings[k].owner \in Session
                    /\ Registered(st, st.bindings[k].owner)
                    /\ st.bindings[k].owner \in st.attached_clients[k.space]
  BY DEF BindingKey, Consistent, WellOwned, AttachedTo, Registered

\* Nothing is said of streams and request counters.
LEMMA SameRegistryConsistent ==
    ASSUME NEW st, Consistent(st),
           NEW new \in ControllerState,
           new.next_query_stream_id > 0,
           SameSpaces(new, st),
           SameBooks(new, st),
           new.bindings = st.bindings
    PROVE  Consistent(new)
<1>1. WellAttached(new)
  BY DEF Consistent, WellAttached, Registered, SameSpaces
<1>2. WellOwned(new)
  BY DEF Consistent, WellOwned, AttachedTo, Registered, SameSpaces, SameBooks
<1>3. WellPooled(new)
  BY DEF Consistent, WellPooled, SameBooks
<1> QED BY <1>1, <1>2, <1>3 DEF Consistent

\* The status of sessions may change as long as registered ones stay registered.
LEMMA ClientsConsistent ==
    ASSUME NEW st, Consistent(st),
           NEW status \in [Session -> ClientStatus],
           \A s \in Session : Registered(st, s) => status[s] \in {"live", "lapsed"}
    PROVE  Consistent([st EXCEPT !.clients = status])
<1> DEFINE new == [st EXCEPT !.clients = status]
<1>1. /\ new \in ControllerState
      /\ new.clients = status
      /\ new.attached_space_ids = st.attached_space_ids
      /\ new.attached_clients = st.attached_clients
      /\ new.spaces = st.spaces
      /\ SameRequests(new, st)
      /\ SameBooks(new, st)
      /\ new.bindings = st.bindings
  BY DEF Consistent, ControllerState, SameRequests, SameBooks
<1> HIDE DEF new
<1>2. \A s \in Session : Registered(st, s) => Registered(new, s)
  BY <1>1 DEF Registered
<1>3. WellAttached(new)
  BY <1>1, <1>2 DEF Consistent, WellAttached
<1>4. WellOwned(new)
  <2>1. \A s \in Session, sp \in Space : AttachedTo(st, s, sp) => AttachedTo(new, s, sp)
    BY <1>1, <1>2 DEF AttachedTo
  <2> QED BY <1>1, <2>1, BindingsPlaced DEF Consistent, WellOwned, SameBooks
<1>5. WellPooled(new)
  BY <1>1 DEF Consistent, WellPooled, SameBooks
<1>6. new.next_query_stream_id > 0
  BY <1>1 DEF Consistent, SameRequests
<1> QED BY <1>1, <1>3, <1>4, <1>5, <1>6 DEF Consistent, new

\* Pruning is the end of the sessions whose lease is over.
LEMMA PruneExpiredConsistent ==
    ASSUME NEW st, Consistent(st)
    PROVE  Consistent(PruneExpired(st))
  BY RemoveClientsConsistent DEF PruneExpired

\* Renewing a lease changes the status of at most one registered session.
LEMMA RenewLeaseConsistent ==
    ASSUME NEW st, Consistent(st), NEW c
    PROVE  Consistent(RenewLease(st, c))
<1>1. CASE Registered(st, c)
  <2> DEFINE status == [st.clients EXCEPT ![c] = "live"]
  <2>1. c \in Session /\ st \in ControllerState
    BY <1>1 DEF Registered, Consistent
  <2>2. status \in [Session -> ClientStatus]
    BY <2>1 DEF ControllerState, ClientStatus
  <2>3. \A s \in Session : Registered(st, s) => status[s] \in {"live", "lapsed"}
    BY <2>1 DEF ControllerState, Registered
  <2>4. RenewLease(st, c) = [st EXCEPT !.clients = status]
    BY <1>1 DEF RenewLease
  <2> HIDE DEF status
  <2> QED BY <2>2, <2>3, <2>4, ClientsConsistent
<1>2. CASE ~Registered(st, c)
  BY <1>2 DEF RenewLease
<1> QED BY <1>1, <1>2

\* A registered session joins a space: one side of the attachment is written
\* in the session, the other in the space.
LEMMA AttachConsistent ==
    ASSUME NEW st, Consistent(st),
           NEW c, Registered(st, c),
           NEW sp \in Space,
           NEW identity \in Identity
    PROVE  Consistent(Attach(st, c, sp, identity))
<1> DEFINE new == Attach(st, c, sp, identity)
<1>1. c \in Session /\ st \in ControllerState
  BY DEF Registered, Consistent
<1>2. /\ new \in ControllerState
      /\ new.clients = st.clients
      /\ new.bindings = st.bindings
      /\ SameBooks(new, st)
      /\ SameRequests(new, st)
  BY <1>1 DEF Attach, ControllerState, SameBooks, SameRequests
<1>3. /\ \A s \in Session : new.attached_space_ids[s] =
            IF s = c THEN st.attached_space_ids[s] \cup {sp} ELSE st.attached_space_ids[s]
      /\ \A x \in Space : new.attached_clients[x] =
            IF x = sp THEN st.attached_clients[x] \cup {c} ELSE st.attached_clients[x]
      /\ \A x \in Space : new.spaces[x] =
            IF x = sp /\ st.spaces[x] = Nil THEN identity ELSE st.spaces[x]
  BY <1>1 DEF Attach, ControllerState
<1> HIDE DEF new
<1>4. WellAttached(new)
  <2>1. ASSUME NEW s \in Session, NEW x \in Space
        PROVE  x \in new.attached_space_ids[s] <=> s \in new.attached_clients[x]
    <3>1. x \in st.attached_space_ids[s] <=> s \in st.attached_clients[x]
      BY DEF Consistent, WellAttached
    <3> QED BY <1>1, <1>3, <3>1
  <2>2. ASSUME NEW s \in Session, new.attached_space_ids[s] # {}
        PROVE  Registered(new, s)
    <3>1. st.attached_space_ids[s] # {} => Registered(st, s)
      BY DEF Consistent, WellAttached
    <3> QED BY <1>2, <1>3, <2>2, <3>1 DEF Registered
  <2>3. ASSUME NEW x \in Space
        PROVE  new.spaces[x] # Nil <=> new.attached_clients[x] # {}
    <3>1. st.spaces[x] # Nil <=> st.attached_clients[x] # {}
      BY DEF Consistent, WellAttached
    <3> QED BY <1>3, <3>1, NilAssumption
  <2> QED BY <2>1, <2>2, <2>3 DEF WellAttached
<1>5. WellOwned(new)
  <2>1. \A s \in Session, x \in Space : AttachedTo(st, s, x) => AttachedTo(new, s, x)
    BY <1>2, <1>3 DEF AttachedTo, Registered
  <2> QED BY <1>2, <2>1, BindingsPlaced DEF Consistent, WellOwned, SameBooks
<1>6. WellPooled(new)
  BY <1>2 DEF Consistent, WellPooled, SameBooks
<1>7. new.next_query_stream_id > 0
  BY <1>2 DEF Consistent, SameRequests
<1> QED BY <1>2, <1>4, <1>5, <1>6, <1>7 DEF Consistent, new

\* A session that owns nothing in a space may leave it: if somebody else owns
\* a binding there, that session is still attached, so the space stays; and if
\* nobody is attached any more, nothing is bound there and the space goes.
LEMMA DetachConsistent ==
    ASSUME NEW st, Consistent(st),
           NEW c, NEW sp \in Space,
           MayDetach(st, c, sp)
    PROVE  Consistent(Detach(st, c, sp))
<1> DEFINE left == [st EXCEPT !.attached_space_ids[c] = @ \ {sp},
                              !.attached_clients[sp] = @ \ {c}]
           new == Detach(st, c, sp)
<1>1. c \in Session /\ st \in ControllerState /\ sp \in st.attached_space_ids[c]
  BY DEF MayDetach, Registered, Consistent
<1>2. /\ left \in ControllerState
      /\ left.clients = st.clients
      /\ left.spaces = st.spaces
      /\ left.bindings = st.bindings
      /\ SameBooks(left, st)
      /\ SameRequests(left, st)
  BY <1>1 DEF ControllerState, SameBooks, SameRequests
<1>3. /\ \A s \in Session : left.attached_space_ids[s] =
            IF s = c THEN st.attached_space_ids[s] \ {sp} ELSE st.attached_space_ids[s]
      /\ \A x \in Space : left.attached_clients[x] =
            IF x = sp THEN st.attached_clients[x] \ {c} ELSE st.attached_clients[x]
  BY <1>1 DEF ControllerState
<1> HIDE DEF left
<1>4. /\ new \in ControllerState
      /\ new.clients = st.clients
      /\ new.bindings = st.bindings
      /\ SameBooks(new, st)
      /\ SameRequests(new, st)
      /\ new.attached_clients = left.attached_clients
      /\ new.attached_space_ids = left.attached_space_ids
      /\ \A x \in Space : new.spaces[x] =
            IF x = sp /\ IdleSpace(left, sp) THEN Nil ELSE st.spaces[x]
  <2>1. new = IF IdleSpace(left, sp) THEN RemoveSpace(left, sp) ELSE left
    BY DEF Detach, left
  <2>2. CASE IdleSpace(left, sp)
    <3>1. left.attached_clients[sp] = {}
      BY <2>2 DEF IdleSpace
    <3>2. /\ left.attached_clients = [left.attached_clients EXCEPT ![sp] = {}]
          /\ left.attached_space_ids =
                [s \in Session |-> IF s \in left.attached_clients[sp]
                                   THEN left.attached_space_ids[s] \ {sp}
                                   ELSE left.attached_space_ids[s]]
      BY <1>2, <3>1 DEF ControllerState
    <3>3. new = [left EXCEPT !.spaces[sp] = Nil,
                             !.attached_clients = left.attached_clients,
                             !.attached_space_ids = left.attached_space_ids]
      BY <2>1, <2>2, <3>2 DEF RemoveSpace
    <3> HIDE DEF new
    <3> QED BY <1>2, <2>2, <3>3 DEF ControllerState, SameBooks, SameRequests
  <2>3. CASE ~IdleSpace(left, sp)
    BY <1>2, <2>1, <2>3
  <2> QED BY <2>2, <2>3
<1> HIDE DEF new
<1>5. ASSUME NEW k \in BindingKey, st.bindings[k] # Nil
      PROVE  /\ st.bindings[k].owner \in Session
             /\ AttachedTo(st, st.bindings[k].owner, k.space)
             /\ k.space = sp => st.bindings[k].owner # c
  BY <1>5, BindingsPlaced DEF Consistent, WellOwned, AttachedTo, MayDetach
<1>6. left.attached_clients[sp] # {} <=> ~IdleSpace(left, sp)
  <2>1. ASSUME NEW k \in BindingKey, k.space = sp, left.bindings[k] # Nil
        PROVE  left.attached_clients[sp] # {}
    <3>1. /\ st.bindings[k].owner \in st.attached_clients[sp]
          /\ st.bindings[k].owner # c
      BY <1>2, <1>5, <2>1 DEF AttachedTo
    <3> QED BY <1>3, <3>1
  <2> QED BY <2>1 DEF IdleSpace
<1>7. WellAttached(new)
  <2>1. ASSUME NEW s \in Session, NEW x \in Space
        PROVE  x \in new.attached_space_ids[s] <=> s \in new.attached_clients[x]
    <3>1. x \in st.attached_space_ids[s] <=> s \in st.attached_clients[x]
      BY DEF Consistent, WellAttached
    <3> QED BY <1>1, <1>3, <1>4, <3>1
  <2>2. \A s \in Session : new.attached_space_ids[s] # {} => Registered(new, s)
    BY <1>1, <1>3, <1>4 DEF Consistent, WellAttached, Registered
  <2>3. st.spaces[sp] # Nil
    BY <1>1 DEF Consistent, WellAttached
  <2>4. ASSUME NEW x \in Space
        PROVE  new.spaces[x] # Nil <=> new.attached_clients[x] # {}
    <3>1. st.spaces[x] # Nil <=> st.attached_clients[x] # {}
      BY DEF Consistent, WellAttached
    <3>2. CASE x = sp
      BY <1>4, <1>6, <2>3, <3>2
    <3>3. CASE x # sp
      BY <1>3, <1>4, <3>1, <3>3
    <3> QED BY <3>2, <3>3
  <2> QED BY <2>1, <2>2, <2>4 DEF WellAttached
<1>8. WellOwned(new)
  <2>1. ASSUME NEW k \in BindingKey, new.bindings[k] # Nil
        PROVE  AttachedTo(new, new.bindings[k].owner, k.space)
    <3>1. /\ st.bindings[k] # Nil /\ new.bindings[k] = st.bindings[k]
          /\ k.space \in Space
          /\ Registered(st, st.bindings[k].owner)
          /\ st.bindings[k].owner \in st.attached_clients[k.space]
          /\ k.space = sp => st.bindings[k].owner # c
      BY <1>4, <1>5, <2>1, BindingsPlaced
    <3>2. new.attached_clients[k.space] =
             IF k.space = sp THEN st.attached_clients[sp] \ {c}
             ELSE st.attached_clients[k.space]
      BY <1>3, <1>4, <3>1
    <3>3. new.bindings[k].owner \in new.attached_clients[k.space]
      BY <3>1, <3>2
    <3> QED BY <1>4, <3>1, <3>3 DEF AttachedTo, Registered
  <2> QED BY <1>4, <2>1 DEF Consistent, WellOwned, SameBooks
<1>9. WellPooled(new)
  BY <1>4 DEF Consistent, WellPooled, SameBooks
<1>10. new.next_query_stream_id > 0
  BY <1>4 DEF Consistent, SameRequests
<1> QED BY <1>4, <1>7, <1>8, <1>9, <1>10 DEF Consistent, new

-----------------------------------------------------------------------------
\* The fields once session c has bound k to b, which is in the pool.
Bound(new, st, c, k, b) ==
    LET old == Enabled(st, {k})
    IN /\ SameSpaces(new, st)
       /\ SameRequests(new, st)
       /\ \A l \in BindingKey : new.bindings[l] =
             IF l = k THEN [owner |-> c, resource |-> b.resource, backend |-> b]
             ELSE st.bindings[l]
       /\ \A s \in Session : new.owned_binding_keys[s] =
             (st.owned_binding_keys[s] \ OwnedAmong(old, st.bindings, s))
             \cup (IF s = c THEN {k} ELSE {})
       /\ \A r \in Resource :
             /\ new.resources[r] =
                   (st.resources[r] \ OnAmong(old, st.bindings, r))
                   \cup (IF r = b.resource THEN {k} ELSE {})
             /\ new.resource_backends[r] =
                   IF Released(st, old, st.bindings, r) THEN Nil
                   ELSE IF r = b.resource THEN b ELSE st.resource_backends[r]
             /\ new.resource_configs[r] =
                   IF Released(st, old, st.bindings, r) THEN Nil
                   ELSE IF r = b.resource THEN b.config ELSE st.resource_configs[r]

\* The map entry is replaced, the old entry untracked and the new one tracked.
LEMMA BindFields ==
    ASSUME NEW st \in ControllerState,
           NEW k \in BindingKey,
           NEW b \in Backend, b.resource \in Resource,
           NEW c \in Session
    PROVE  LET new == Bind(PoolBackend(st, b), k,
                           [owner |-> c, resource |-> b.resource, backend |-> b])
           IN new \in ControllerState /\ Bound(new, st, c, k, b)
<1> DEFINE entry == [owner |-> c, resource |-> b.resource, backend |-> b]
           old == Enabled(st, {k})
           pooled == PoolBackend(st, b)
           placed == [pooled EXCEPT !.bindings[k] = entry]
           untracked == UntrackBindings(placed, old, st.bindings)
           new == TrackBinding(untracked, k, c, b.resource)
<1>1. /\ pooled \in ControllerState
      /\ SameSpaces(pooled, st)
      /\ SameRequests(pooled, st)
      /\ pooled.bindings = st.bindings
      /\ pooled.owned_binding_keys = st.owned_binding_keys
      /\ pooled.resources = st.resources
      /\ \A r \in Resource :
            /\ pooled.resource_backends[r] =
                  IF r = b.resource THEN b ELSE st.resource_backends[r]
            /\ pooled.resource_configs[r] =
                  IF r = b.resource THEN b.config ELSE st.resource_configs[r]
  BY DEF PoolBackend, ControllerState, SameSpaces, SameRequests, Backend
<1>2. Bind(pooled, k, entry) = new
  BY <1>1 DEF Bind, Enabled
<1>3. entry \in BindingEntry
  BY DEF BindingEntry
<1>4. old \in SUBSET BindingKey
  BY DEF Enabled
<1> HIDE DEF pooled, entry, old
<1>5. /\ placed \in ControllerState
      /\ SameSpaces(placed, pooled)
      /\ SameRequests(placed, pooled)
      /\ SameBooks(placed, pooled)
      /\ \A l \in BindingKey :
            placed.bindings[l] = IF l = k THEN entry ELSE pooled.bindings[l]
  BY <1>1, <1>3 DEF ControllerState, SameSpaces, SameRequests, SameBooks
<1> HIDE DEF placed
<1>6. /\ untracked \in ControllerState
      /\ SameSpaces(untracked, placed)
      /\ SameRequests(untracked, placed)
      /\ untracked.bindings = placed.bindings
      /\ Untracked(untracked, placed, old, st.bindings)
  BY <1>4, <1>5, UntrackBindingsFields
<1> HIDE DEF untracked
<1>7. /\ new \in ControllerState
      /\ SameSpaces(new, untracked)
      /\ SameRequests(new, untracked)
      /\ new.bindings = untracked.bindings
      /\ new.resource_backends = untracked.resource_backends
      /\ new.resource_configs = untracked.resource_configs
      /\ \A s \in Session : new.owned_binding_keys[s] =
            untracked.owned_binding_keys[s] \cup (IF s = c THEN {k} ELSE {})
      /\ \A r \in Resource : new.resources[r] =
            untracked.resources[r] \cup (IF r = b.resource THEN {k} ELSE {})
  BY <1>6 DEF TrackBinding, ControllerState, SameSpaces, SameRequests
<1> HIDE DEF new
<1>8. SameSpaces(new, st) /\ SameRequests(new, st)
  BY <1>1, <1>5, <1>6, <1>7 DEF SameSpaces, SameRequests
<1>9. \A l \in BindingKey : new.bindings[l] = IF l = k THEN entry ELSE st.bindings[l]
  BY <1>1, <1>5, <1>6, <1>7
<1>10. \A s \in Session : new.owned_binding_keys[s] =
          (st.owned_binding_keys[s] \ OwnedAmong(old, st.bindings, s))
          \cup (IF s = c THEN {k} ELSE {})
  BY <1>1, <1>5, <1>6, <1>7 DEF Untracked, SameBooks
<1>11. \A r \in Resource : Released(placed, old, st.bindings, r)
                           <=> Released(st, old, st.bindings, r)
  BY <1>1, <1>5 DEF Released, SameBooks
<1>12. ASSUME NEW r \in Resource
       PROVE  /\ new.resources[r] =
                    (st.resources[r] \ OnAmong(old, st.bindings, r))
                    \cup (IF r = b.resource THEN {k} ELSE {})
              /\ new.resource_backends[r] =
                    IF Released(st, old, st.bindings, r) THEN Nil
                    ELSE IF r = b.resource THEN b ELSE st.resource_backends[r]
              /\ new.resource_configs[r] =
                    IF Released(st, old, st.bindings, r) THEN Nil
                    ELSE IF r = b.resource THEN b.config ELSE st.resource_configs[r]
  BY <1>1, <1>5, <1>6, <1>7, <1>11 DEF Untracked, SameBooks
<1>13. Bound(new, st, c, k, b)
  BY <1>8, <1>9, <1>10, <1>12 DEF Bound, entry, old
<1> QED BY <1>2, <1>7, <1>13 DEF pooled, entry

\* Enabling keeps the books right, whether the backend is new, taken from the
\* pool, or taken from the pool by the binding that was the last one on it.
LEMMA BindConsistent ==
    ASSUME NEW st, Consistent(st),
           NEW k \in BindingKey,
           NEW b \in Backend, b.resource \in Resource,
           NEW c \in Session,
           AttachedTo(st, c, k.space),
           EnsureOwnerMatch(st.bindings[k], c)
    PROVE  Consistent(Bind(PoolBackend(st, b), k,
                           [owner |-> c, resource |-> b.resource, backend |-> b]))
<1> DEFINE entry == [owner |-> c, resource |-> b.resource, backend |-> b]
           new == Bind(PoolBackend(st, b), k, entry)
           old == Enabled(st, {k})
<1>1. /\ new \in ControllerState
      /\ SameSpaces(new, st)
      /\ SameRequests(new, st)
      /\ \A l \in BindingKey : new.bindings[l] = IF l = k THEN entry ELSE st.bindings[l]
      /\ \A s \in Session : new.owned_binding_keys[s] =
            (st.owned_binding_keys[s] \ OwnedAmong(old, st.bindings, s))
            \cup (IF s = c THEN {k} ELSE {})
      /\ \A r \in Resource :
            /\ new.resources[r] =
                  (st.resources[r] \ OnAmong(old, st.bindings, r))
                  \cup (IF r = b.resource THEN {k} ELSE {})
            /\ new.resource_backends[r] =
                  IF Released(st, old, st.bindings, r) THEN Nil
                  ELSE IF r = b.resource THEN b ELSE st.resource_backends[r]
            /\ new.resource_configs[r] =
                  IF Released(st, old, st.bindings, r) THEN Nil
                  ELSE IF r = b.resource THEN b.config ELSE st.resource_configs[r]
  <2>1. st \in ControllerState
    BY DEF Consistent
  <2>2. new \in ControllerState /\ Bound(new, st, c, k, b)
    BY <2>1, BindFields
  <2> HIDE DEF new
  <2> QED BY <2>2 DEF Bound
<1>2. /\ entry.owner = c
      /\ entry.resource = b.resource
      /\ entry \in BindingEntry
  BY DEF BindingEntry
<1> HIDE DEF new, entry
<1>3. entry # Nil /\ b # Nil /\ b.config # Nil
  BY <1>2, NilAssumption DEF Backend
<1>4. WellAttached(new)
  BY <1>1 DEF Consistent, WellAttached, Registered, SameSpaces
<1>5. WellOwned(new)
  <2>1. ASSUME NEW s \in Session
        PROVE  new.owned_binding_keys[s] =
                  {l \in BindingKey : new.bindings[l] # Nil /\ new.bindings[l].owner = s}
    <3>1. st.owned_binding_keys[s] =
             {l \in BindingKey : st.bindings[l] # Nil /\ st.bindings[l].owner = s}
      BY DEF Consistent, WellOwned
    <3> QED BY <1>1, <1>2, <1>3, <3>1 DEF OwnedAmong, Enabled
  <2>2. ASSUME NEW l \in BindingKey, new.bindings[l] # Nil
        PROVE  AttachedTo(new, new.bindings[l].owner, l.space)
    BY <1>1, <1>2, <2>2 DEF Consistent, WellOwned, AttachedTo, Registered, SameSpaces
  <2> QED BY <2>1, <2>2 DEF WellOwned
<1>6. WellPooled(new)
  <2>1. ASSUME NEW r \in Resource
        PROVE  new.resources[r] =
                  {l \in BindingKey : new.bindings[l] # Nil /\ new.bindings[l].resource = r}
    <3>1. st.resources[r] =
             {l \in BindingKey : st.bindings[l] # Nil /\ st.bindings[l].resource = r}
      BY DEF Consistent, WellPooled
    <3>2. new.resources[r] =
             (st.resources[r] \ OnAmong(old, st.bindings, r))
             \cup (IF r = b.resource THEN {k} ELSE {})
      BY <1>1
    <3>3. \A l \in BindingKey : new.bindings[l] = IF l = k THEN entry ELSE st.bindings[l]
      BY <1>1
    <3>4. CASE r = b.resource
      BY <1>2, <1>3, <3>1, <3>2, <3>3, <3>4 DEF OnAmong, Enabled
    <3>5. CASE r # b.resource
      BY <1>2, <1>3, <3>1, <3>2, <3>3, <3>5 DEF OnAmong, Enabled
    <3> QED BY <3>4, <3>5
  <2>2. ASSUME NEW r \in Resource
        PROVE  /\ new.resource_backends[r] = Nil <=> new.resource_configs[r] = Nil
               /\ new.resource_backends[r] # Nil =>
                     /\ new.resources[r] # {}
                     /\ new.resource_backends[r].resource = r
                     /\ new.resource_backends[r].config = new.resource_configs[r]
    <3>1. CASE Released(st, old, st.bindings, r)
      BY <1>1, <3>1
    <3>2. CASE ~Released(st, old, st.bindings, r) /\ r = b.resource
      BY <1>1, <1>3, <3>2
    <3>3. CASE ~Released(st, old, st.bindings, r) /\ r # b.resource
      <4>1. /\ st.resource_backends[r] = Nil <=> st.resource_configs[r] = Nil
            /\ st.resource_backends[r] # Nil =>
                  /\ st.resources[r] # {}
                  /\ st.resource_backends[r].resource = r
                  /\ st.resource_backends[r].config = st.resource_configs[r]
        BY DEF Consistent, WellPooled
      <4> QED BY <1>1, <3>3, <4>1 DEF Released
    <3> QED BY <3>1, <3>2, <3>3
  <2> QED BY <2>1, <2>2 DEF WellPooled
<1>7. new.next_query_stream_id > 0
  BY <1>1 DEF Consistent, SameRequests
<1> QED BY <1>1, <1>4, <1>5, <1>6, <1>7 DEF Consistent, new, entry

-----------------------------------------------------------------------------
\* The inductive invariant.
Inv ==
    /\ Consistent(state)
    /\ tasks \in [Task -> Job \cup {Nil}]
    /\ workers \in [StreamId -> Backend \cup {Nil}]

\* An empty controller satisfies the invariant.
LEMMA InitInv == Init => Inv
<1> SUFFICES ASSUME Init PROVE Inv
  OBVIOUS
<1>1. state \in ControllerState /\ state.next_query_stream_id > 0
  BY DEF Init, ControllerState, ClientStatus
<1>2. WellAttached(state)
  BY DEF Init, WellAttached
<1>3. WellOwned(state)
  BY DEF Init, WellOwned
<1>4. WellPooled(state)
  BY DEF Init, WellPooled
<1>5. tasks \in [Task -> Job \cup {Nil}] /\ workers \in [StreamId -> Backend \cup {Nil}]
  BY DEF Init
<1> QED BY <1>1, <1>2, <1>3, <1>4, <1>5 DEF Inv, Consistent

\* Counting a request, and the flag of the idle window, touch nothing else.
LEMMA RequestConsistent ==
    ASSUME NEW st, Consistent(st),
           NEW inflight \in Nat,
           NEW recent \in BOOLEAN
    PROVE  Consistent([st EXCEPT !.inflight_requests = inflight, !.recent_request = recent])
<1> DEFINE new == [st EXCEPT !.inflight_requests = inflight, !.recent_request = recent]
<1>1. /\ new \in ControllerState
      /\ new.next_query_stream_id = st.next_query_stream_id
      /\ SameSpaces(new, st)
      /\ SameBooks(new, st)
      /\ new.bindings = st.bindings
  BY DEF Consistent, ControllerState, SameSpaces, SameBooks
<1>2. new.next_query_stream_id > 0
  BY <1>1 DEF Consistent
<1> HIDE DEF new
<1>3. Consistent(new)
  BY <1>1, <1>2, SameRegistryConsistent
<1> QED BY <1>3 DEF new

\* So does the table of query streams.
LEMMA StreamsConsistent ==
    ASSUME NEW st, Consistent(st),
           NEW streams \in [StreamId -> StreamEntry \cup {Nil}],
           NEW id \in Nat, id > 0
    PROVE  Consistent([st EXCEPT !.query_streams = streams, !.next_query_stream_id = id])
<1> DEFINE new == [st EXCEPT !.query_streams = streams, !.next_query_stream_id = id]
<1>1. /\ new \in ControllerState
      /\ new.next_query_stream_id > 0
      /\ SameSpaces(new, st)
      /\ SameBooks(new, st)
      /\ new.bindings = st.bindings
  BY DEF Consistent, ControllerState, SameSpaces, SameBooks
<1> HIDE DEF new
<1>2. Consistent(new)
  BY <1>1, SameRegistryConsistent
<1> QED BY <1>2 DEF new

\* A request, a registration, a renewal or the end of a lease.
LEMMA SessionNextInv ==
    ASSUME Inv, SessionNext
    PROVE  Inv'
<1> USE DEF Inv
<1>1. /\ Consistent(state)
      /\ Consistent(PruneExpired(state))
      /\ PruneExpired(state) \in ControllerState
      /\ state \in ControllerState
  BY PruneExpiredConsistent DEF Consistent
<1>2. ASSUME NEW s \in Session, RegisterClient(s)
      PROVE  Inv'
  <2> DEFINE st == PruneExpired(state)
             status == [st.clients EXCEPT ![s] = "live"]
  <2>1. status \in [Session -> ClientStatus]
    BY <1>1 DEF ControllerState, ClientStatus
  <2>2. \A x \in Session : Registered(st, x) => status[x] \in {"live", "lapsed"}
    BY <1>1 DEF ControllerState, Registered
  <2>3. state' = [st EXCEPT !.clients = status]
    BY <1>2 DEF RegisterClient
  <2> HIDE DEF st, status
  <2>4. Consistent(state')
    BY <1>1, <2>1, <2>2, <2>3, ClientsConsistent DEF st
  <2> QED BY <1>2, <2>4 DEF RegisterClient
<1>3. ASSUME NEW s \in Session, RenewClient(s)
      PROVE  Inv'
  BY <1>1, <1>3, RenewLeaseConsistent DEF RenewClient
<1>4. ASSUME NEW s \in Session, UnregisterClient(s)
      PROVE  Inv'
  BY <1>1, <1>4, RemoveClientsConsistent DEF UnregisterClient
<1>5. ASSUME NEW s \in Session, LeaseLapses(s)
      PROVE  Inv'
  <2> DEFINE status == [state.clients EXCEPT ![s] = "lapsed"]
  <2>1. status \in [Session -> ClientStatus]
    BY <1>1 DEF ControllerState, ClientStatus
  <2>2. \A x \in Session : Registered(state, x) => status[x] \in {"live", "lapsed"}
    BY <1>1 DEF ControllerState, Registered
  <2>3. state' = [state EXCEPT !.clients = status]
    BY <1>5 DEF LeaseLapses
  <2> HIDE DEF status
  <2>4. Consistent(state')
    BY <1>1, <2>1, <2>2, <2>3, ClientsConsistent
  <2> QED BY <1>5, <2>4 DEF LeaseLapses
<1>6. ASSUME NEW c \in Caller, NEW r \in BOOLEAN, BeginRequest(c, r)
      PROVE  Inv'
  <2> DEFINE st == RenewLease(PruneExpired(state), c)
  <2>1. Consistent(st) /\ st \in ControllerState
    BY <1>1, RenewLeaseConsistent DEF Consistent
  <2>2. state' = [st EXCEPT !.inflight_requests = st.inflight_requests + 1,
                            !.recent_request = st.recent_request \/ r]
    BY <1>6 DEF BeginRequest
  <2> HIDE DEF st
  <2>3. st.inflight_requests + 1 \in Nat
    BY <2>1 DEF ControllerState
  <2>4. (st.recent_request \/ r) \in BOOLEAN
    OBVIOUS
  <2>5. Consistent(state')
    BY <2>1, <2>2, <2>3, <2>4, RequestConsistent
  <2> QED BY <1>6, <2>5 DEF BeginRequest
<1>7. CASE DropRequestGuard
  <2>1. /\ state.inflight_requests \in Nat
        /\ state.inflight_requests > 0
        /\ state.recent_request \in BOOLEAN
    BY <1>1, <1>7 DEF DropRequestGuard, ControllerState
  <2>2. state' = [state EXCEPT !.inflight_requests = state.inflight_requests - 1,
                               !.recent_request = state.recent_request]
    BY <1>1, <1>7 DEF DropRequestGuard, ControllerState
  <2>3. state.inflight_requests - 1 \in Nat
    BY <2>1
  <2>4. Consistent(state')
    BY <1>1, <2>1, <2>2, <2>3, RequestConsistent
  <2> QED BY <1>7, <2>4 DEF DropRequestGuard
<1>8. CASE ReapExpiredClients
  BY <1>1, <1>8 DEF ReapExpiredClients
<1>9. CASE IdleTimeoutElapses
  <2>1. /\ state' = [state EXCEPT !.inflight_requests = state.inflight_requests,
                                  !.recent_request = FALSE]
        /\ state.inflight_requests \in Nat
    BY <1>1, <1>9 DEF IdleTimeoutElapses, ControllerState
  <2>2. Consistent(state')
    BY <1>1, <2>1, RequestConsistent
  <2> QED BY <1>9, <2>2 DEF IdleTimeoutElapses
<1> QED BY <1>2, <1>3, <1>4, <1>5, <1>6, <1>7, <1>8, <1>9 DEF SessionNext

\* Attaching and detaching.
LEMMA SpaceNextInv ==
    ASSUME Inv, SpaceNext
    PROVE  Inv'
<1> DEFINE st == PruneExpired(state)
<1>1. Consistent(st)
  BY PruneExpiredConsistent DEF Inv
<1>2. ASSUME NEW c \in Caller, NEW sp \in Space, NEW i \in Identity, AttachSpace(c, sp, i)
      PROVE  Inv'
  <2>1. /\ \/ state' = st
           \/ Registered(st, c) /\ state' = Attach(st, c, sp, i)
        /\ UNCHANGED <<tasks, workers>>
    BY <1>2 DEF AttachSpace
  <2> HIDE DEF st
  <2>2. Consistent(state')
    BY <1>1, <2>1, AttachConsistent
  <2> QED BY <2>1, <2>2 DEF Inv
<1>3. ASSUME NEW c \in Caller, NEW sp \in Space, DetachSpace(c, sp)
      PROVE  Inv'
  <2>1. /\ \/ state' = st
           \/ st.spaces[sp] # Nil /\ IdleSpace(st, sp)
           \/ MayDetach(st, c, sp) /\ state' = Detach(st, c, sp)
        /\ UNCHANGED <<tasks, workers>>
    BY <1>3 DEF DetachSpace
  <2> HIDE DEF st
  <2>2. ~(st.spaces[sp] # Nil /\ IdleSpace(st, sp))
    BY <1>1 DEF Consistent, WellAttached, IdleSpace
  <2>3. Consistent(state')
    BY <1>1, <2>1, <2>2, DetachConsistent
  <2> QED BY <2>1, <2>3 DEF Inv
<1> QED BY <1>2, <1>3 DEF SpaceNext

\* Enabling on whatever backend the pool or a new open provides.
LEMMA EnableInv ==
    ASSUME Inv,
           NEW c \in Caller, NEW k \in BindingKey,
           NEW r \in Resource, NEW config \in Config,
           Enable(c, k, r, config)
    PROVE  Inv'
<1>1. /\ Consistent(state)
      /\ state \in ControllerState
      /\ AttachedTo(state, c, k.space)
      /\ EnsureOwnerMatch(state.bindings[k], c)
      /\ UNCHANGED <<tasks, workers>>
  BY DEF Enable, EnsureCreationAccess, Inv, Consistent
<1>2. c \in Session
  BY <1>1 DEF AttachedTo, Registered
<1>3. PICK b \in BackendForEnable(r, config) :
         state' = Bind(PoolBackend(state, b), k,
                       [owner |-> c, resource |-> r, backend |-> b])
  BY DEF Enable
<1>4. b \in Backend /\ b.resource = r
  <2>1. CASE state.resource_backends[r] = Nil
    <3>1. b \in NewBackends(r, config)
      BY <1>3, <2>1 DEF BackendForEnable
    <3>2. PICK h \in Handle : b = [handle |-> h, resource |-> r, config |-> config]
      BY <3>1 DEF NewBackends
    <3> QED BY <3>2 DEF Backend
  <2>2. CASE state.resource_backends[r] # Nil
    <3>1. b = state.resource_backends[r]
      BY <1>3, <2>2 DEF BackendForEnable
    <3> QED BY <1>1, <2>2, <3>1 DEF Consistent, WellPooled, ControllerState
  <2> QED BY <2>1, <2>2
<1>5. Consistent(state')
  BY <1>1, <1>2, <1>3, <1>4, BindConsistent
<1> QED BY <1>1, <1>5 DEF Inv

\* Disabling removes one binding.
LEMMA DisableInv ==
    ASSUME Inv, NEW c, NEW k \in BindingKey, Disable(c, k)
    PROVE  Inv'
<1>1. /\ Consistent(state)
      /\ {k} \in SUBSET BindingKey
      /\ state' = RemoveBindings(state, {k})
      /\ UNCHANGED <<tasks, workers>>
  BY DEF Disable, Inv
<1>2. Consistent(state')
  BY <1>1, RemoveBindingsConsistent
<1> QED BY <1>1, <1>2 DEF Inv

\* Enabling and disabling.
LEMMA BackendNextInv ==
    ASSUME Inv, BackendNext
    PROVE  Inv'
<1>1. \A kind \in Kind, sp \in Space, b \in Binding : Key(kind, sp, b) \in BindingKey
  BY DEF Key, BindingKey
<1>2. PICK c \in Caller, sp \in Space, b \in Binding :
         \/ \E r \in SqliteResource, g \in Config : EnableSqlite(c, sp, b, r, g)
         \/ \E r \in LanceResource, g \in Config : EnableLanceDb(c, sp, b, r, g)
         \/ DisableSqlite(c, sp, b)
         \/ DisableLanceDb(c, sp, b)
  BY DEF BackendNext
<1>3. Key("sqlite", sp, b) \in BindingKey /\ Key("lancedb", sp, b) \in BindingKey
  BY <1>1 DEF Kind
<1>4. ASSUME NEW r \in SqliteResource, NEW g \in Config, EnableSqlite(c, sp, b, r, g)
      PROVE  Inv'
  BY <1>3, <1>4, EnableInv DEF EnableSqlite, Resource
<1>5. ASSUME NEW r \in LanceResource, NEW g \in Config, EnableLanceDb(c, sp, b, r, g)
      PROVE  Inv'
  BY <1>3, <1>5, EnableInv DEF EnableLanceDb, Resource
<1>6. CASE DisableSqlite(c, sp, b)
  BY <1>3, <1>6, DisableInv DEF DisableSqlite
<1>7. CASE DisableLanceDb(c, sp, b)
  BY <1>3, <1>7, DisableInv DEF DisableLanceDb
<1> QED BY <1>2, <1>4, <1>5, <1>6, <1>7

\* Calls and streams use the registry and never write it, but for the table of
\* streams.
LEMMA CallNextInv ==
    ASSUME Inv, CallNext
    PROVE  Inv'
<1>1. ASSUME NEW k \in BindingKey, state.bindings[k] # Nil
      PROVE  state.bindings[k].backend \in Backend
  BY <1>1 DEF Inv, Consistent, ControllerState, BindingEntry
<1>2. \A kind \in Kind, sp \in Space, b \in Binding : Key(kind, sp, b) \in BindingKey
  BY DEF Key, BindingKey
<1>3. PICK t \in Task :
         \/ \E c \in Caller, sp \in Space, b \in Binding :
               \/ SqliteCall(t, c, sp, b)
               \/ LanceDbCall(t, c, sp, b)
         \/ CallReturns(t)
  BY DEF CallNext
<1>4. ASSUME NEW job \in Job, StartTask(t, job), UNCHANGED <<state, workers>>
      PROVE  Inv'
  BY <1>4 DEF StartTask, Inv
<1>5. ASSUME NEW c \in Caller, NEW sp \in Space, NEW b \in Binding, SqliteCall(t, c, sp, b)
      PROVE  Inv'
  <2> DEFINE k == Key("sqlite", sp, b)
  <2>1. k \in BindingKey
    BY <1>2 DEF Kind
  <2> HIDE DEF k
  <2>2. /\ state.bindings[k] # Nil
        /\ StartTask(t, [op |-> "call", backend |-> state.bindings[k].backend])
        /\ UNCHANGED <<state, workers>>
    BY <1>5 DEF SqliteCall, BackendAccess, k
  <2>3. [op |-> "call", backend |-> state.bindings[k].backend] \in Job
    BY <1>1, <2>1, <2>2 DEF Job
  <2> QED BY <1>4, <2>2, <2>3
<1>6. ASSUME NEW c \in Caller, NEW sp \in Space, NEW b \in Binding, LanceDbCall(t, c, sp, b)
      PROVE  Inv'
  <2> DEFINE k == Key("lancedb", sp, b)
  <2>1. k \in BindingKey
    BY <1>2 DEF Kind
  <2> HIDE DEF k
  <2>2. /\ state.bindings[k] # Nil
        /\ StartTask(t, [op |-> "call", backend |-> state.bindings[k].backend])
        /\ UNCHANGED <<state, workers>>
    BY <1>6 DEF LanceDbCall, BackendAccess, k
  <2>3. [op |-> "call", backend |-> state.bindings[k].backend] \in Job
    BY <1>1, <2>1, <2>2 DEF Job
  <2> QED BY <1>4, <2>2, <2>3
<1>7. CASE CallReturns(t)
  BY <1>7 DEF CallReturns, Inv
<1> QED BY <1>3, <1>5, <1>6, <1>7

\* A touched stream keeps its owner.
LEMMA TouchedConsistent ==
    ASSUME Consistent(state), NEW id \in StreamId, state.query_streams[id] # Nil,
           NEW stale \in BOOLEAN
    PROVE  Consistent([state EXCEPT !.query_streams[id].stale = stale])
<1> DEFINE streams == [state.query_streams EXCEPT ![id].stale = stale]
<1>1. /\ state \in ControllerState
      /\ state.next_query_stream_id \in Nat
      /\ state.next_query_stream_id > 0
  BY DEF Consistent, ControllerState
<1>2. streams \in [StreamId -> StreamEntry \cup {Nil}]
  <2>1. /\ state.query_streams \in [StreamId -> StreamEntry \cup {Nil}]
        /\ state.query_streams[id] \in StreamEntry
    BY <1>1 DEF ControllerState
  <2>2. [state.query_streams[id] EXCEPT !.stale = stale] \in StreamEntry
    BY <2>1 DEF StreamEntry
  <2> QED BY <2>1, <2>2
<1>3. [state EXCEPT !.query_streams[id].stale = stale]
         = [state EXCEPT !.query_streams = streams,
                         !.next_query_stream_id = state.next_query_stream_id]
  BY <1>1 DEF ControllerState
<1> HIDE DEF streams
<1> QED BY <1>1, <1>2, <1>3, StreamsConsistent

\* Opening, using, closing, completing and reaping streams.
LEMMA StreamNextInv ==
    ASSUME Inv, StreamNext
    PROVE  Inv'
<1> USE DEF Inv
<1>1. /\ Consistent(state)
      /\ state \in ControllerState
      /\ state.query_streams \in [StreamId -> StreamEntry \cup {Nil}]
      /\ state.next_query_stream_id \in Nat
      /\ state.next_query_stream_id > 0
  BY DEF Consistent, ControllerState
<1>2. ASSUME NEW c \in Caller, NEW id \in StreamId, StreamAccess(c, id)
      PROVE  /\ state.query_streams[id] # Nil
             /\ c \in Session
             /\ Consistent(Touched(id))
  <2>1. state.query_streams[id] \in StreamEntry /\ state.query_streams[id].owner = c
    BY <1>1, <1>2 DEF StreamAccess
  <2> QED BY <1>1, <1>2, <2>1, TouchedConsistent DEF StreamAccess, StreamEntry, Touched
<1>3. ASSUME NEW t \in Task, NEW c \in Caller, NEW sp \in Space, NEW b \in Binding,
             OpenStream(t, c, sp, b)
      PROVE  Inv'
  <2> DEFINE k == Key("sqlite", sp, b)
             job == [op |-> "open", client |-> c, space |-> sp,
                     backend |-> state.bindings[k].backend]
  <2>1. k \in BindingKey /\ k.space = sp
    BY DEF Key, BindingKey, Kind
  <2> HIDE DEF k
  <2>2. /\ EnsureBindingAccess(state, k, c)
        /\ state.bindings[k] # Nil
        /\ StartTask(t, job)
        /\ UNCHANGED <<state, workers>>
    BY <1>3 DEF OpenStream, BackendAccess, k
  <2>3. state.bindings[k].backend \in Backend
    BY <1>1, <2>1, <2>2 DEF ControllerState, BindingEntry
  <2>4. c \in Session
    BY <1>1, <2>1, <2>2, BindingsPlaced DEF EnsureBindingAccess, EnsureOwnerMatch
  <2>5. job \in Job
    BY <2>3, <2>4 DEF Job
  <2> QED BY <2>2, <2>5 DEF StartTask
<1>4. ASSUME NEW t \in Task, InsertStream(t)
      PROVE  Inv'
  <2> DEFINE job == tasks[t]
             id == state.next_query_stream_id
             entry == [owner |-> job.client, space |-> job.space, stale |-> FALSE]
             streams == [state.query_streams EXCEPT ![id] = entry]
  <2>1. job \in Job /\ job.op = "open" /\ id \in StreamId
    BY <1>1, <1>4, ConstantsAssumption DEF InsertStream, StreamId
  <2>2. job.client \in Session /\ job.space \in Space /\ job.backend \in Backend
    BY <2>1 DEF Job
  <2>3. streams \in [StreamId -> StreamEntry \cup {Nil}]
    BY <1>1, <2>1, <2>2 DEF StreamEntry
  <2>4. state' = [state EXCEPT !.query_streams = streams, !.next_query_stream_id = id + 1]
    BY <1>1, <1>4 DEF InsertStream
  <2>5. workers' = [workers EXCEPT ![id] = job.backend] /\ tasks' = [tasks EXCEPT ![t] = Nil]
    BY <1>4 DEF InsertStream
  <2>6. id + 1 \in Nat /\ id + 1 > 0
    BY <1>1
  <2>7. Consistent(state')
    <3> HIDE DEF streams
    <3> QED BY <1>1, <2>3, <2>4, <2>6, StreamsConsistent
  <2> QED BY <2>1, <2>2, <2>5, <2>7
<1>5. ASSUME NEW t \in Task, NEW c \in Caller, NEW id \in StreamId, CloseStream(t, c, id)
      PROVE  Inv'
  <2>1. /\ c \in Session
        /\ Consistent(state')
        /\ StartTask(t, [op |-> "close", client |-> c, stream |-> id])
        /\ UNCHANGED workers
    BY <1>2, <1>5 DEF CloseStream
  <2>2. [op |-> "close", client |-> c, stream |-> id] \in Job
    BY <2>1 DEF Job
  <2> QED BY <2>1, <2>2 DEF StartTask
<1>6. ASSUME NEW t \in Task, RemoveStream(t)
      PROVE  Inv'
  <2> DEFINE streams == [state.query_streams EXCEPT ![tasks[t].stream] = Nil]
  <2>1. streams \in [StreamId -> StreamEntry \cup {Nil}]
    BY <1>1
  <2>2. state' = [state EXCEPT !.query_streams = streams,
                               !.next_query_stream_id = state.next_query_stream_id]
    BY <1>1, <1>6 DEF RemoveStream, ControllerState
  <2> HIDE DEF streams
  <2>3. Consistent(state')
    BY <1>1, <2>1, <2>2, StreamsConsistent
  <2> QED BY <1>6, <2>3 DEF RemoveStream
<1>7. ASSUME NEW c \in Caller, NEW id \in StreamId, UseStream(c, id)
      PROVE  Inv'
  BY <1>2, <1>7 DEF UseStream
<1>8. ASSUME NEW id \in StreamId, StreamCompletes(id)
      PROVE  Inv'
  <2>1. Consistent(state')
    BY <1>1, <1>8, TouchedConsistent DEF StreamCompletes, Touched
  <2> QED BY <1>8, <2>1 DEF StreamCompletes
<1>9. ASSUME NEW id \in StreamId, StreamGoesStale(id)
      PROVE  Inv'
  <2>1. Consistent(state')
    BY <1>1, <1>9, TouchedConsistent DEF StreamGoesStale
  <2> QED BY <1>9, <2>1 DEF StreamGoesStale
<1>10. CASE ReapStaleStreams
  <2> DEFINE streams ==
        [id \in StreamId |-> IF Reapable(id) THEN Nil ELSE state.query_streams[id]]
  <2>1. streams \in [StreamId -> StreamEntry \cup {Nil}]
    BY <1>1
  <2>2. state' = [state EXCEPT !.query_streams = streams,
                               !.next_query_stream_id = state.next_query_stream_id]
    BY <1>1, <1>10 DEF ReapStaleStreams, ControllerState
  <2> HIDE DEF streams
  <2>3. Consistent(state')
    BY <1>1, <2>1, <2>2, StreamsConsistent
  <2> QED BY <1>10, <2>3 DEF ReapStaleStreams
<1> QED BY <1>3, <1>4, <1>5, <1>6, <1>7, <1>8, <1>9, <1>10 DEF StreamNext

\* The invariant is inductive.
LEMMA NextInv == Inv /\ [Next]_vars => Inv'
<1> SUFFICES ASSUME Inv, [Next]_vars PROVE Inv'
  OBVIOUS
<1>1. CASE UNCHANGED vars
  BY <1>1 DEF vars, Inv
<1>2. CASE Next
  BY <1>2, SessionNextInv, SpaceNextInv, BackendNextInv, CallNextInv, StreamNextInv DEF Next
<1> QED BY <1>1, <1>2

\* The inductive invariant holds in every state the controller reaches.
THEOREM InvHolds == Spec => []Inv
<1>1. Init => Inv
  BY InitInv
<1>2. Inv /\ [Next]_vars => Inv'
  BY NextInv
<1> QED BY <1>1, <1>2, PTL DEF Spec

\* Every part of the registry keeps its type: maps stay total over their keys,
\* a pooled object is a backend, a job carries what its operation needs.
THEOREM TypeCorrect == Spec => []TypeOK
<1>1. Inv => TypeOK
  BY DEF Inv, Consistent, TypeOK
<1> QED BY <1>1, InvHolds, PTL

\* The two directions of every attachment agree, and a space is listed exactly
\* while a registered session is attached to it.
THEOREM AttachmentsCorrect == Spec => []AttachmentsConsistent
<1>1. Inv => AttachmentsConsistent
  BY DEF Inv, Consistent, AttachmentsConsistent
<1> QED BY <1>1, InvHolds, PTL

\* Every binding is owned by a registered session attached to its space, which
\* has the binding in its key set: no session's end leaves a binding behind.
THEOREM OwnershipCorrect == Spec => []OwnershipConsistent
<1>1. Inv => OwnershipConsistent
  BY DEF Inv, Consistent, OwnershipConsistent
<1> QED BY <1>1, InvHolds, PTL

\* The resource index is exact and the pool holds only backends in use.
THEOREM ResourcesCorrect == Spec => []ResourcesConsistent
<1>1. Inv => ResourcesConsistent
  BY DEF Inv, Consistent, ResourcesConsistent
<1> QED BY <1>1, InvHolds, PTL
=============================================================================
