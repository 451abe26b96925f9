---------------------------- MODULE ClientSession ----------------------------
(***************************************************************************)
(* One client of the Rust SDK (client/src/client.rs): the tasks of its     *)
(* host and its renew task keep one controller session among them, and     *)
(* bring it back, with everything they remember to have attached and       *)
(* enabled, when the controller has lost it.                               *)
(*                                                                         *)
(* The controller is the abstract registry of SessionRegistry, which       *)
(* ControllerRuntime implements.  A step of a task runs from one await to  *)
(* the next, or from one critical section of the cache to the next where   *)
(* other tasks can interfere.                                              *)
(***************************************************************************)
EXTENDS Naturals, FiniteSets

CONSTANTS
    Task,        \* tasks of the host that use the client
    Renewer,     \* the renew task
    Session,     \* session identifiers
    Space,
    Binding,
    Nil,
    MaxUpsets,   \* bound: losses at the controller, failed and dropped calls, shutdowns
    MaxShutdowns \* bound: shutdowns

\* An upset costs one session at most, a shutdown two: its own and the one that an
\* operation under way registers.
ASSUME UpsetsAssumption ==
    /\ {MaxUpsets, MaxShutdowns} \subseteq Nat
    /\ Cardinality(Session) > MaxUpsets + MaxShutdowns

ASSUME NilAssumption == Renewer \notin Task /\ Nil \notin Task \cup {Renewer} \cup Session

Thread     == Task \cup {Renewer}
BindingKey == [space : Space, binding : Binding]
Thing      == Space \cup BindingKey

\* Spaces and bindings are kept in maps of their own.
ASSUME ThingAssumption == Space \cap BindingKey = {}

VARIABLES
    cache,      \* ClientSessionState
    initLock,   \* the holder of session_init_lock, or Nil
    threads,    \* what every task is doing
    renewing,   \* the renew task exists
    upsets,     \* losses and failures so far
    shutdowns,  \* shutdowns so far
    alive, past, joined, owner      \* the controller

serverVars == <<alive, past, joined, owner>>
vars == <<cache, initLock, threads, renewing, upsets, shutdowns, alive, past, joined, owner>>

Server ==
    INSTANCE SessionRegistry WITH
        Slot    <- BindingKey,
        SpaceOf <- [k \in BindingKey |-> k.space],
        Nobody  <- Nil

\* What session s holds.
Held(s) == joined[s] \cup {k \in BindingKey : owner[k] = s}

\* The three maps of the code are one set of things.
ClientSessionState ==
    [client_session_id : Session \cup {Nil}, session_needs_replay : BOOLEAN,
     desired : SUBSET Thing]

EmptyCache == [client_session_id |-> Nil, session_needs_replay |-> FALSE, desired |-> {}]

\* A request that follows ensure_registered_session: the operation and what it is on.
Request == {"attach", "detach"} \X Space \cup {"enable", "disable"} \X BindingKey

\* What a task does with session_init_lock, then without it, then in a shutdown.
\* A task that waits for the lock is as good as idle, and what it is about to ask
\* for matters only when it asks.
Locked == {"renewing", "registering", "registered", "replaying"}

LocalState ==
    [pc : Locked \cup {"idle", "ready", "sent", "served", "unregistering", "clearing"},
     request : Request \cup {Nil}, session : Session \cup {Nil},
     replay : BOOLEAN, todo : SUBSET Thing]

Resting == [pc |-> "idle", request |-> Nil, session |-> Nil,
            replay |-> FALSE, todo |-> {}]

Init ==
    /\ cache = EmptyCache
    /\ initLock = Nil
    /\ threads = [t \in Thread |-> Resting]
    /\ renewing = FALSE
    /\ upsets = 0
    /\ shutdowns = 0
    /\ Server!Init

At(t, pc) == threads[t].pc = pc

\* The operation of t is over; t gives the lock back if it holds it.
Ends(t) ==
    /\ threads' = [threads EXCEPT ![t] = Resting]
    /\ initLock' = IF initLock = t THEN Nil ELSE initLock

Upset == upsets + shutdowns < MaxUpsets /\ upsets' = upsets + 1

-----------------------------------------------------------------------------
(* ensure_registered_session, under session_init_lock.                     *)

\* The host calls an operation, or the renew interval is over (renew_once).
Wanted(t) == t \in Task \/ renewing

\* Faulty: two tasks may look for a session at the same time.
TakeLockUnguarded(t) ==
    /\ At(t, "idle") /\ Wanted(t)
    /\ initLock' = t
    /\ LET s == cache.client_session_id
       IN threads' = [threads EXCEPT ![t] = [Resting EXCEPT
                        !.pc = IF s = Nil THEN "registering" ELSE "renewing",
                        !.session = s, !.replay = s # Nil /\ cache.session_needs_replay]]
    /\ UNCHANGED <<cache, renewing, upsets, shutdowns, serverVars>>

TakeLock(t) ==
    /\ At(t, "idle") /\ Wanted(t)
    /\ initLock = Nil
    /\ initLock' = t
    /\ LET s == cache.client_session_id
       IN threads' = [threads EXCEPT ![t] = [Resting EXCEPT
                        !.pc = IF s = Nil THEN "registering" ELSE "renewing",
                        !.session = s, !.replay = s # Nil /\ cache.session_needs_replay]]
    /\ UNCHANGED <<cache, renewing, upsets, shutdowns, serverVars>>

Renewed(t) ==
    /\ At(t, "renewing")
    /\ threads[t].session \in alive
    /\ IF threads[t].replay
       THEN /\ threads' = [threads EXCEPT ![t].pc = "replaying", ![t].todo = cache.desired]
            /\ UNCHANGED initLock
       ELSE /\ threads' = [threads EXCEPT ![t].pc = "ready", ![t].session = Nil]
            /\ initLock' = Nil
    /\ UNCHANGED <<cache, renewing, upsets, shutdowns, serverVars>>

\* Faulty: a missing session is taken for any other failure.
SessionMissingUnknown(t) ==
    /\ At(t, "renewing")
    /\ threads[t].session \notin alive
    /\ Ends(t)
    /\ UNCHANGED <<cache, renewing, upsets, shutdowns, serverVars>>

\* is_missing_client_session_status: the identifier is forgotten.
SessionMissing(t) ==
    /\ At(t, "renewing")
    /\ threads[t].session \notin alive
    /\ cache' = [cache EXCEPT !.client_session_id = Nil]
    /\ threads' = [threads EXCEPT ![t].pc = "registering", ![t].session = Nil, ![t].replay = FALSE]
    /\ UNCHANGED <<initLock, renewing, upsets, shutdowns, serverVars>>

\* Identifiers are unique; which one it is does not matter.
Register(t) ==
    /\ At(t, "registering")
    /\ Session # alive \cup past
    /\ LET s == CHOOSE id \in Session : id \notin alive \cup past
       IN /\ Server!Begin(s, {})
          /\ threads' = [threads EXCEPT ![t].pc = "registered", ![t].session = s]
    /\ UNCHANGED <<cache, initLock, renewing, upsets, shutdowns>>

\* The identifier is stored, the replay marked pending and the desired state
\* copied, without an await in between.
Adopt(t) ==
    /\ At(t, "registered")
    /\ cache' = [cache EXCEPT !.client_session_id = threads[t].session,
                              !.session_needs_replay = TRUE]
    /\ threads' = [threads EXCEPT ![t].pc = "replaying", ![t].todo = cache.desired]
    /\ UNCHANGED <<initLock, renewing, upsets, shutdowns, serverVars>>

\* The controller grants x to session s, or it cannot.
Grant(s, x) ==
    \/ x \in Space /\ Server!Join(s, x, {})
    \/ x \in BindingKey /\ Server!Claim(s, x)

Grantable(s, x) ==
    /\ s \in alive
    /\ x \in BindingKey => x.space \in joined[s] /\ owner[x] \in {Nil, s}

\* Spaces come before bindings.
NextToReplay(t) ==
    {x \in threads[t].todo : x \in Space \/ threads[t].todo \cap Space = {}}

Replay(t) ==
    /\ At(t, "replaying")
    /\ \E x \in NextToReplay(t) :
          /\ Grant(threads[t].session, x)
          /\ threads' = [threads EXCEPT ![t].todo = @ \ {x}]
    /\ UNCHANGED <<cache, initLock, renewing, upsets, shutdowns>>

\* The first request that fails ends the replay, and the operation with it.
ReplayRefused(t) ==
    /\ At(t, "replaying")
    /\ \E x \in NextToReplay(t) : ~Grantable(threads[t].session, x)
    /\ Ends(t)
    /\ UNCHANGED <<cache, renewing, upsets, shutdowns, serverVars>>

ReplayDone(t) ==
    /\ At(t, "replaying")
    /\ threads[t].todo = {}
    /\ cache' = [cache EXCEPT !.session_needs_replay = FALSE]
    /\ threads' = [threads EXCEPT ![t].pc = "ready", ![t].session = Nil, ![t].replay = FALSE]
    /\ initLock' = Nil
    /\ UNCHANGED <<renewing, upsets, shutdowns, serverVars>>

-----------------------------------------------------------------------------
(* The operation proper.                                                   *)

\* connect makes sure that the renew task exists; the renew task asks nothing more
\* of the controller.
Connected(t) ==
    /\ At(t, "ready")
    /\ renewing' = (renewing \/ t \in Task)
    /\ Ends(t)
    /\ UNCHANGED <<cache, upsets, shutdowns, serverVars>>

\* Whatever a script, a query or a table operation asks and is answered leaves the
\* session as it is.
DataOperation(t) ==
    /\ t \in Task
    /\ At(t, "ready")
    /\ Ends(t)
    /\ UNCHANGED <<cache, renewing, upsets, shutdowns, serverVars>>

\* The session is read again, outside the lock; there may be none any more.
Send(t, request) ==
    /\ At(t, "ready")
    /\ IF cache.client_session_id = Nil
       THEN Ends(t)
       ELSE /\ threads' = [threads EXCEPT ![t].pc = "sent", ![t].request = request,
                                          ![t].session = cache.client_session_id]
            /\ UNCHANGED initLock
    /\ UNCHANGED <<cache, renewing, upsets, shutdowns, serverVars>>

Serve(t) ==
    LET s == threads[t].session
        op == threads[t].request[1]
        x == threads[t].request[2]
    IN /\ At(t, "sent")
       /\ \/ op \in {"attach", "enable"} /\ Grant(s, x)
          \/ op = "detach" /\ x \in joined[s] /\ Server!Leave(s, x, {})
          \/ op = "disable" /\ Server!Release(s, x)
       /\ threads' = [threads EXCEPT ![t].pc = "served", ![t].session = Nil]
       /\ UNCHANGED <<cache, initLock, renewing, upsets, shutdowns>>

\* The controller refuses, or answers that there was nothing to release.
Refused(t) ==
    LET s == threads[t].session
        op == threads[t].request[1]
        x == threads[t].request[2]
    IN /\ At(t, "sent")
       /\ \/ op \in {"attach", "enable"} /\ ~Grantable(s, x)
          \/ op = "detach" /\ (x \in joined[s] => \E k \in BindingKey : owner[k] = s /\ k.space = x)
          \/ op = "disable" /\ owner[x] # s
       /\ Ends(t)
       /\ UNCHANGED <<cache, renewing, upsets, shutdowns, serverVars>>

\* Forgetting a space forgets the bindings in it.
Forgotten(x) == {x} \cup {k \in BindingKey : k.space = x}

Return(t) ==
    LET op == threads[t].request[1]
        x == threads[t].request[2]
    IN /\ At(t, "served")
       /\ cache' = [cache EXCEPT !.desired =
                      IF op \in {"attach", "enable"} THEN @ \cup {x} ELSE @ \ Forgotten(x)]
       /\ Ends(t)
       /\ UNCHANGED <<renewing, upsets, shutdowns, serverVars>>

\* A request or its reply is lost, the controller is out of reach, or the host
\* drops the operation.
Fail(t) ==
    /\ threads[t].pc \in {"renewing", "registering", "registered", "replaying", "sent", "served",
                         "unregistering"}
    /\ Upset
    /\ Ends(t)
    /\ UNCHANGED <<cache, renewing, shutdowns, serverVars>>

-----------------------------------------------------------------------------
(* shutdown, which does not take session_init_lock.                        *)

\* The renew task is aborted, wherever it is.
Shutdown(t) ==
    /\ At(t, "idle")
    /\ shutdowns < MaxShutdowns /\ upsets + shutdowns < MaxUpsets
    /\ shutdowns' = shutdowns + 1
    /\ renewing' = FALSE
    /\ threads' = [threads EXCEPT
                     ![Renewer] = Resting,
                     ![t] = [Resting EXCEPT !.session = cache.client_session_id,
                               !.pc = IF cache.client_session_id = Nil THEN "clearing"
                                                                       ELSE "unregistering"]]
    /\ initLock' = IF initLock = Renewer THEN Nil ELSE initLock
    /\ UNCHANGED <<cache, upsets, serverVars>>

\* An unregistration that fails is ignored.
Unregister(t) ==
    /\ At(t, "unregistering")
    /\ \/ Server!End({threads[t].session} \cap alive) /\ UNCHANGED upsets
       \/ Upset /\ UNCHANGED serverVars
    /\ threads' = [threads EXCEPT ![t].pc = "clearing"]
    /\ UNCHANGED <<cache, initLock, renewing, shutdowns>>

Clear(t) ==
    /\ At(t, "clearing")
    /\ cache' = EmptyCache
    /\ Ends(t)
    /\ UNCHANGED <<renewing, upsets, shutdowns, serverVars>>

-----------------------------------------------------------------------------
(* The controller.                                                         *)

\* A lease is over, or the controller restarts and knows no session any more.
SessionsLost ==
    /\ \E lost \in SUBSET alive \ {{}} : Server!End(lost)
    /\ Upset
    /\ UNCHANGED <<cache, initLock, threads, renewing, shutdowns>>

\* Sessions nobody knows are not renewed.
Strays == alive \ ({cache.client_session_id} \cup {threads[t].session : t \in Thread})

StrayLapses ==
    /\ Strays # {}
    /\ Server!End(Strays)
    /\ UNCHANGED <<cache, initLock, threads, renewing, upsets, shutdowns>>

Step(t) ==
    \/ Renewed(t) \/ SessionMissing(t) \/ Register(t) \/ Adopt(t)
    \/ Replay(t) \/ ReplayRefused(t) \/ ReplayDone(t)
    \/ Connected(t) \/ DataOperation(t)
    \/ t \in Task /\ \E request \in Request : Send(t, request)
    \/ Serve(t) \/ Refused(t) \/ Return(t)
    \/ Unregister(t) \/ Clear(t)

Next ==
    \/ \E t \in Thread : TakeLock(t) \/ Step(t) \/ Fail(t)
    \/ \E t \in Task : Shutdown(t)
    \/ SessionsLost
    \/ StrayLapses

Spec == Init /\ [][Next]_vars

\* Tasks are polled, the renew interval passes, the lock is handed on in the order
\* of requests, and leases nobody renews lapse.
Fairness ==
    /\ \A t \in Thread : WF_vars(Step(t))
    /\ SF_vars(TakeLock(Renewer))
    /\ WF_vars(StrayLapses)

FairSpec == Spec /\ Fairness

-----------------------------------------------------------------------------
(* Properties.                                                             *)

\* Types, and the lock is with the task that is inside ensure_registered_session.
TypeOK ==
    /\ cache \in ClientSessionState
    /\ threads \in [Thread -> LocalState]
    /\ renewing \in BOOLEAN
    /\ upsets \in 0 .. MaxUpsets
    /\ shutdowns \in 0 .. MaxShutdowns
    /\ \A t \in Thread : initLock = t <=> threads[t].pc \in Locked
    /\ initLock \in Thread \cup {Nil}
    /\ Server!TypeOK

\* One client has one session, however many of its tasks find it lost at once
\* (ensure_registered_session): every further live session takes a lost reply or a
\* dropped operation, or a shutdown, which may leave its own session and abort the
\* registration of another.
OneSession == Cardinality(alive) <= 1 + upsets + 2 * shutdowns

\* Nobody replaces the session under a replay of ensure_registered_session; at most
\* a shutdown forgets it.
ReplayUndisturbed ==
    \A t \in Thread : At(t, "replaying") =>
        cache.client_session_id \in {threads[t].session, Nil}

\* A binding is remembered and its space is not.
Orphaned == \E k \in BindingKey : k \in cache.desired /\ k.space \notin cache.desired

\* A binding that is remembered when the session is lost, a session of the client
\* holds again, and hence its space, as long as the renew task runs, unless a binding
\* has lost its space or the host lets go of it.
RestoresRemembered ==
    \A k \in BindingKey :
        (renewing /\ cache.client_session_id \notin alive /\ k \in cache.desired)
            ~> (\/ ~renewing \/ Orphaned \/ k \notin cache.desired
                \/ cache.client_session_id \in alive /\ owner[k] = cache.client_session_id)

\* After a loss the client has a session again to which its desired state has been
\* replayed.  A binding that is remembered after its space was detached breaks this:
\* its replay is refused for ever.
Recovers ==
    (renewing /\ (cache.client_session_id \notin alive \/ cache.session_needs_replay))
        ~> (~renewing \/ (cache.client_session_id \in alive /\ ~cache.session_needs_replay))
=============================================================================
