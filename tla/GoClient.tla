------------------------------ MODULE GoClient ------------------------------
(***************************************************************************)
(* One client of the Go SDK (client-go/controller/client.go).  It promises *)
(* what the Rust client promises, and keeps it differently: goroutines     *)
(* share the fields of the client under a mutex that is never held over a  *)
(* request, a recovery begins with the error of an operation, and the      *)
(* renewer only renews.                                                    *)
(*                                                                         *)
(* A step is one critical section of the client's mutex, or what one       *)
(* request does at the controller.  The controller is SessionRegistry;     *)
(* that it is there or gets started (ensureReady) is StartupLock.          *)
(***************************************************************************)
EXTENDS Naturals, FiniteSets

CONSTANTS
    Goroutine,   \* goroutines of the host that use the client
    Connection,  \* gRPC connections; one that nobody refers to is used again
    Session,     \* session identifiers
    Space,
    Binding,
    Nil,
    MaxUpsets,   \* bound: sessions lost, requests failed, shutdowns
    Suspends     \* the host may be held up for longer than a lease

ASSUME ConnectionsAssumption == Cardinality(Connection) > Cardinality(Goroutine)

ASSUME NilAssumption == Nil \notin Connection \cup Session

ASSUME BoundsAssumption == MaxUpsets \in Nat /\ Suspends \in BOOLEAN

BindingKey == [space : Space, binding : Binding]

ASSUME SpaceAssumption == Space \cap BindingKey = {}

Thing == Space \cup BindingKey

VARIABLES
    client,     \* the fields of Client that its mutex protects
    link,       \* the state of every connection
    threads,    \* what every goroutine is doing
    upsets,     \* upsets so far
    disturbed,  \* history: a request failed, goroutines came in each other's way, or
                \* a session was used that the controller no longer knew
    alive, past, joined, owner      \* the controller

serverVars == <<alive, past, joined, owner>>
vars == <<client, link, threads, upsets, disturbed, alive, past, joined, owner>>

Server ==
    INSTANCE SessionRegistry WITH
        Slot    <- BindingKey,
        SpaceOf <- [k \in BindingKey |-> k.space],
        Nobody  <- Nil

\* What session s holds.
Held(s) == joined[s] \cup {k \in BindingKey : owner[k] = s}

\* rpc stands for conn as well; the three maps of the code are one set of things.
Client ==
    [rpc : Connection \cup {Nil}, clientSessionID : Session \cup {Nil},
     renewing : BOOLEAN, desired : SUBSET Thing]

NewClient == [rpc |-> Nil, clientSessionID |-> Nil, renewing |-> FALSE, desired |-> {}]

\* What a host asks for: GetStatus wants a connection only, Connect and the operations
\* that change nothing at the controller want a session.
Request ==
    {"GetStatus", "Connect", "Query"} \X {Nil}
    \cup {"AttachSpace", "DetachSpace"} \X Space
    \cup {"EnableBackend", "DisableBackend"} \X BindingKey

\* Connect up to the end of the replay; the request itself; Shutdown.
Connecting == {"connecting", "dialing", "checking", "registering", "registered",
               "copying", "replaying"}

Pc == Connecting \cup {"idle", "connected", "ready", "sent", "served", "unregistering",
                       "panicked"}

LocalState ==
    [pc : Pc, request : Request \cup {Nil}, again : BOOLEAN,
     rpc : Connection \cup {Nil}, session : Session \cup {Nil}, todo : SUBSET Thing]

Resting == [pc |-> "idle", request |-> Nil, again |-> FALSE,
            rpc |-> Nil, session |-> Nil, todo |-> {}]

\* The one type invariant.
TypeOK ==
    /\ client \in Client
    /\ link \in [Connection -> {"open", "broken", "closed"}]
    /\ threads \in [Goroutine -> LocalState]
    /\ upsets \in 0 .. MaxUpsets
    /\ disturbed \in BOOLEAN
    /\ Server!TypeOK

Init ==
    /\ client = NewClient
    /\ link = [k \in Connection |-> "closed"]
    /\ threads = [t \in Goroutine |-> Resting]
    /\ upsets = 0
    /\ disturbed = FALSE
    /\ Server!Init

At(t, pc)      == threads[t].pc = pc
Goto(t, pc)    == threads' = [threads EXCEPT ![t].pc = pc]
Return(t)      == threads' = [threads EXCEPT ![t] = Resting]
Operation(t)   == threads[t].request[1]
Subject(t)     == threads[t].request[2]
Others(t, pcs) == \E u \in Goroutine \ {t} : threads[u].pc \in pcs

Upset == upsets < MaxUpsets /\ upsets' = upsets + 1

\* Goroutine t does something that another one may notice.
Disturbs(t, pcs) == disturbed' = (disturbed \/ Others(t, pcs))

\* Its request arrives on a connection that did not notice the loss of the session.
NoticesTooLate(t) == disturbed' = (disturbed \/ threads[t].session \notin alive)

\* A method is called on a nil interface: the process of the host ends.
Panic ==
    /\ threads' = [t \in Goroutine |-> [Resting EXCEPT !.pc = "panicked"]]
    /\ client' = [client EXCEPT !.renewing = FALSE]
    /\ UNCHANGED <<link, upsets, disturbed, serverVars>>

-----------------------------------------------------------------------------
(* Connect.                                                                *)

\* The host calls, possibly while another goroutine looks for a session.
Call(t, request) ==
    /\ At(t, "idle")
    /\ threads' = [threads EXCEPT ![t] =
                     [Resting EXCEPT !.pc = "connecting", !.request = request]]
    /\ Disturbs(t, Connecting)
    /\ UNCHANGED <<client, link, upsets, serverVars>>

\* What follows once there is a connection.
AfterConnecting(t) == IF Operation(t) = "GetStatus" THEN "ready" ELSE "checking"

\* ensureReady finds the controller; ensureConnected looks for a connection.
EnsureConnected(t) ==
    /\ At(t, "connecting")
    /\ Goto(t, IF client.rpc # Nil THEN AfterConnecting(t) ELSE "dialing")
    /\ UNCHANGED <<client, link, upsets, disturbed, serverVars>>

\* It dials outside the mutex, and replaces what another goroutine may have stored.
Dial(t) ==
    /\ At(t, "dialing")
    /\ \E k \in Connection \ ({client.rpc} \cup {threads[u].rpc : u \in Goroutine}) :
          client' = [client EXCEPT !.rpc = k] /\ link' = [link EXCEPT ![k] = "open"]
    /\ Goto(t, AfterConnecting(t))
    /\ UNCHANGED <<upsets, disturbed, serverVars>>

\* ensureRegistered looks for a session.
EnsureRegistered(t) ==
    /\ At(t, "checking")
    /\ IF client.clientSessionID # Nil
         THEN Goto(t, "connected") /\ UNCHANGED disturbed
         ELSE /\ threads' = [threads EXCEPT ![t].pc = "registering", ![t].rpc = client.rpc]
              /\ Disturbs(t, Pc \ {"idle"})
    /\ UNCHANGED <<client, link, upsets, serverVars>>

\* Identifiers are unique; which one it is does not matter.
Register(t) ==
    /\ At(t, "registering")
    /\ threads[t].rpc # Nil => link[threads[t].rpc] = "open" /\ Session # alive \cup past
    /\ IF threads[t].rpc = Nil
         THEN Panic
         ELSE LET s == CHOOSE id \in Session : id \notin alive \cup past
              IN /\ Server!Begin(s, {})
                 /\ threads' = [threads EXCEPT ![t].pc = "registered", ![t].session = s]
                 /\ UNCHANGED <<client, link, upsets, disturbed>>

\* Faulty: the identifier is stored and nothing replayed.
StoreSessionOnly(t) ==
    /\ At(t, "registered")
    /\ client' = [client EXCEPT !.clientSessionID = threads[t].session]
    /\ threads' = [threads EXCEPT ![t].pc = "connected", ![t].rpc = Nil, ![t].session = Nil]
    /\ UNCHANGED <<link, upsets, disturbed, serverVars>>

\* The identifier is stored before the replay has begun.
StoreSession(t) ==
    /\ At(t, "registered")
    /\ client' = [client EXCEPT !.clientSessionID = threads[t].session]
    /\ threads' = [threads EXCEPT ![t].pc = "copying", ![t].rpc = Nil, ![t].session = Nil]
    /\ UNCHANGED <<link, upsets, disturbed, serverVars>>

\* replayDesiredState copies what is desired, and reads connection and session again.
CopyDesired(t) ==
    /\ At(t, "copying")
    /\ threads' = [threads EXCEPT ![t].pc = "replaying", ![t].todo = client.desired,
                     ![t].rpc = client.rpc, ![t].session = client.clientSessionID]
    /\ UNCHANGED <<client, link, upsets, disturbed, serverVars>>

\* The controller grants x to session s, or it cannot.
Grant(s, x) ==
    \/ x \in Space /\ Server!Join(s, x, {})
    \/ x \in BindingKey /\ Server!Claim(s, x)

Grantable(s, x) ==
    /\ s \in alive
    /\ x \in BindingKey => x.space \in joined[s] /\ owner[x] \in {Nil, s}

\* Spaces come before bindings.
NextToReplay(t) ==
    {x \in threads[t].todo : x \in Space \/ threads[t].todo \cap Space = {}}

Replay(t) ==
    /\ At(t, "replaying") /\ threads[t].todo # {}
    /\ IF threads[t].rpc = Nil
         THEN Panic
         ELSE /\ link[threads[t].rpc] = "open"
              /\ \E x \in NextToReplay(t) :
                   /\ Grant(threads[t].session, x)
                   /\ threads' = [threads EXCEPT ![t].todo = @ \ {x}]
              /\ UNCHANGED <<client, link, upsets, disturbed>>

\* The first request that is refused ends the replay and the call, and no later call
\* takes the replay up again.
ReplayRefused(t) ==
    /\ At(t, "replaying")
    /\ threads[t].rpc # Nil /\ link[threads[t].rpc] = "open"
    /\ \E x \in NextToReplay(t) : ~Grantable(threads[t].session, x)
    /\ Return(t)
    /\ UNCHANGED <<client, link, upsets, disturbed, serverVars>>

ReplayDone(t) ==
    /\ At(t, "replaying") /\ threads[t].todo = {}
    /\ threads' = [threads EXCEPT ![t].pc = "connected", ![t].rpc = Nil, ![t].session = Nil]
    /\ UNCHANGED <<client, link, upsets, disturbed, serverVars>>

\* ensureRenewer; Connect has nothing more to do.
EnsureRenewer(t) ==
    /\ At(t, "connected")
    /\ client' = [client EXCEPT !.renewing = TRUE]
    /\ IF Operation(t) = "Connect" THEN Return(t) ELSE Goto(t, "ready")
    /\ UNCHANGED <<link, upsets, disturbed, serverVars>>

-----------------------------------------------------------------------------
(* withSession.                                                            *)

Changes == {"AttachSpace", "DetachSpace", "EnableBackend", "DisableBackend"}

\* Connection and session are read again: another goroutine may have lost them.
Send(t) ==
    /\ At(t, "ready")
    /\ threads' = [threads EXCEPT ![t].pc = "sent", ![t].rpc = client.rpc,
                                  ![t].session = client.clientSessionID]
    /\ IF Operation(t) \in Changes THEN Disturbs(t, {"sent", "served"})
                                   ELSE UNCHANGED disturbed
    /\ UNCHANGED <<client, link, upsets, serverVars>>

\* The request arrives and is granted.
Serve(t) ==
    LET s == threads[t].session
        x == Subject(t)
    IN /\ At(t, "sent") /\ threads[t].rpc # Nil /\ link[threads[t].rpc] = "open"
       /\ \/ Operation(t) \in {"AttachSpace", "EnableBackend"} /\ Grant(s, x)
          \/ Operation(t) = "DetachSpace" /\ s \in alive /\ x \in joined[s]
             /\ Server!Leave(s, x, {})
          \/ Operation(t) = "DisableBackend" /\ Server!Release(s, x)
          \/ Operation(t) = "Query" /\ s \in alive /\ UNCHANGED serverVars
          \/ Operation(t) = "GetStatus" /\ UNCHANGED serverVars
       /\ Goto(t, "served")
       /\ UNCHANGED <<client, link, upsets, disturbed>>

\* Nothing there to release: the answer is FALSE, and the wish is forgotten all the same.
\* A space that is not there is not there for anybody.
NothingToRelease(t) ==
    LET s == threads[t].session
        x == Subject(t)
    IN \/ Operation(t) = "DetachSpace" /\ \A u \in alive : x \notin joined[u]
       \/ /\ Operation(t) = "DisableBackend" /\ s \in alive
          /\ x.space \in joined[s] /\ owner[x] = Nil

ServeNothing(t) ==
    /\ At(t, "sent") /\ threads[t].rpc # Nil /\ link[threads[t].rpc] = "open"
    /\ NothingToRelease(t)
    /\ Goto(t, "served")
    /\ NoticesTooLate(t)
    /\ UNCHANGED <<client, link, upsets, serverVars>>

\* What a session that is alive may be refused.
Refusable(t) ==
    LET s == threads[t].session
        x == Subject(t)
    IN CASE Operation(t) \in {"AttachSpace", "EnableBackend"} -> ~Grantable(s, x)
         [] Operation(t) = "DetachSpace" ->
              x \notin joined[s] \/ \E k \in BindingKey : owner[k] = s /\ k.space = x
         [] Operation(t) = "DisableBackend" ->
              x.space \notin joined[s] \/ owner[x] \notin {Nil, s}
         [] OTHER -> FALSE

\* The controller refuses the request, or does not know the session: InvalidArgument,
\* which is not one of the errors of isRecoverable.
Refused(t) ==
    /\ At(t, "sent") /\ threads[t].rpc # Nil /\ link[threads[t].rpc] = "open"
    /\ Operation(t) # "GetStatus" /\ ~NothingToRelease(t)
    /\ threads[t].session \in alive => Refusable(t)
    /\ Return(t)
    /\ NoticesTooLate(t)
    /\ UNCHANGED <<client, link, upsets, serverVars>>

\* The answer: what was granted is remembered, what was given up is forgotten, the
\* bindings of a space not with it.
Answer(t) ==
    /\ At(t, "served")
    /\ client' = [client EXCEPT !.desired =
                    CASE Operation(t) \in {"AttachSpace", "EnableBackend"} -> @ \cup {Subject(t)}
                      [] Operation(t) \in {"DetachSpace", "DisableBackend"} -> @ \ {Subject(t)}
                      [] OTHER -> @]
    /\ Return(t)
    /\ UNCHANGED <<link, upsets, disturbed, serverVars>>

\* The operation uses the connection it does not have.
SendPanics(t) ==
    /\ At(t, "sent") /\ threads[t].rpc = Nil
    /\ Panic

\* Faulty: the operation is sent again at once.
RecoverUnconnected(t) ==
    /\ threads[t].pc \in {"sent", "served"} /\ Operation(t) # "GetStatus"
    /\ threads[t].rpc # Nil /\ link[threads[t].rpc] = "broken" /\ ~threads[t].again
    /\ client' = [client EXCEPT !.rpc = Nil, !.clientSessionID = Nil]
    /\ link' = IF client.rpc = Nil THEN link ELSE [link EXCEPT ![client.rpc] = "closed"]
    /\ threads' = [threads EXCEPT ![t] = [Resting EXCEPT !.pc = "ready", !.again = TRUE,
                                            !.request = threads[t].request]]
    /\ Disturbs(t, Pc \ {"idle"})
    /\ UNCHANGED <<upsets, serverVars>>

\* Unavailable, for the first time: resetConnection, and Connect once more.
Recover(t) ==
    /\ threads[t].pc \in {"sent", "served"} /\ Operation(t) # "GetStatus"
    /\ threads[t].rpc # Nil /\ link[threads[t].rpc] = "broken" /\ ~threads[t].again
    /\ client' = [client EXCEPT !.rpc = Nil, !.clientSessionID = Nil]
    /\ link' = IF client.rpc = Nil THEN link ELSE [link EXCEPT ![client.rpc] = "closed"]
    /\ threads' = [threads EXCEPT ![t] = [Resting EXCEPT !.pc = "connecting", !.again = TRUE,
                                            !.request = threads[t].request]]
    /\ Disturbs(t, Pc \ {"idle"})
    /\ UNCHANGED <<upsets, serverVars>>

\* The connection is gone, and this request is not tried again: one of Connect, one of
\* GetStatus, one that was tried twice, or one whose connection was closed.
GiveUp(t) ==
    /\ threads[t].pc \in {"registering", "replaying", "sent", "served"}
    /\ threads[t].rpc # Nil
    /\ \/ link[threads[t].rpc] = "closed"
       \/ /\ link[threads[t].rpc] = "broken"
          /\ threads[t].pc \in {"sent", "served"} =>
                threads[t].again \/ Operation(t) = "GetStatus"
    /\ disturbed' = (disturbed \/ ~At(t, "sent"))
    /\ Return(t)
    /\ UNCHANGED <<client, link, upsets, serverVars>>

\* The context of the call is over, before the request or after it.
Fail(t) ==
    /\ threads[t].pc \in (Connecting \ {"checking", "copying"}) \cup {"sent", "served"}
    /\ Upset /\ Return(t)
    /\ disturbed' = TRUE
    /\ UNCHANGED <<client, link, serverVars>>

-----------------------------------------------------------------------------
(* Shutdown, and what happens by itself.                                   *)

\* Faulty: the session is forgotten before it is looked at.
ShutdownForgetful(t) ==
    /\ At(t, "idle") /\ Upset
    /\ client' = NewClient
    /\ threads' = [threads EXCEPT ![t] = [Resting EXCEPT !.pc = "unregistering",
                     !.rpc = client.rpc]]
    /\ Disturbs(t, Pc \ {"idle"})
    /\ UNCHANGED <<link, serverVars>>

\* Everything is forgotten and the renewer stopped.
Shutdown(t) ==
    /\ At(t, "idle") /\ Upset
    /\ client' = NewClient
    /\ threads' = [threads EXCEPT ![t] = [Resting EXCEPT !.pc = "unregistering",
                     !.rpc = client.rpc, !.session = client.clientSessionID]]
    /\ Disturbs(t, Pc \ {"idle"})
    /\ UNCHANGED <<link, serverVars>>

\* The session is unregistered if the controller is there to hear of it; the connection
\* is closed.
Unregister(t) ==
    /\ At(t, "unregistering")
    /\ IF threads[t].rpc = Nil THEN UNCHANGED <<link, serverVars>>
       ELSE /\ link' = [link EXCEPT ![threads[t].rpc] = "closed"]
            /\ IF link[threads[t].rpc] = "open"
                 THEN Server!End({threads[t].session} \cap alive)
                 ELSE UNCHANGED serverVars
    /\ Return(t)
    /\ UNCHANGED <<client, upsets, disturbed>>

\* The controller restarts.  A connection notices, or has connected again unnoticed by
\* the time it is used.
Restart ==
    /\ Upset
    /\ Server!End(alive)
    /\ \E noticed \in BOOLEAN :
          link' = [k \in Connection |->
                     IF noticed /\ link[k] = "open" THEN "broken" ELSE link[k]]
    /\ UNCHANGED <<client, threads, disturbed>>

\* gRPC connects again.
Reconnect(k) ==
    /\ link[k] = "broken"
    /\ link' = [link EXCEPT ![k] = "open"]
    /\ UNCHANGED <<client, threads, upsets, disturbed, serverVars>>

\* renewOnce renews the session that is stored, whatever the answer.
Renewed == IF client.renewing THEN {client.clientSessionID} ELSE {}

\* A lease is over: of a session that nobody renews, or because the host was held up.
Lapse(s) ==
    /\ s \in alive
    /\ IF s \in Renewed \cup {threads[t].session : t \in Goroutine}
         THEN Suspends /\ Upset
         ELSE UNCHANGED upsets
    /\ Server!End({s})
    /\ UNCHANGED <<client, link, threads, disturbed>>

Step(t) ==
    \/ EnsureConnected(t) \/ Dial(t) \/ EnsureRegistered(t) \/ Register(t)
    \/ StoreSession(t) \/ CopyDesired(t) \/ Replay(t) \/ ReplayRefused(t) \/ ReplayDone(t)
    \/ EnsureRenewer(t)
    \/ Send(t) \/ Serve(t) \/ ServeNothing(t) \/ Refused(t) \/ Answer(t)
    \/ SendPanics(t) \/ Recover(t) \/ GiveUp(t)
    \/ Unregister(t)

Next ==
    \/ \E t \in Goroutine :
         \/ \E request \in Request : Call(t, request)
         \/ Step(t) \/ Fail(t) \/ Shutdown(t)
    \/ \E k \in Connection : Reconnect(k)
    \/ \E s \in Session : Lapse(s)
    \/ Restart

Spec == Init /\ [][Next]_vars

\* Goroutines are scheduled and every request is answered or fails.  The recovery of this
\* client waits for the host to call: it goes on querying.
Fairness ==
    \A t \in Goroutine : WF_vars(Step(t)) /\ SF_vars(Call(t, <<"Query", Nil>>))

FairSpec == Spec /\ Fairness

-----------------------------------------------------------------------------
(* Properties.                                                             *)

\* As long as no request failed on the way, no goroutine came in the way of another and
\* no operation used a session that had gone unnoticed, a live session of the client
\* holds all that the client remembers, whenever no call is under way: losses of the
\* controller that an operation was told of (Unavailable) were made good by its
\* reconnection and the replay.
HoldsRemembered ==
    ~disturbed /\ (\A t \in Goroutine : At(t, "idle")) /\ client.clientSessionID \in alive
        => client.desired \subseteq Held(client.clientSessionID)

\* Under the same proviso the controller keeps no session that the client does not know:
\* one is registered only after the last was lost or unregistered.
NoStraySession ==
    ~disturbed /\ (\A t \in Goroutine : At(t, "idle"))
        => alive \subseteq {client.clientSessionID}

\* A call finds the connection gone that it has just made sure of (a nil pointer, and
\* the end of the host) only when another goroutine recovers or shuts down meanwhile.
NoPanicAlone == (\E t \in Goroutine : At(t, "panicked")) => disturbed

\* The desired state comes back after the controller was lost, if the host goes on
\* calling.
Replayed ==
    client.desired # {} /\ client.clientSessionID \notin alive
        ~> \/ client.clientSessionID \in alive \/ client.desired = {}
           \/ \E t \in Goroutine : At(t, "panicked")
=============================================================================
