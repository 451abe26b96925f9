------------------------------ MODULE FfiClient ------------------------------
(***************************************************************************)
(* The client handles of the FFI layer (ffi/src/lib.rs): threads of a host *)
(* create handles, call operations on them and free them, with no order    *)
(* among the threads but the one the layer makes.  A handle is the address *)
(* of a one-byte box, the shell; a process-wide registry leads from the    *)
(* address to the client, and a mutex in the client keeps its operations   *)
(* apart.                                                                  *)
(*                                                                         *)
(* The client itself is abstract here (ClientSession has its recovery and  *)
(* its replay): what counts is the session it has at the controller, and   *)
(* the query stream it holds there while it collects it.                   *)
(***************************************************************************)
EXTENDS FfiOperations

CONSTANTS
    Thread,     \* threads of the host
    Client,     \* bound: clients ever created
    Address,    \* where the allocator puts shells; it reuses them
    Nil

ASSUME NilAssumption == Nil \notin Thread \cup Client \cup Address

VARIABLES
    registry,   \* FFI_CLIENT_HANDLE_REGISTRY: the client an address stands for
    shell,      \* the client for which the shell at an address was allocated
    where,      \* the handle the host got for a client; it keeps it after the free
    inner,      \* FfiControllerClientHandleState.inner of a client
    lock,       \* who has locked inner
    local,      \* what the client has: the identifier of a session, a renew task
    session,    \* its sessions at the controller: the one it knows, one it lost track of
    stream,     \* it has a query stream open at the controller
    threads,    \* what every thread is doing
    results,    \* the result that the host has to free: the ledger follows one at a time
    heap,       \* the blocks of that result which are still allocated, a bag
    strays,     \* those given back although they were not allocated, a bag
    misfits     \* the places given back with another capacity than was allocated

handleVars == <<registry, shell, where, inner>>
clientVars == <<local, session, stream>>
ledger     == <<results, heap, strays, misfits>>
vars       == <<registry, shell, where, inner, lock, local, session, stream, threads,
                results, heap, strays, misfits>>

Inside  == {"performing", "collecting"}            \* an operation, with inner locked
Freeing == {"taking", "stopping", "dropping"}      \* a free that found the client

Pc == {"idle", "holding", "looking", "entering", "removing"} \cup Inside \cup Freeing

\* aim is the client whose handle the host passed, found the one the registry led to.
LocalState ==
    [pc : Pc, aim : Client \cup {Nil}, found : Client \cup {Nil}]

Idle    == [pc |-> "idle", aim |-> Nil, found |-> Nil]
Holding == [pc |-> "holding", aim |-> Nil, found |-> Nil]     \* a result

\* The one type invariant: the values of the registry, of the clients and their
\* controller, of the threads and of the ledger.
TypeOK ==
    /\ registry \in [Address -> Client \cup {Nil}]
    /\ shell \in [Address -> Client \cup {Nil}]
    /\ where \in [Client -> Address \cup {Nil}]
    /\ inner \in [Client -> {"unborn", "some", "none"}]
    /\ lock \in [Client -> Thread \cup {Nil}]
    /\ local \in [Client -> SUBSET {"session_id", "renew_task"}]
    /\ session \in [Client -> SUBSET {"known", "lost"}]
    /\ stream \in [Client -> BOOLEAN]
    /\ threads \in [Thread -> LocalState]
    /\ results \in SUBSET Result
    /\ IsABag(heap) /\ IsABag(strays)
    /\ misfits \in SUBSET Place

Init ==
    /\ registry = [a \in Address |-> Nil]
    /\ shell = [a \in Address |-> Nil]
    /\ where = [c \in Client |-> Nil]
    /\ inner = [c \in Client |-> "unborn"]
    /\ lock = [c \in Client |-> Nil]
    /\ local = [c \in Client |-> {}]
    /\ session = [c \in Client |-> {}]
    /\ stream = [c \in Client |-> FALSE]
    /\ threads = [t \in Thread |-> Idle]
    /\ results = {}
    /\ heap = EmptyBag /\ strays = EmptyBag
    /\ misfits = {}

-----------------------------------------------------------------------------
(* What a call leaves behind: a result for the host, and a session of the  *)
(* client at the controller.                                               *)

Goto(t, pc) == threads' = [threads EXCEPT ![t].pc = pc]

Find(t, pc, c) == threads' = [threads EXCEPT ![t].pc = pc, ![t].found = c]

Return(t) == threads' = [threads EXCEPT ![t] = Idle]
Unlock(c) == lock' = [lock EXCEPT ![c] = Nil]

\* A call returns one of these types.  The ledger follows the result if it follows
\* none yet; the thread frees it before it goes on.
Deliver(t, types) ==
    \/ Return(t) /\ UNCHANGED ledger
    \/ /\ results = {}
       /\ threads' = [threads EXCEPT ![t] = Holding]
       /\ \E type \in types \ InPlace : \E r \in Results(type) :
            /\ results' = {r}
            /\ heap' = Blocks(r.type, r.shape)
       /\ strays' = EmptyBag /\ misfits' = {}

\* The error string.
DeliverError(t) == Deliver(t, {"string"})

\* connect_client succeeds: the session is there, renewed or registered anew.
Register(c) ==
    /\ local' = [local EXCEPT ![c] = @ \cup {"session_id"}]
    /\ session' = [session EXCEPT ![c] = @ \cup {"known"}]

\* connect_client fails: before it changes anything, or when it registers the session
\* that is missing.  The answer alone may be what is lost.
FailToRegister(c) ==
    \/ UNCHANGED <<local, session>>
    \/ /\ "known" \notin session[c]
       /\ local' = [local EXCEPT ![c] = @ \ {"session_id"}]
       /\ session' \in {session, [session EXCEPT ![c] = @ \cup {"lost"}]}

\* Faulty: the renew task is not aborted.
EndSessionOnly(c) ==
    /\ UNCHANGED local
    /\ session' = [session EXCEPT ![c] = {}]
    /\ stream' = [stream EXCEPT ![c] = FALSE]

\* ControllerClient::shutdown.  The session ends, or the controller never hears of it.
\* The renew task may be registering another when it is aborted.
EndSession(c) ==
    /\ local' = [local EXCEPT ![c] = {}]
    /\ \/ session' = [session EXCEPT ![c] = @ \ {"known"}]
       \/ /\ "known" \in session[c] \/ "renew_task" \in local[c]
          /\ session' = [session EXCEPT ![c] = {"lost"}]
    /\ stream' = [stream EXCEPT ![c] = FALSE]

-----------------------------------------------------------------------------
(* Handles are made, and found again.                                      *)

\* vldb_controller_ffi_client_create and its JSON form.
Create(t, c, a) ==
    /\ threads[t].pc = "idle" /\ inner[c] = "unborn" /\ shell[a] = Nil
    /\ registry' = [registry EXCEPT ![a] = c]
    /\ shell' = [shell EXCEPT ![a] = c]
    /\ where' = [where EXCEPT ![c] = a]
    /\ inner' = [inner EXCEPT ![c] = "some"]
    /\ Deliver(t, {"none", "string"})
    /\ UNCHANGED <<lock, clientVars>>

\* An input that cannot be converted: no handle is made or even looked at.
Refuse(t) ==
    /\ threads[t].pc = "idle"
    /\ DeliverError(t)
    /\ UNCHANGED <<handleVars, lock, clientVars>>

\* The free function of the result's type.  The allocator takes back what it finds at
\* the pointers, whatever capacity the Vec claims.
FreeResult(t) ==
    /\ threads[t].pc = "holding"
    /\ \E r \in results :
         LET released == Released(r.type, r.shape) IN
         /\ heap' = heap (-) released
         /\ strays' = released (-) heap
         /\ misfits' = {p \in Place : /\ BagIn(p, released) /\ BagIn(p, heap)
                                      /\ FreedCapacity(p) # MappedCapacity(r.shape, p)}
    /\ results' = {}
    /\ Return(t)
    /\ UNCHANGED <<handleVars, lock, clientVars>>

\* The host calls an operation, or frees, with a handle it was given once.
Call(t, c, pc) ==
    /\ threads[t].pc = "idle" /\ where[c] # Nil
    /\ threads' = [threads EXCEPT ![t] = [pc |-> pc, aim |-> c, found |-> Nil]]
    /\ UNCHANGED <<handleVars, lock, clientVars, ledger>>

\* with_client_handle, under the lock of the registry.
Lookup(t) ==
    /\ threads[t].pc = "looking"
    /\ LET c == registry[where[threads[t].aim]] IN
         IF c = Nil THEN DeliverError(t)
                    ELSE Find(t, "entering", c) /\ UNCHANGED ledger
    /\ UNCHANGED <<handleVars, lock, clientVars>>

\* Faulty: the thread does not look whether the client is still there.
EnterUnchecked(t) ==
    LET c == threads[t].found IN
    /\ threads[t].pc = "entering" /\ lock[c] = Nil
    /\ Goto(t, "performing")
    /\ lock' = [lock EXCEPT ![c] = t]
    /\ UNCHANGED <<handleVars, clientVars, ledger>>

\* with_client_handle gets the lock of the client, possibly after a free took it.
Enter(t) ==
    LET c == threads[t].found IN
    /\ threads[t].pc = "entering" /\ lock[c] = Nil
    /\ IF inner[c] = "some"
         THEN Goto(t, "performing") /\ lock' = [lock EXCEPT ![c] = t] /\ UNCHANGED ledger
         ELSE DeliverError(t) /\ UNCHANGED lock
    /\ UNCHANGED <<handleVars, clientVars>>

-----------------------------------------------------------------------------
(* Operations, with the client locked.                                     *)

\* An operation of the client succeeds, after what it needs of the session: with one of
\* the native results, or a JSON response.
Succeed(t, needs) ==
    LET c == threads[t].found IN
    /\ threads[t].pc = "performing"
    /\ needs = "session" => "session_id" \in local[c]
    /\ Deliver(t, ResultTypes(needs) \cup {"string"})
    /\ Unlock(c)
    /\ CASE needs = "nothing" -> UNCHANGED <<local, session>>
         [] needs = "renewal" ->
              /\ local' = [local EXCEPT ![c] = {"session_id", "renew_task"}]
              /\ session' = [session EXCEPT ![c] = @ \cup {"known"}]
         [] OTHER -> Register(c)
    /\ UNCHANGED <<handleVars, stream>>

\* It fails, before or after its connect_client.
Fail(t, needs) ==
    LET c == threads[t].found IN
    /\ threads[t].pc = "performing"
    /\ IF needs = "nothing" \/ (needs = "session" /\ "session_id" \notin local[c])
         THEN UNCHANGED <<local, session>>
         ELSE Register(c) \/ FailToRegister(c)
    /\ DeliverError(t)
    /\ Unlock(c)
    /\ UNCHANGED <<handleVars, stream>>

\* vldb_controller_ffi_client_shutdown: the handle stays.  The renew task, aborted too
\* late, may yet store a session that it has registered.
Shutdown(t) ==
    LET c == threads[t].found IN
    /\ threads[t].pc = "performing"
    /\ \/ EndSession(c)
       \/ /\ "renew_task" \in local[c]
          /\ local' = [local EXCEPT ![c] = {"session_id"}]
          /\ session' = [session EXCEPT ![c] = @ \cup {"known"}]
          /\ stream' = [stream EXCEPT ![c] = FALSE]
    /\ Deliver(t, {"none", "string"})
    /\ Unlock(c)
    /\ UNCHANGED handleVars

\* collect_sqlite_query_stream_result opens the stream, and gives up if it cannot.
OpenStream(t) ==
    LET c == threads[t].found IN
    /\ threads[t].pc = "performing"
    /\ Register(c)
    /\ stream' = [stream EXCEPT ![c] = TRUE]
    /\ Goto(t, "collecting")
    /\ UNCHANGED <<handleVars, lock, ledger>>

\* Faulty: a chunk that cannot be read ends the call at once.
CollectStreamOrReturn(t) ==
    LET c == threads[t].found IN
    /\ threads[t].pc = "collecting"
    /\ \/ /\ stream[c] /\ Register(c) /\ Deliver(t, {"stream", "string"})
          /\ stream' = [stream EXCEPT ![c] = FALSE]
       \/ FailToRegister(c) /\ DeliverError(t) /\ UNCHANGED stream
    /\ Unlock(c)
    /\ UNCHANGED handleVars

\* It waits for the metrics, reads every chunk, and closes the stream however that went.
\* A close that does not arrive leaves the stream to the controller's reaper.
CollectStream(t) ==
    LET c == threads[t].found IN
    /\ threads[t].pc = "collecting"
    /\ \/ stream[c] /\ Register(c) /\ Deliver(t, {"stream", "string"})
       \/ (Register(c) \/ FailToRegister(c)) /\ DeliverError(t)
    /\ stream' = [stream EXCEPT ![c] = FALSE]
    /\ Unlock(c)
    /\ UNCHANGED handleVars

-----------------------------------------------------------------------------
(* vldb_controller_ffi_client_free.                                        *)

\* Faulty: the handle is looked up, and stays in the registry.
FreeFind(t) ==
    LET a == where[threads[t].aim] IN
    /\ threads[t].pc = "removing"
    /\ IF registry[a] = Nil THEN Return(t) ELSE Find(t, "taking", registry[a])
    /\ UNCHANGED <<handleVars, lock, clientVars, ledger>>

\* Faulty: the shell is dropped with the entry, before the client is taken.
FreeRemoveShell(t) ==
    LET a == where[threads[t].aim] IN
    /\ threads[t].pc = "removing"
    /\ IF registry[a] = Nil THEN Return(t) ELSE Find(t, "taking", registry[a])
    /\ registry' = [registry EXCEPT ![a] = Nil]
    /\ shell' = [shell EXCEPT ![a] = Nil]
    /\ UNCHANGED <<where, inner, lock, clientVars, ledger>>

\* It removes the handle from the registry; one that is not there is ignored.
FreeRemove(t) ==
    LET a == where[threads[t].aim] IN
    /\ threads[t].pc = "removing"
    /\ IF registry[a] = Nil THEN Return(t) ELSE Find(t, "taking", registry[a])
    /\ registry' = [registry EXCEPT ![a] = Nil]
    /\ UNCHANGED <<shell, where, inner, lock, clientVars, ledger>>

\* It waits for the operation under way and takes the client.
FreeTake(t) ==
    LET c == threads[t].found IN
    /\ threads[t].pc = "taking" /\ lock[c] = Nil
    /\ lock' = [lock EXCEPT ![c] = t]
    /\ inner' = [inner EXCEPT ![c] = "none"]
    /\ Goto(t, "stopping")
    /\ UNCHANGED <<registry, shell, where, clientVars, ledger>>

\* It shuts the client down, and drops it together with the runtime of its renew task.
FreeStop(t) ==
    /\ threads[t].pc = "stopping"
    /\ EndSession(threads[t].found)
    /\ Goto(t, "dropping")
    /\ UNCHANGED <<handleVars, lock, ledger>>

\* It drops the shell that the pointer leads to.
FreeDrop(t) ==
    /\ threads[t].pc = "dropping"
    /\ shell' = [shell EXCEPT ![where[threads[t].aim]] = Nil]
    /\ Return(t) /\ Unlock(threads[t].found)
    /\ UNCHANGED <<registry, where, inner, clientVars, ledger>>

-----------------------------------------------------------------------------
(* The rest of the world.                                                  *)

\* The renew task, whose runtime needs none of the host's threads.
Renew(c) ==
    /\ "renew_task" \in local[c]
    /\ Register(c) \/ FailToRegister(c)
    /\ UNCHANGED <<handleVars, lock, stream, threads, ledger>>

\* The controller ends the session that the client knows, or itself.
LoseSession(c) ==
    /\ "known" \in session[c]
    /\ session' = [session EXCEPT ![c] = @ \ {"known"}]
    /\ stream' = [stream EXCEPT ![c] = FALSE]
    /\ UNCHANGED <<handleVars, lock, local, threads, ledger>>

\* The lease of a session that nobody renews runs out.
Expire(c) ==
    /\ "lost" \in session[c]
    /\ session' = [session EXCEPT ![c] = @ \ {"lost"}]
    /\ UNCHANGED <<handleVars, lock, local, stream, threads, ledger>>

\* The rest of a call that has begun.
Step(t) ==
    \/ Lookup(t) \/ Enter(t)
    \/ \E needs \in Needs : Succeed(t, needs) \/ Fail(t, needs)
    \/ Shutdown(t) \/ OpenStream(t) \/ CollectStream(t)
    \/ FreeRemove(t) \/ FreeTake(t) \/ FreeStop(t) \/ FreeDrop(t)

Next ==
    \/ \E t \in Thread :
         \/ \E c \in Client, a \in Address : Create(t, c, a)
         \/ Refuse(t) \/ FreeResult(t)
         \/ \E c \in Client, pc \in {"looking", "removing"} : Call(t, c, pc)
         \/ Step(t)
    \/ \E c \in Client : Renew(c) \/ LoseSession(c) \/ Expire(c)

Spec == Init /\ [][Next]_vars

\* A thread goes on with its call, since every request has a timeout; the mutexes are
\* not fair.  Leases run out.  Nothing makes the host call.
Fairness ==
    /\ \A t \in Thread : WF_vars(Step(t))
    /\ \A c \in Client : WF_vars(Expire(c))

FairSpec == Spec /\ Fairness

-----------------------------------------------------------------------------
(* Properties.                                                             *)

\* An operation runs on a client that no free has taken, and alone: with_client_handle
\* keeps a concurrent free out, and finds out when the free was first.
RunsOnlyLive ==
    \A t \in Thread : threads[t].pc \in Inside =>
        inner[threads[t].found] = "some" /\ lock[threads[t].found] = t

\* Every shell is dropped by the one free that took its handle from the registry: a
\* second free of the handle, or a free of a handle whose address has been given out
\* again, never drops memory that is not allocated.
ShellsOwned ==
    \A a \in Address :
        LET freeing == {t \in Thread : threads[t].pc \in Freeing /\ where[threads[t].aim] = a}
        IN /\ registry[a] # Nil => shell[a] = registry[a] /\ freeing = {}
           /\ \A t, u \in freeing : t = u
           /\ \A t \in freeing : shell[a] = threads[t].found

\* A call reaches another client than the one whose handle it was given only when that
\* one was freed before: what the comment on handles says of stale pointers holds until
\* their address is given out again.
MisdirectedOnlyAfterFree ==
    \A t \in Thread : threads[t].found # Nil /\ threads[t].found # threads[t].aim =>
        inner[threads[t].aim] = "none" /\ where[threads[t].aim] = where[threads[t].found]

\* No stream stays open behind a call that collects it, whether or not it could.
StreamsCollected ==
    \A c \in Client : stream[c] =>
        \E t \in Thread : threads[t].pc = "collecting" /\ threads[t].found = c

\* The free function of a result gives back every block that the conversion allocated,
\* and each only once.  (It counts blocks: with what capacity is LayoutsKept's.)
ResultsReleased == results = {} => heap = EmptyBag /\ strays = EmptyBag

\* It gives every block back as it was allocated.  Not so: the capacity of a Vec is lost
\* on its way through the host, so that a buffer with spare capacity misfits.
LayoutsKept == misfits = {}

\* The buffers that misfit are those that had spare capacity, all of them and no others.
SpareMisfits == [][\A r \in results : results' = {} => misfits' = r.shape.spare]_vars

\* A free comes to its end although the other threads of the host never stop calling:
\* out of the registry, the handle lets no new call compete for its mutex.
FreeReturns ==
    \A t \in Thread : threads[t].pc \in Freeing ~> threads[t].pc = "idle"

\* The controller is soon rid of a client that was freed, even when it never heard of
\* the shutdown: nothing renews its sessions any more.
FreedSessionEnds == \A c \in Client : inner[c] = "none" ~> session[c] = {}
=============================================================================
