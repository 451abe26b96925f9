------------------------- MODULE ClientSessionProofs -------------------------
(***************************************************************************)
(* Proofs about ClientSession, for any number of tasks, spaces, bindings   *)
(* and sessions, and any number of upsets.  session_init_lock carries the  *)
(* argument: a task that replaces the session is inside                    *)
(* ensure_registered_session, and so is a task that replays.               *)
(***************************************************************************)
EXTENDS ClientSession, FiniteSetTheorems, TLAPS

\* A task that has asked for something knows what it asked for.
AskedFor == \A t \in Thread :
    threads[t].pc \in {"sent", "served"} => threads[t].request \in Request

\* ReplayUndisturbed, and the same of a task that renews the session it may go on
\* to replay.
SessionKept == \A t \in Thread :
    threads[t].pc \in {"renewing", "replaying"} =>
        cache.client_session_id \in {threads[t].session, Nil}

SessionInv == TypeOK /\ AskedFor /\ SessionKept

-----------------------------------------------------------------------------
\* What every step of the controller keeps (SessionRegistry).
LEMMA ServerTyped ==
    ASSUME Server!TypeOK, Server!Next PROVE Server!TypeOK'
<1> DEFINE typed == /\ alive \subseteq Session /\ past \subseteq Session
                    /\ joined \in [Session -> SUBSET Space]
                    /\ owner \in [BindingKey -> Session \cup {Nil}]
<1>0. typed /\ (typed' => Server!TypeOK')
  BY DEF Server!TypeOK
<1>1. ASSUME NEW ended \in SUBSET alive
      PROVE /\ Server!JoinedAfter(ended) \in [Session -> SUBSET Space]
            /\ Server!OwnerAfter(ended) \in [BindingKey -> Session \cup {Nil}]
  BY <1>0 DEF Server!JoinedAfter, Server!OwnerAfter
<1>2. ASSUME NEW ended \in SUBSET alive, Server!End(ended) PROVE typed'
  BY <1>0, <1>1, <1>2 DEF Server!End
<1>3. ASSUME NEW ended \in SUBSET alive, NEW s \in Session, Server!Begin(s, ended) PROVE typed'
  BY <1>0, <1>1, <1>3 DEF Server!Begin
<1>4. ASSUME NEW ended \in SUBSET alive, NEW s \in Session, NEW sp \in Space,
             Server!Join(s, sp, ended)
      PROVE typed'
  <2>1. joined' \in [Session -> SUBSET Space]
    BY <1>0, <1>1, <1>4 DEF Server!Join
  <2> QED BY <1>0, <1>1, <1>4, <2>1 DEF Server!Join
<1>5. ASSUME NEW ended \in SUBSET alive, NEW s \in Session, NEW sp \in Space,
             Server!Leave(s, sp, ended)
      PROVE typed'
  <2>1. joined' \in [Session -> SUBSET Space]
    BY <1>0, <1>1, <1>5 DEF Server!Leave
  <2> QED BY <1>0, <1>1, <1>5, <2>1 DEF Server!Leave
<1>6. ASSUME NEW s \in Session, NEW k \in BindingKey,
             Server!Claim(s, k) \/ Server!Release(s, k)
      PROVE typed'
  BY <1>0, <1>6 DEF Server!Claim, Server!Release
<1> HIDE DEF typed
<1> QED BY <1>0, <1>2, <1>3, <1>4, <1>5, <1>6 DEF Server!Next

\* A step of the client changes the controller only by one of its operations.
LEMMA ServerSteps ==
    ASSUME TypeOK, AskedFor, Next PROVE Server!Next \/ UNCHANGED serverVars
<1>0. /\ alive \subseteq Session
      /\ \A t \in Thread : threads[t].request \in Request \cup {Nil}
      /\ \A t \in Thread : threads[t].todo \subseteq Thing
      /\ \A s \in Session, x \in Space : {} \in SUBSET alive
  BY DEF TypeOK, LocalState, Server!TypeOK
<1>1. ASSUME NEW s, NEW x, Grant(s, x) PROVE Server!Next
  <2>1. CASE x \in Space /\ Server!Join(s, x, {})
    <3>1. s \in Session
      BY <1>0, <2>1 DEF Server!Join
    <3> QED BY <2>1, <3>1 DEF Server!Next
  <2>2. CASE x \in BindingKey /\ Server!Claim(s, x)
    <3>1. s \in Session
      BY <1>0, <2>2 DEF Server!Claim
    <3> QED BY <2>2, <3>1 DEF Server!Next
  <2> QED BY <1>1, <2>1, <2>2 DEF Grant
<1>2. ASSUME NEW ended \in SUBSET alive, Server!End(ended) PROVE Server!Next
  BY <1>2 DEF Server!Next
<1>3. ASSUME NEW t \in Thread, Register(t) PROVE Server!Next
  <2> DEFINE s == CHOOSE id \in Session : id \notin alive \cup past
  <2>1. Server!Begin(s, {})
    BY <1>3 DEF Register
  <2>2. s \in Session
    BY <1>3, <1>0 DEF Register, TypeOK, Server!TypeOK
  <2> QED BY <2>1, <2>2 DEF Server!Next
<1>4. ASSUME NEW t \in Thread, Serve(t) PROVE Server!Next
  <2> DEFINE s == threads[t].session
             x == threads[t].request[2]
  <2>1. threads[t].request \in Request
    BY <1>4 DEF Serve, At, AskedFor
  <2>2. CASE Grant(s, x)
    BY <1>1, <2>2
  <2>3. CASE threads[t].request[1] = "detach" /\ Server!Leave(s, x, {})
    <3>1. x \in Space
      BY <2>1, <2>3 DEF Request
    <3>2. s \in Session
      BY <1>0, <2>3 DEF Server!Leave
    <3> QED BY <2>3, <3>1, <3>2 DEF Server!Next
  <2>4. CASE threads[t].request[1] = "disable" /\ Server!Release(s, x)
    <3>1. x \in BindingKey
      BY <2>1, <2>4 DEF Request
    <3>2. s \in Session
      BY <1>0, <2>4 DEF Server!Release
    <3> QED BY <2>4, <3>1, <3>2 DEF Server!Next
  <2> QED BY <1>4, <2>2, <2>3, <2>4 DEF Serve
<1>5. ASSUME NEW t \in Thread, Replay(t) PROVE Server!Next
  BY <1>1, <1>5 DEF Replay
<1>6. ASSUME NEW t \in Thread, Unregister(t) PROVE Server!Next \/ UNCHANGED serverVars
  BY <1>2, <1>6 DEF Unregister
<1>7. CASE SessionsLost
  BY <1>2, <1>7 DEF SessionsLost
<1>8. CASE StrayLapses
  BY <1>2, <1>8 DEF StrayLapses, Strays
<1>9. ASSUME NEW t \in Thread,
             \/ TakeLock(t) \/ Renewed(t) \/ SessionMissing(t) \/ Adopt(t) \/ ReplayRefused(t)
             \/ ReplayDone(t) \/ Connected(t) \/ DataOperation(t)
             \/ (\E request \in Request : Send(t, request)) \/ Refused(t) \/ Return(t) \/ Clear(t)
             \/ Fail(t) \/ Shutdown(t)
      PROVE UNCHANGED serverVars
  BY <1>9 DEF TakeLock, Renewed, SessionMissing, Adopt, ReplayRefused, ReplayDone, Connected,
              DataOperation, Send, Refused, Return, Clear, Fail, Shutdown
<1> QED BY <1>3, <1>4, <1>5, <1>6, <1>7, <1>8, <1>9 DEF Next, Step, Thread

-----------------------------------------------------------------------------
\* The part of the types that is the client's own.
ClientTyped ==
    /\ cache \in ClientSessionState
    /\ threads \in [Thread -> LocalState]
    /\ renewing \in BOOLEAN
    /\ upsets \in 0 .. MaxUpsets
    /\ shutdowns \in 0 .. MaxShutdowns

\* The lock is with whoever is inside ensure_registered_session.
LockExact ==
    /\ \A t \in Thread : initLock = t <=> threads[t].pc \in Locked
    /\ initLock \in Thread \cup {Nil}

\* A task that rests holds no lock and has asked for nothing.
LEMMA RestingIdle ==
    /\ Resting \in LocalState
    /\ Resting.pc = "idle"
    /\ EmptyCache \in ClientSessionState
BY DEF Resting, LocalState, EmptyCache, ClientSessionState

\* Every step keeps the types of the client.
LEMMA ClientStepTyped ==
    ASSUME TypeOK, AskedFor, Next PROVE ClientTyped'
<1> USE UpsetsAssumption, RestingIdle
<1>0. ClientTyped /\ alive \subseteq Session
  BY DEF TypeOK, ClientTyped, Server!TypeOK
<1>1. ASSUME NEW t \in Thread, TakeLock(t) PROVE ClientTyped'
  <2>1. cache.client_session_id \in Session \cup {Nil} /\ cache.session_needs_replay \in BOOLEAN
    BY <1>0 DEF ClientTyped, ClientSessionState
  <2>2. threads' \in [Thread -> LocalState]
    BY <1>0, <1>1, <2>1 DEF TakeLock, ClientTyped, LocalState, Locked, Resting
  <2> QED BY <1>0, <1>1, <2>2 DEF TakeLock, ClientTyped
<1>2. ASSUME NEW t \in Thread, Renewed(t) PROVE ClientTyped'
  <2>1. cache.desired \subseteq Thing
    BY <1>0 DEF ClientTyped, ClientSessionState
  <2>2. threads' \in [Thread -> LocalState]
    BY <1>0, <1>2, <2>1 DEF Renewed, ClientTyped, LocalState, Locked
  <2> QED BY <1>0, <1>2, <2>2 DEF Renewed, ClientTyped
<1>3. ASSUME NEW t \in Thread, SessionMissing(t) PROVE ClientTyped'
  <2>1. cache' \in ClientSessionState
    BY <1>0, <1>3 DEF SessionMissing, ClientTyped, ClientSessionState
  <2>2. threads' \in [Thread -> LocalState]
    BY <1>0, <1>3 DEF SessionMissing, ClientTyped, LocalState, Locked
  <2> QED BY <1>0, <1>3, <2>1, <2>2 DEF SessionMissing, ClientTyped
<1>4. ASSUME NEW t \in Thread, Register(t) PROVE ClientTyped'
  <2> DEFINE s == CHOOSE id \in Session : id \notin alive \cup past
  <2>1. s \in Session
    BY <1>4 DEF Register, TypeOK, Server!TypeOK
  <2>2. threads' = [threads EXCEPT ![t].pc = "registered", ![t].session = s]
    BY <1>4 DEF Register
  <2> HIDE DEF s
  <2>3. threads' \in [Thread -> LocalState]
    BY <1>0, <2>1, <2>2 DEF ClientTyped, LocalState, Locked
  <2> QED BY <1>0, <1>4, <2>3 DEF Register, ClientTyped
<1>5. ASSUME NEW t \in Thread, Adopt(t) PROVE ClientTyped'
  <2>1. threads[t].session \in Session \cup {Nil} /\ cache.desired \subseteq Thing
    BY <1>0 DEF ClientTyped, LocalState, ClientSessionState
  <2>2. cache' \in ClientSessionState
    BY <1>0, <1>5, <2>1 DEF Adopt, ClientTyped, ClientSessionState
  <2>3. threads' \in [Thread -> LocalState]
    BY <1>0, <1>5, <2>1 DEF Adopt, ClientTyped, LocalState, Locked
  <2> QED BY <1>0, <1>5, <2>2, <2>3 DEF Adopt, ClientTyped
<1>6. ASSUME NEW t \in Thread, Replay(t) PROVE ClientTyped'
  <2>1. threads' \in [Thread -> LocalState]
    BY <1>0, <1>6 DEF Replay, ClientTyped, LocalState
  <2> QED BY <1>0, <1>6, <2>1 DEF Replay, ClientTyped
<1>7. ASSUME NEW t \in Thread, ReplayRefused(t) \/ Refused(t) PROVE ClientTyped'
  BY <1>0, <1>7 DEF ReplayRefused, Refused, Ends, ClientTyped
<1>8. ASSUME NEW t \in Thread, ReplayDone(t) PROVE ClientTyped'
  <2>1. cache' \in ClientSessionState
    BY <1>0, <1>8 DEF ReplayDone, ClientTyped, ClientSessionState
  <2>2. threads' \in [Thread -> LocalState]
    BY <1>0, <1>8 DEF ReplayDone, ClientTyped, LocalState
  <2> QED BY <1>0, <1>8, <2>1, <2>2 DEF ReplayDone, ClientTyped
<1>9. ASSUME NEW t \in Thread, Connected(t) \/ DataOperation(t) PROVE ClientTyped'
  BY <1>0, <1>9 DEF Connected, DataOperation, Ends, ClientTyped
<1>10. ASSUME NEW t \in Thread, NEW request \in Request, Send(t, request) PROVE ClientTyped'
  BY <1>0, <1>10 DEF Send, Ends, ClientTyped, LocalState, ClientSessionState
<1>11. ASSUME NEW t \in Thread, Serve(t) PROVE ClientTyped'
  <2>1. threads' \in [Thread -> LocalState]
    BY <1>0, <1>11 DEF Serve, ClientTyped, LocalState
  <2> QED BY <1>0, <1>11, <2>1 DEF Serve, ClientTyped
<1>12. ASSUME NEW t \in Thread, Return(t) PROVE ClientTyped'
  <2>1. threads[t].request \in Request
    BY <1>12 DEF Return, At, AskedFor
  <2>2. threads[t].request[2] \in Thing
    BY <2>1 DEF Request, Thing
  <2>3. cache' \in ClientSessionState
    BY <1>0, <1>12, <2>2 DEF Return, ClientTyped, ClientSessionState
  <2> QED BY <1>0, <1>12, <2>3 DEF Return, Ends, ClientTyped
<1>13. ASSUME NEW t \in Thread, Fail(t) PROVE ClientTyped'
  BY <1>0, <1>13 DEF Fail, Upset, Ends, ClientTyped
<1>14. ASSUME NEW t \in Task, Shutdown(t) PROVE ClientTyped'
  <2>1. t \in Thread /\ Renewer \in Thread
    BY DEF Thread
  <2>2. threads' \in [Thread -> LocalState]
    BY <1>0, <1>14, <2>1 DEF Shutdown, ClientTyped, LocalState, ClientSessionState, Resting
  <2>3. shutdowns' \in 0 .. MaxShutdowns
    BY <1>0, <1>14 DEF Shutdown, ClientTyped
  <2>4. renewing' \in BOOLEAN /\ cache' = cache /\ upsets' = upsets
    BY <1>14 DEF Shutdown
  <2> QED BY <1>0, <2>2, <2>3, <2>4 DEF ClientTyped
<1>15. ASSUME NEW t \in Thread, Unregister(t) PROVE ClientTyped'
  <2>1. threads' \in [Thread -> LocalState]
    BY <1>0, <1>15 DEF Unregister, ClientTyped, LocalState
  <2>2. upsets' \in 0 .. MaxUpsets
    BY <1>0, <1>15 DEF Unregister, Upset, ClientTyped
  <2> QED BY <1>0, <1>15, <2>1, <2>2 DEF Unregister, ClientTyped
<1>16. ASSUME NEW t \in Thread, Clear(t) PROVE ClientTyped'
  BY <1>0, <1>16 DEF Clear, Ends, ClientTyped
<1>17. CASE SessionsLost \/ StrayLapses
  BY <1>0, <1>17 DEF SessionsLost, StrayLapses, Upset, ClientTyped
<1> QED BY <1>1, <1>2, <1>3, <1>4, <1>5, <1>6, <1>7, <1>8, <1>9, <1>10, <1>11, <1>12, <1>13,
           <1>14, <1>15, <1>16, <1>17 DEF Next, Step

\* Every step hands the lock over with the entry and the exit of
\* ensure_registered_session.
LEMMA LockStepExact ==
    ASSUME TypeOK, Next PROVE LockExact'
<1> USE NilAssumption DEF Thread, Locked
<1>0. LockExact /\ threads \in [Thread -> LocalState] /\ Resting.pc = "idle"
  BY RestingIdle DEF TypeOK, LockExact
<1>1. ASSUME NEW t \in Thread, Ends(t) PROVE LockExact'
  BY <1>0, <1>1 DEF Ends, LockExact
<1>2. ASSUME NEW t \in Thread, TakeLock(t) PROVE LockExact'
  BY <1>0, <1>2 DEF TakeLock, At, Resting, LockExact
<1>3. ASSUME NEW t \in Thread, Renewed(t) PROVE LockExact'
  <2>1. CASE threads[t].replay
    <3>1. \A u \in Thread : threads'[u].pc = IF u = t THEN "replaying" ELSE threads[u].pc
      BY <1>0, <1>3, <2>1 DEF Renewed, LocalState
    <3> QED BY <1>0, <1>3, <2>1, <3>1 DEF Renewed, At, LockExact
  <2>2. CASE ~threads[t].replay
    <3>1. \A u \in Thread : threads'[u].pc = IF u = t THEN "ready" ELSE threads[u].pc
      BY <1>0, <1>3, <2>2 DEF Renewed, LocalState
    <3> QED BY <1>0, <1>3, <2>2, <3>1 DEF Renewed, At, LockExact
  <2> QED BY <2>1, <2>2
<1>4. ASSUME NEW t \in Thread, SessionMissing(t) \/ Adopt(t) \/ Replay(t) PROVE LockExact'
  <2>1. CASE SessionMissing(t)
    BY <1>0, <2>1 DEF SessionMissing, At, LockExact
  <2>2. CASE Adopt(t)
    BY <1>0, <2>2 DEF Adopt, At, LockExact
  <2>3. CASE Replay(t)
    BY <1>0, <2>3 DEF Replay, At, LockExact
  <2> QED BY <1>4, <2>1, <2>2, <2>3
<1>5. ASSUME NEW t \in Thread, Register(t) PROVE LockExact'
  <2>1. PICK s : threads' = [threads EXCEPT ![t].pc = "registered", ![t].session = s]
    BY <1>5 DEF Register
  <2> QED BY <1>0, <1>5, <2>1 DEF Register, At, LockExact
<1>6. ASSUME NEW t \in Thread, ReplayDone(t) PROVE LockExact'
  BY <1>0, <1>6 DEF ReplayDone, At, LockExact
<1>7. ASSUME NEW t \in Thread, NEW request \in Request, Send(t, request) PROVE LockExact'
  <2>1. CASE Ends(t)
    BY <1>1, <2>1
  <2>2. CASE cache.client_session_id # Nil
    <3>1. \A u \in Thread : threads'[u].pc = IF u = t THEN "sent" ELSE threads[u].pc
      BY <1>0, <1>7, <2>2 DEF Send, LocalState
    <3> QED BY <1>0, <1>7, <2>2, <3>1 DEF Send, At, LockExact
  <2> QED BY <1>7, <2>1, <2>2 DEF Send
<1>8. ASSUME NEW t \in Thread, Serve(t) \/ Unregister(t) PROVE LockExact'
  <2>1. CASE Serve(t)
    <3>1. \A u \in Thread : threads'[u].pc = IF u = t THEN "served" ELSE threads[u].pc
      BY <1>0, <2>1 DEF Serve
    <3> QED BY <1>0, <2>1, <3>1 DEF Serve, At, LockExact
  <2>2. CASE Unregister(t)
    <3>1. \A u \in Thread : threads'[u].pc = IF u = t THEN "clearing" ELSE threads[u].pc
      BY <1>0, <2>2 DEF Unregister
    <3> QED BY <1>0, <2>2, <3>1 DEF Unregister, At, LockExact
  <2> QED BY <1>8, <2>1, <2>2
<1>9. ASSUME NEW t \in Thread,
             \/ ReplayRefused(t) \/ Connected(t) \/ DataOperation(t) \/ Refused(t)
             \/ Return(t) \/ Fail(t) \/ Clear(t)
      PROVE LockExact'
  BY <1>1, <1>9 DEF ReplayRefused, Connected, DataOperation, Refused, Return, Fail, Clear
<1>10. ASSUME NEW t \in Task, Shutdown(t) PROVE LockExact'
  BY <1>0, <1>10 DEF Shutdown, At, LockExact, Resting
<1>11. CASE SessionsLost \/ StrayLapses
  BY <1>0, <1>11 DEF SessionsLost, StrayLapses, LockExact
<1> HIDE DEF Thread
<1> QED BY <1>2, <1>3, <1>4, <1>5, <1>6, <1>7, <1>8, <1>9, <1>10, <1>11 DEF Next, Step

\* Every step of a task that waits for an answer knows the question.
LEMMA AskedForStep ==
    ASSUME TypeOK, AskedFor, Next PROVE AskedFor'
<1> USE DEF AskedFor, At
<1>0. threads \in [Thread -> LocalState] /\ Resting.pc = "idle"
  BY RestingIdle DEF TypeOK
<1>1. ASSUME NEW t \in Thread, Ends(t) PROVE AskedFor'
  BY <1>0, <1>1 DEF Ends
<1>2. ASSUME NEW t \in Thread, TakeLock(t) PROVE AskedFor'
  BY <1>0, <1>2 DEF TakeLock, Resting
<1>3. ASSUME NEW t \in Thread,
             Renewed(t) \/ SessionMissing(t) \/ Adopt(t) \/ Replay(t) \/ ReplayDone(t) \/ Unregister(t)
      PROVE AskedFor'
  <2>1. CASE Renewed(t)
    <3>1. CASE threads[t].replay
      BY <1>0, <2>1, <3>1 DEF Renewed, LocalState
    <3>2. CASE ~threads[t].replay
      BY <1>0, <2>1, <3>2 DEF Renewed, LocalState
    <3> QED BY <3>1, <3>2
  <2>2. CASE SessionMissing(t) \/ Adopt(t)
    BY <1>0, <2>2 DEF SessionMissing, Adopt, LocalState
  <2>3. CASE Replay(t)
    BY <1>0, <2>3 DEF Replay
  <2>4. CASE ReplayDone(t) \/ Unregister(t)
    BY <1>0, <2>4 DEF ReplayDone, Unregister, LocalState
  <2> QED BY <1>3, <2>1, <2>2, <2>3, <2>4
<1>4. ASSUME NEW t \in Thread, Register(t) PROVE AskedFor'
  <2>1. PICK s : threads' = [threads EXCEPT ![t].pc = "registered", ![t].session = s]
    BY <1>4 DEF Register
  <2> QED BY <1>0, <2>1
<1>5. ASSUME NEW t \in Thread, NEW request \in Request, Send(t, request) PROVE AskedFor'
  <2>1. CASE Ends(t)
    BY <1>1, <2>1
  <2>2. CASE cache.client_session_id # Nil
    BY <1>0, <1>5, <2>2 DEF Send, LocalState
  <2> QED BY <1>5, <2>1, <2>2 DEF Send
<1>6. ASSUME NEW t \in Thread, Serve(t) PROVE AskedFor'
  BY <1>0, <1>6 DEF Serve
<1>7. ASSUME NEW t \in Thread,
             \/ ReplayRefused(t) \/ Connected(t) \/ DataOperation(t) \/ Refused(t)
             \/ Return(t) \/ Fail(t) \/ Clear(t)
      PROVE AskedFor'
  BY <1>1, <1>7 DEF ReplayRefused, Connected, DataOperation, Refused, Return, Fail, Clear
<1>8. ASSUME NEW t \in Task, Shutdown(t) PROVE AskedFor'
  BY <1>0, <1>8 DEF Shutdown, Resting, Thread
<1>9. CASE SessionsLost \/ StrayLapses
  BY <1>9 DEF SessionsLost, StrayLapses
<1> QED BY <1>2, <1>3, <1>4, <1>5, <1>6, <1>7, <1>8, <1>9 DEF Next, Step

\* A step leaves the session of a task that renews or replays, forgets it, or is the
\* task's own.
LEMMA SessionKeptStep ==
    ASSUME TypeOK, SessionKept, Next PROVE SessionKept'
<1> USE DEF SessionKept, At
<1>0. /\ cache \in ClientSessionState /\ threads \in [Thread -> LocalState]
      /\ LockExact /\ Resting.pc = "idle" /\ EmptyCache.client_session_id = Nil
  BY RestingIdle DEF TypeOK, LockExact, EmptyCache
<1>1. ASSUME NEW t \in Thread, Ends(t), UNCHANGED cache PROVE SessionKept'
  BY <1>0, <1>1 DEF Ends
<1>2. ASSUME NEW t \in Thread, TakeLock(t) PROVE SessionKept'
  BY <1>0, <1>2 DEF TakeLock, Resting
<1>3. ASSUME NEW t \in Thread, Renewed(t) PROVE SessionKept'
  <2>1. CASE threads[t].replay
    BY <1>0, <1>3, <2>1 DEF Renewed, LocalState
  <2>2. CASE ~threads[t].replay
    BY <1>0, <1>3, <2>2 DEF Renewed, LocalState
  <2> QED BY <2>1, <2>2
<1>4. ASSUME NEW t \in Thread, SessionMissing(t) PROVE SessionKept'
  <2>1. cache'.client_session_id = Nil
    BY <1>0, <1>4 DEF SessionMissing, ClientSessionState
  <2> QED BY <2>1
<1>5. ASSUME NEW t \in Thread, Register(t) PROVE SessionKept'
  <2>1. PICK s : threads' = [threads EXCEPT ![t].pc = "registered", ![t].session = s]
    BY <1>5 DEF Register
  <2>2. \A u \in Thread \ {t} : threads'[u] = threads[u]
    BY <1>0, <2>1
  <2>3. threads'[t].pc = "registered"
    BY <1>0, <2>1 DEF LocalState
  <2> QED BY <1>5, <2>2, <2>3 DEF Register
<1>6. ASSUME NEW t \in Thread, Adopt(t) PROVE SessionKept'
  <2>1. \A u \in Thread \ {t} : threads'[u] = threads[u] /\ threads[u].pc \notin Locked
    BY <1>0, <1>6 DEF Adopt, LockExact, Locked
  <2>2. cache'.client_session_id = threads[t].session /\ threads'[t].session = threads[t].session
    BY <1>0, <1>6 DEF Adopt, ClientSessionState, LocalState
  <2> QED BY <2>1, <2>2 DEF Locked
<1>7. ASSUME NEW t \in Thread, Replay(t) PROVE SessionKept'
  BY <1>0, <1>7 DEF Replay, LocalState
<1>8. ASSUME NEW t \in Thread, ReplayDone(t) PROVE SessionKept'
  <2>1. cache'.client_session_id = cache.client_session_id
    BY <1>0, <1>8 DEF ReplayDone, ClientSessionState
  <2> QED BY <1>0, <1>8, <2>1 DEF ReplayDone, LocalState
<1>9. ASSUME NEW t \in Thread, NEW request \in Request, Send(t, request) PROVE SessionKept'
  <2>1. CASE cache.client_session_id = Nil
    BY <1>9, <2>1 DEF Send
  <2>2. CASE cache.client_session_id # Nil
    BY <1>0, <1>9, <2>2 DEF Send, LocalState
  <2> QED BY <2>1, <2>2
<1>10. ASSUME NEW t \in Thread, Serve(t) \/ Unregister(t) PROVE SessionKept'
  <2>1. CASE Serve(t)
    BY <1>0, <2>1 DEF Serve, LocalState
  <2>2. CASE Unregister(t)
    BY <1>0, <2>2 DEF Unregister, LocalState
  <2> QED BY <1>10, <2>1, <2>2
<1>11. ASSUME NEW t \in Thread, Return(t) PROVE SessionKept'
  <2>1. cache'.client_session_id = cache.client_session_id
    BY <1>0, <1>11 DEF Return, ClientSessionState
  <2> QED BY <1>0, <1>11, <2>1 DEF Return, Ends
<1>12. ASSUME NEW t \in Thread,
              ReplayRefused(t) \/ Connected(t) \/ DataOperation(t) \/ Refused(t) \/ Fail(t)
       PROVE SessionKept'
  BY <1>1, <1>12 DEF ReplayRefused, Connected, DataOperation, Refused, Fail
<1>13. ASSUME NEW t \in Thread, Clear(t) PROVE SessionKept'
  BY <1>0, <1>13 DEF Clear
<1>14. ASSUME NEW t \in Task, Shutdown(t) PROVE SessionKept'
  BY <1>0, <1>14 DEF Shutdown, Resting, Thread
<1>15. CASE SessionsLost \/ StrayLapses
  BY <1>15 DEF SessionsLost, StrayLapses
<1> QED BY <1>2, <1>3, <1>4, <1>5, <1>6, <1>7, <1>8, <1>9, <1>10, <1>11, <1>12, <1>13, <1>14, <1>15
           DEF Next, Step

-----------------------------------------------------------------------------
\* The initial states.
LEMMA SessionInvInit == Init => SessionInv
<1> SUFFICES ASSUME Init PROVE SessionInv
  OBVIOUS
<1> USE UpsetsAssumption, NilAssumption, RestingIdle DEF Init
<1>1. ClientTyped
  <2>1. cache \in ClientSessionState /\ threads \in [Thread -> LocalState] /\ renewing \in BOOLEAN
    OBVIOUS
  <2>2. upsets \in 0 .. MaxUpsets /\ shutdowns \in 0 .. MaxShutdowns
    OBVIOUS
  <2> QED BY <2>1, <2>2 DEF ClientTyped
<1>2. \A t \in Thread : threads[t] = Resting
  OBVIOUS
<1>3. LockExact
  BY <1>2 DEF LockExact, Locked, Thread
<1>4. Server!TypeOK
  BY DEF Server!Init, Server!TypeOK
<1> QED BY <1>1, <1>2, <1>3, <1>4 DEF SessionInv, TypeOK, ClientTyped, LockExact, AskedFor, SessionKept

\* The inductive invariant: types, the exact lock, and the session of whoever holds
\* the lock.
THEOREM SessionInvHolds == Spec => []SessionInv
<1>1. SessionInv /\ [Next]_vars => SessionInv'
  <2> SUFFICES ASSUME SessionInv, [Next]_vars PROVE SessionInv'
    OBVIOUS
  <2>1. CASE Next
    <3>1. TypeOK /\ AskedFor /\ SessionKept
      BY DEF SessionInv
    <3>2. Server!TypeOK'
      <4>1. Server!TypeOK
        BY <3>1 DEF TypeOK
      <4>2. CASE Server!Next
        BY <4>1, <4>2, ServerTyped
      <4>3. CASE UNCHANGED serverVars
        BY <4>1, <4>3 DEF serverVars, Server!TypeOK
      <4> QED BY <2>1, <3>1, <4>2, <4>3, ServerSteps
    <3>3. ClientTyped' /\ LockExact' /\ AskedFor' /\ SessionKept'
      BY <2>1, <3>1, ClientStepTyped, LockStepExact, AskedForStep, SessionKeptStep
    <3> QED BY <3>2, <3>3 DEF SessionInv, TypeOK, ClientTyped, LockExact
  <2>2. CASE UNCHANGED vars
    <3>1. UNCHANGED serverVars
      BY <2>2 DEF vars, serverVars
    <3>2. Server!TypeOK'
      BY <3>1 DEF SessionInv, TypeOK, serverVars, Server!TypeOK
    <3> QED BY <2>2, <3>2 DEF vars, SessionInv, TypeOK, AskedFor, SessionKept
  <2> QED BY <2>1, <2>2
<1> QED BY <1>1, SessionInvInit, PTL DEF Spec

\* The cache, the tasks and the controller keep their types, and the lock is with the
\* task inside ensure_registered_session, whatever is lost, dropped or shut down.
THEOREM ClientTypes == Spec => []TypeOK
<1>1. SessionInv => TypeOK
  BY DEF SessionInv
<1> QED BY <1>1, SessionInvHolds, PTL

\* ensure_registered_session: no task replaces the session under the replay of another.
THEOREM ReplaysUndisturbed == Spec => []ReplayUndisturbed
<1>1. SessionInv => ReplayUndisturbed
  BY DEF SessionInv, SessionKept, ReplayUndisturbed, At
<1> QED BY <1>1, SessionInvHolds, PTL

\* The client uses the controller as SessionRegistry lets it: what it relies on is what
\* ControllerRuntime implements.
THEOREM UsesTheRegistry == Spec => Server!Spec
<1>1. Init => Server!Init
  BY DEF Init
<1>2. SessionInv /\ [Next]_vars => [Server!Next]_(Server!vars)
  <2> SUFFICES ASSUME SessionInv, [Next]_vars PROVE Server!Next \/ UNCHANGED Server!vars
    OBVIOUS
  <2>1. CASE Next
    BY <2>1, ServerSteps DEF SessionInv, serverVars, Server!vars
  <2>2. CASE UNCHANGED vars
    BY <2>2 DEF vars, Server!vars
  <2> QED BY <2>1, <2>2
<1> QED BY <1>1, <1>2, SessionInvHolds, PTL DEF Spec, Server!Spec

-----------------------------------------------------------------------------
(* OneSession.  A live session is the one the client has, or one that a    *)
(* task has just registered, or Excess.  Excess grows by a registration    *)
(* that is dropped, by a shutdown that aborts one, and by a shutdown that  *)
(* forgets the session whose unregistration failed, or a newer one.        *)

\* The sessions the client is about to use.
Kept == {cache.client_session_id}
            \cup {threads[t].session : t \in {u \in Thread : threads[u].pc = "registered"}}

Excess == alive \ Kept

\* The shutdowns that are still to forget a session.
Leaving == {t \in Thread : threads[t].pc \in {"unregistering", "clearing"}}

\* A task looks for a session only when the client has none.
Unheld == \A t \in Thread :
    threads[t].pc \in {"registering", "registered"} => cache.client_session_id = Nil

\* Each upset accounts for a session of Excess, and each shutdown for two, one of
\* which it still owes while it is under way.
Accounted ==
    /\ IsFiniteSet(Excess) /\ IsFiniteSet(Leaving)
    /\ Cardinality(Excess) + Cardinality(Leaving) <= upsets + 2 * shutdowns

\* A set that gains an element at most grows by one at most.
LEMMA GrowsByOne ==
    ASSUME NEW A, NEW B, NEW x, IsFiniteSet(A), B \subseteq A \cup {x}
    PROVE  /\ IsFiniteSet(B) /\ Cardinality(A) \in Nat /\ Cardinality(B) \in Nat
           /\ Cardinality(B) <= Cardinality(A) + 1
<1>1. /\ IsFiniteSet(A \cup {x})
      /\ Cardinality(A \cup {x}) \in {Cardinality(A), Cardinality(A) + 1}
  BY FS_AddElement
<1>2. IsFiniteSet(B) /\ Cardinality(B) <= Cardinality(A \cup {x})
  BY <1>1, FS_Subset
<1>3. Cardinality(A) \in Nat /\ Cardinality(B) \in Nat
  BY <1>2, FS_CardinalityType
<1> QED BY <1>1, <1>2, <1>3

\* A set that loses an element and gains none shrinks by one at least.
LEMMA ShrinksByOne ==
    ASSUME NEW A, NEW B, NEW x \in A, IsFiniteSet(A), B \subseteq A \ {x}
    PROVE  /\ IsFiniteSet(B) /\ Cardinality(A) \in Nat /\ Cardinality(B) \in Nat
           /\ Cardinality(B) + 1 <= Cardinality(A)
<1>1. IsFiniteSet(A \ {x}) /\ Cardinality(A \ {x}) = Cardinality(A) - 1
  BY FS_RemoveElement
<1>2. IsFiniteSet(B) /\ Cardinality(B) <= Cardinality(A \ {x})
  BY <1>1, FS_Subset
<1>3. Cardinality(A) \in Nat /\ Cardinality(B) \in Nat
  BY <1>2, FS_CardinalityType
<1> QED BY <1>1, <1>2, <1>3

\* A step that adds nothing to either set keeps the account.
LEMMA AccountKept ==
    ASSUME TypeOK, Accounted, Excess' \subseteq Excess, Leaving' \subseteq Leaving,
           upsets' \in Nat, upsets' >= upsets, shutdowns' = shutdowns
    PROVE  Accounted'
<1>1. upsets \in Nat /\ shutdowns \in Nat
  BY UpsetsAssumption DEF TypeOK
<1>2. IsFiniteSet(Excess') /\ Cardinality(Excess') <= Cardinality(Excess)
  BY FS_Subset DEF Accounted
<1>3. IsFiniteSet(Leaving') /\ Cardinality(Leaving') <= Cardinality(Leaving)
  BY FS_Subset DEF Accounted
<1>4. /\ Cardinality(Excess) \in Nat /\ Cardinality(Excess') \in Nat
      /\ Cardinality(Leaving) \in Nat /\ Cardinality(Leaving') \in Nat
  BY <1>2, <1>3, FS_CardinalityType DEF Accounted
<1> QED BY <1>1, <1>2, <1>3, <1>4 DEF Accounted

\* The sessions of Excess after a step that ends sessions or begins one that is kept.
LEMMA NoExcess ==
    ASSUME Kept \cap alive' \subseteq Kept', alive' \subseteq alive \cup Kept'
    PROVE  Excess' \subseteq Excess
BY DEF Excess

\* Only a task with the lock looks for a session, and nobody else gives it one.
LEMMA UnheldStep ==
    ASSUME TypeOK, Unheld, Next PROVE Unheld'
<1> USE DEF Unheld, At
<1>0. /\ cache \in ClientSessionState /\ threads \in [Thread -> LocalState]
      /\ LockExact /\ Resting.pc = "idle" /\ EmptyCache.client_session_id = Nil
  BY RestingIdle DEF TypeOK, LockExact, EmptyCache
<1>1. ASSUME NEW t \in Thread, Ends(t), UNCHANGED cache PROVE Unheld'
  BY <1>0, <1>1 DEF Ends
<1>2. ASSUME NEW t \in Thread, TakeLock(t) PROVE Unheld'
  <2>1. \A u \in Thread : threads[u].pc \notin Locked
    BY <1>0, <1>2, NilAssumption DEF TakeLock, LockExact, Thread
  <2> QED BY <1>0, <1>2, <2>1 DEF TakeLock, Resting, Locked
<1>3. ASSUME NEW t \in Thread, Renewed(t) PROVE Unheld'
  <2>1. CASE threads[t].replay
    BY <1>0, <1>3, <2>1 DEF Renewed, LocalState
  <2>2. CASE ~threads[t].replay
    BY <1>0, <1>3, <2>2 DEF Renewed, LocalState
  <2> QED BY <2>1, <2>2
<1>4. ASSUME NEW t \in Thread, SessionMissing(t) PROVE Unheld'
  <2>1. cache'.client_session_id = Nil
    BY <1>0, <1>4 DEF SessionMissing, ClientSessionState
  <2> QED BY <2>1
<1>5. ASSUME NEW t \in Thread, Register(t) PROVE Unheld'
  <2>1. PICK s : threads' = [threads EXCEPT ![t].pc = "registered", ![t].session = s]
    BY <1>5 DEF Register
  <2>2. \A u \in Thread \ {t} : threads'[u] = threads[u]
    BY <1>0, <2>1
  <2> QED BY <1>5, <2>2 DEF Register
<1>6. ASSUME NEW t \in Thread, Adopt(t) PROVE Unheld'
  <2>1. \A u \in Thread \ {t} : threads'[u] = threads[u] /\ threads[u].pc \notin Locked
    BY <1>0, <1>6 DEF Adopt, LockExact, Locked
  <2>2. threads'[t].pc = "replaying"
    BY <1>0, <1>6 DEF Adopt, LocalState
  <2> QED BY <2>1, <2>2 DEF Locked
<1>7. ASSUME NEW t \in Thread, Replay(t) \/ Serve(t) \/ Unregister(t) PROVE Unheld'
  <2>1. CASE Replay(t)
    BY <1>0, <2>1 DEF Replay, LocalState
  <2>2. CASE Serve(t)
    BY <1>0, <2>2 DEF Serve, LocalState
  <2>3. CASE Unregister(t)
    BY <1>0, <2>3 DEF Unregister, LocalState
  <2> QED BY <1>7, <2>1, <2>2, <2>3
<1>8. ASSUME NEW t \in Thread, ReplayDone(t) PROVE Unheld'
  <2>1. cache'.client_session_id = cache.client_session_id
    BY <1>0, <1>8 DEF ReplayDone, ClientSessionState
  <2> QED BY <1>0, <1>8, <2>1 DEF ReplayDone, LocalState
<1>9. ASSUME NEW t \in Thread, NEW request \in Request, Send(t, request) PROVE Unheld'
  <2>1. CASE Ends(t)
    BY <1>1, <1>9, <2>1 DEF Send
  <2>2. CASE cache.client_session_id # Nil
    BY <1>0, <1>9, <2>2 DEF Send, LocalState
  <2> QED BY <1>9, <2>1, <2>2 DEF Send
<1>10. ASSUME NEW t \in Thread, Return(t) PROVE Unheld'
  <2>1. cache'.client_session_id = cache.client_session_id
    BY <1>0, <1>10 DEF Return, ClientSessionState
  <2> QED BY <1>0, <1>10, <2>1 DEF Return, Ends
<1>11. ASSUME NEW t \in Thread,
              ReplayRefused(t) \/ Connected(t) \/ DataOperation(t) \/ Refused(t) \/ Fail(t)
       PROVE Unheld'
  BY <1>1, <1>11 DEF ReplayRefused, Connected, DataOperation, Refused, Fail
<1>12. ASSUME NEW t \in Thread, Clear(t) PROVE Unheld'
  BY <1>0, <1>12 DEF Clear
<1>13. ASSUME NEW t \in Task, Shutdown(t) PROVE Unheld'
  BY <1>0, <1>13 DEF Shutdown, Resting, Thread
<1>14. CASE SessionsLost \/ StrayLapses
  BY <1>14 DEF SessionsLost, StrayLapses
<1> QED BY <1>2, <1>3, <1>4, <1>5, <1>6, <1>7, <1>8, <1>9, <1>10, <1>11, <1>12, <1>13, <1>14
           DEF Next, Step

\* The steps that leave everything the account looks at but threads[t].pc, which is
\* neither where a session waits to be adopted nor in a shutdown.
LEMMA Unaccounted ==
    ASSUME TypeOK, Accounted, NEW t \in Thread,
           threads[t].pc \notin {"registered"},
           \A u \in Thread \ {t} : threads'[u] = threads[u],
           threads'[t].pc \notin {"unregistering", "clearing"},
           cache'.client_session_id = cache.client_session_id,
           alive' \subseteq alive, upsets' \in {upsets, upsets + 1}, shutdowns' = shutdowns
    PROVE  Accounted'
<1>1. Kept \subseteq Kept'
  BY DEF Kept
<1>2. Leaving' \subseteq Leaving
  BY DEF Leaving
<1>3. Excess' \subseteq Excess
  BY <1>1, NoExcess
<1> QED BY <1>2, <1>3, AccountKept, UpsetsAssumption DEF TypeOK

\* Granting, giving up and releasing begin and end no session.
LEMMA GrantKeepsAlive ==
    ASSUME NEW s, NEW x, Grant(s, x) \/ Server!Leave(s, x, {}) \/ Server!Release(s, x)
    PROVE  alive' = alive
BY DEF Grant, Server!Join, Server!Claim, Server!Leave, Server!Release

\* Every step pays for the sessions it leaves behind.
LEMMA AccountStep ==
    ASSUME TypeOK, SessionKept, Unheld, Accounted, Next PROVE Accounted'
<1> USE DEF At
<1>0. /\ cache \in ClientSessionState /\ threads \in [Thread -> LocalState]
      /\ LockExact /\ Resting.pc = "idle" /\ EmptyCache.client_session_id = Nil
      /\ upsets \in Nat /\ shutdowns \in Nat /\ alive \subseteq Session
  BY RestingIdle, UpsetsAssumption DEF TypeOK, LockExact, EmptyCache, Server!TypeOK
<1>1. ASSUME NEW t \in Thread, Ends(t), threads[t].pc # "registered",
             cache'.client_session_id = cache.client_session_id,
             alive' = alive, upsets' \in {upsets, upsets + 1}, shutdowns' = shutdowns
      PROVE Accounted'
  <2>1. \A u \in Thread \ {t} : threads'[u] = threads[u]
    BY <1>0, <1>1 DEF Ends
  <2>2. threads'[t].pc = "idle"
    BY <1>0, <1>1 DEF Ends
  <2> QED BY <1>1, <2>1, <2>2, Unaccounted
<1>2. ASSUME NEW t \in Thread, TakeLock(t) \/ Renewed(t) PROVE Accounted'
  <2>1. \A u \in Thread \ {t} : threads'[u] = threads[u]
    BY <1>0, <1>2 DEF TakeLock, Renewed
  <2>2. threads'[t].pc \in {"registering", "renewing", "replaying", "ready"}
    <3>1. CASE TakeLock(t)
      BY <1>0, <3>1 DEF TakeLock, Resting
    <3>2. CASE Renewed(t) /\ threads[t].replay
      BY <1>0, <3>2 DEF Renewed, LocalState
    <3>3. CASE Renewed(t) /\ ~threads[t].replay
      BY <1>0, <3>3 DEF Renewed, LocalState
    <3> QED BY <1>2, <3>1, <3>2, <3>3
  <2>3. threads[t].pc # "registered" /\ UNCHANGED <<cache, upsets, shutdowns, alive>>
    BY <1>2 DEF TakeLock, Renewed, serverVars
  <2> QED BY <2>1, <2>2, <2>3, Unaccounted
<1>3. ASSUME NEW t \in Thread, SessionMissing(t) PROVE Accounted'
  <2>1. cache.client_session_id \notin alive
    BY <1>0, <1>3, NilAssumption DEF SessionMissing, SessionKept
  <2>2. \A u \in Thread \ {t} : threads'[u] = threads[u]
    BY <1>0, <1>3 DEF SessionMissing
  <2>3. threads'[t].pc = "registering" /\ threads[t].pc = "renewing"
    BY <1>0, <1>3 DEF SessionMissing, LocalState
  <2>4. Kept \cap alive \subseteq Kept' /\ Leaving' \subseteq Leaving
    BY <2>1, <2>2, <2>3 DEF Kept, Leaving
  <2>5. UNCHANGED <<alive, upsets, shutdowns>>
    BY <1>3 DEF SessionMissing, serverVars
  <2>6. Excess' \subseteq Excess
    BY <2>4, <2>5, NoExcess
  <2> QED BY <1>0, <2>4, <2>5, <2>6, AccountKept
<1>4. ASSUME NEW t \in Thread, Register(t) PROVE Accounted'
  <2>1. PICK s : /\ Server!Begin(s, {})
                 /\ threads' = [threads EXCEPT ![t].pc = "registered", ![t].session = s]
    BY <1>4 DEF Register
  <2>2. \A u \in Thread \ {t} : threads'[u] = threads[u]
    BY <1>0, <2>1
  <2>3. threads'[t].pc = "registered" /\ threads'[t].session = s /\ threads[t].pc = "registering"
    BY <1>0, <1>4, <2>1 DEF Register, LocalState
  <2>4. UNCHANGED <<cache, upsets, shutdowns>> /\ alive' = alive \cup {s}
    BY <1>4, <2>1 DEF Register, Server!Begin
  <2>5. Kept \subseteq Kept' /\ s \in Kept' /\ Leaving' \subseteq Leaving
    BY <2>2, <2>3, <2>4 DEF Kept, Leaving
  <2>6. Excess' \subseteq Excess
    BY <2>4, <2>5, NoExcess
  <2> QED BY <1>0, <2>4, <2>5, <2>6, AccountKept
<1>5. ASSUME NEW t \in Thread, Adopt(t) PROVE Accounted'
  <2>1. \A u \in Thread \ {t} : threads'[u] = threads[u]
    BY <1>0, <1>5 DEF Adopt
  <2>2. threads[t].pc = "registered" /\ threads'[t].pc = "replaying"
    BY <1>0, <1>5 DEF Adopt, LocalState
  <2>3. cache.client_session_id \notin alive /\ cache'.client_session_id = threads[t].session
    BY <1>0, <1>5, <2>2, NilAssumption DEF Adopt, ClientSessionState, Unheld
  <2>4. Kept \cap alive \subseteq Kept' /\ Leaving' \subseteq Leaving
    BY <2>1, <2>2, <2>3 DEF Kept, Leaving
  <2>5. UNCHANGED <<alive, upsets, shutdowns>>
    BY <1>5 DEF Adopt, serverVars
  <2>6. Excess' \subseteq Excess
    BY <2>4, <2>5, NoExcess
  <2> QED BY <1>0, <2>4, <2>5, <2>6, AccountKept
<1>6. ASSUME NEW t \in Thread, Replay(t) \/ Serve(t) PROVE Accounted'
  <2>1. \A u \in Thread \ {t} : threads'[u] = threads[u]
    BY <1>0, <1>6 DEF Replay, Serve
  <2>2. threads'[t].pc \in {"replaying", "served"} /\ threads[t].pc \in {"replaying", "sent"}
    BY <1>0, <1>6 DEF Replay, Serve, LocalState
  <2>3. alive' = alive
    BY <1>6, GrantKeepsAlive DEF Replay, Serve
  <2>4. UNCHANGED <<cache, upsets, shutdowns>>
    BY <1>6 DEF Replay, Serve
  <2> QED BY <2>1, <2>2, <2>3, <2>4, Unaccounted
<1>7. ASSUME NEW t \in Thread, ReplayDone(t) PROVE Accounted'
  <2>1. cache'.client_session_id = cache.client_session_id
    BY <1>0, <1>7 DEF ReplayDone, ClientSessionState
  <2>2. \A u \in Thread \ {t} : threads'[u] = threads[u]
    BY <1>0, <1>7 DEF ReplayDone
  <2>3. threads[t].pc = "replaying" /\ threads'[t].pc = "ready"
    BY <1>0, <1>7 DEF ReplayDone, LocalState
  <2>4. UNCHANGED <<alive, upsets, shutdowns>>
    BY <1>7 DEF ReplayDone, serverVars
  <2> QED BY <2>1, <2>2, <2>3, <2>4, Unaccounted
<1>8. ASSUME NEW t \in Thread, NEW request \in Request, Send(t, request) PROVE Accounted'
  <2>1. threads[t].pc = "ready" /\ UNCHANGED <<cache, upsets, shutdowns, alive>>
    BY <1>8 DEF Send, serverVars
  <2>2. CASE Ends(t)
    BY <1>1, <2>1, <2>2
  <2>3. CASE cache.client_session_id # Nil
    <3>1. \A u \in Thread \ {t} : threads'[u] = threads[u]
      BY <1>0, <1>8, <2>3 DEF Send
    <3>2. threads'[t].pc = "sent"
      BY <1>0, <1>8, <2>3 DEF Send, LocalState
    <3> QED BY <2>1, <3>1, <3>2, Unaccounted
  <2> QED BY <1>8, <2>2, <2>3 DEF Send
<1>9. ASSUME NEW t \in Thread, Return(t) PROVE Accounted'
  <2>1. cache'.client_session_id = cache.client_session_id
    BY <1>0, <1>9 DEF Return, ClientSessionState
  <2> QED BY <1>1, <1>9, <2>1 DEF Return, serverVars
<1>10. ASSUME NEW t \in Thread,
              ReplayRefused(t) \/ Connected(t) \/ DataOperation(t) \/ Refused(t)
       PROVE Accounted'
  BY <1>1, <1>10 DEF ReplayRefused, Connected, DataOperation, Refused, serverVars
<1>11. ASSUME NEW t \in Thread, Fail(t) PROVE Accounted'
  <2>1. UNCHANGED <<cache, alive, shutdowns>> /\ upsets' = upsets + 1 /\ Ends(t)
    BY <1>11 DEF Fail, Upset, serverVars
  <2>2. CASE threads[t].pc # "registered"
    BY <1>1, <2>1, <2>2
  <2>3. CASE threads[t].pc = "registered"
    <3>1. \A u \in Thread \ {t} : threads'[u] = threads[u]
      BY <1>0, <2>1 DEF Ends
    <3>2. threads'[t].pc = "idle"
      BY <1>0, <2>1 DEF Ends
    <3>3. Kept \subseteq Kept' \cup {threads[t].session} /\ Leaving' \subseteq Leaving
      BY <2>1, <3>1, <3>2 DEF Kept, Leaving
    <3>4. Excess' \subseteq Excess \cup {threads[t].session}
      BY <2>1, <3>3 DEF Excess
    <3>5. /\ IsFiniteSet(Excess') /\ Cardinality(Excess) \in Nat /\ Cardinality(Excess') \in Nat
          /\ Cardinality(Excess') <= Cardinality(Excess) + 1
      BY <3>4, GrowsByOne DEF Accounted
    <3>6. /\ IsFiniteSet(Leaving') /\ Cardinality(Leaving) \in Nat /\ Cardinality(Leaving') \in Nat
          /\ Cardinality(Leaving') <= Cardinality(Leaving)
      BY <3>3, FS_Subset, FS_CardinalityType DEF Accounted
    <3> QED BY <1>0, <2>1, <3>5, <3>6 DEF Accounted
  <2> QED BY <2>2, <2>3
<1>12. ASSUME NEW t \in Thread, Unregister(t) PROVE Accounted'
  <2>1. alive' \subseteq alive
    BY <1>12 DEF Unregister, Server!End, serverVars
  <2>2. UNCHANGED <<cache, shutdowns>> /\ upsets' \in {upsets, upsets + 1}
    BY <1>12 DEF Unregister, Upset
  <2>3. \A u \in Thread \ {t} : threads'[u] = threads[u]
    BY <1>0, <1>12 DEF Unregister
  <2>4. threads[t].pc = "unregistering" /\ threads'[t].pc = "clearing"
    BY <1>0, <1>12 DEF Unregister, LocalState
  <2>5. Kept \subseteq Kept' /\ Leaving' \subseteq Leaving
    BY <2>2, <2>3, <2>4 DEF Kept, Leaving
  <2>6. Excess' \subseteq Excess
    BY <2>1, <2>5, NoExcess
  <2> QED BY <1>0, <2>2, <2>5, <2>6, AccountKept
<1>13. ASSUME NEW t \in Thread, Clear(t) PROVE Accounted'
  <2>1. \A u \in Thread \ {t} : threads'[u] = threads[u]
    BY <1>0, <1>13 DEF Clear, Ends
  <2>2. threads[t].pc = "clearing" /\ threads'[t].pc = "idle"
    BY <1>0, <1>13 DEF Clear, Ends
  <2>3. UNCHANGED <<alive, upsets, shutdowns>>
    BY <1>13 DEF Clear, serverVars
  <2>4. /\ Kept \subseteq Kept' \cup {cache.client_session_id}
        /\ t \in Leaving /\ Leaving' \subseteq Leaving \ {t}
    BY <2>1, <2>2 DEF Kept, Leaving
  <2>5. Excess' \subseteq Excess \cup {cache.client_session_id}
    BY <2>3, <2>4 DEF Excess
  <2>6. /\ IsFiniteSet(Excess') /\ Cardinality(Excess) \in Nat /\ Cardinality(Excess') \in Nat
        /\ Cardinality(Excess') <= Cardinality(Excess) + 1
    BY <2>5, GrowsByOne DEF Accounted
  <2>7. /\ IsFiniteSet(Leaving') /\ Cardinality(Leaving) \in Nat /\ Cardinality(Leaving') \in Nat
        /\ Cardinality(Leaving') + 1 <= Cardinality(Leaving)
    BY <2>4, ShrinksByOne DEF Accounted
  <2> QED BY <1>0, <2>3, <2>6, <2>7 DEF Accounted
<1>14. ASSUME NEW t \in Task, Shutdown(t) PROVE Accounted'
  <2>0. t \in Thread /\ Renewer \in Thread /\ t # Renewer
    BY NilAssumption DEF Thread
  <2>1. UNCHANGED <<cache, alive, upsets>> /\ shutdowns' = shutdowns + 1
    BY <1>14 DEF Shutdown, serverVars
  <2>2. \A u \in Thread \ {t, Renewer} : threads'[u] = threads[u]
    BY <1>0, <1>14 DEF Shutdown
  <2>3. threads[t].pc = "idle" /\ threads'[Renewer].pc = "idle"
    BY <1>0, <1>14, <2>0 DEF Shutdown
  <2>4. /\ Kept \subseteq Kept' \cup {threads[Renewer].session}
        /\ Leaving' \subseteq Leaving \cup {t}
    BY <2>1, <2>2, <2>3 DEF Kept, Leaving
  <2>5. Excess' \subseteq Excess \cup {threads[Renewer].session}
    BY <2>1, <2>4 DEF Excess
  <2>6. /\ IsFiniteSet(Excess') /\ Cardinality(Excess) \in Nat /\ Cardinality(Excess') \in Nat
        /\ Cardinality(Excess') <= Cardinality(Excess) + 1
    BY <2>5, GrowsByOne DEF Accounted
  <2>7. /\ IsFiniteSet(Leaving') /\ Cardinality(Leaving) \in Nat /\ Cardinality(Leaving') \in Nat
        /\ Cardinality(Leaving') <= Cardinality(Leaving) + 1
    BY <2>4, GrowsByOne DEF Accounted
  <2> QED BY <1>0, <2>1, <2>6, <2>7 DEF Accounted
<1>15. CASE SessionsLost \/ StrayLapses
  <2>1. UNCHANGED <<cache, threads, shutdowns>> /\ upsets' \in {upsets, upsets + 1}
    BY <1>15 DEF SessionsLost, StrayLapses, Upset
  <2>2. alive' \subseteq alive
    BY <1>15 DEF SessionsLost, StrayLapses, Server!End
  <2>3. Kept' = Kept /\ Leaving' = Leaving
    BY <2>1 DEF Kept, Leaving
  <2>4. Excess' \subseteq Excess
    BY <2>2, <2>3, NoExcess
  <2> QED BY <1>0, <2>1, <2>3, <2>4, AccountKept
<1> QED BY <1>2, <1>3, <1>4, <1>5, <1>6, <1>7, <1>8, <1>9, <1>10, <1>11, <1>12, <1>13, <1>14, <1>15
           DEF Next, Step

\* What is accounted for bounds the live sessions: one of them at most is kept, since
\* the client has none while a task registers, and one task at a time does.
LEMMA AccountedBounds ==
    ASSUME TypeOK, Unheld, Accounted PROVE OneSession
<1>1. LockExact /\ upsets \in Nat /\ shutdowns \in Nat /\ Nil \notin alive
  BY UpsetsAssumption, NilAssumption DEF TypeOK, LockExact, Server!TypeOK
<1>2. PICK x : Kept \cap alive \subseteq {x}
  <2>1. CASE \E t \in Thread : threads[t].pc = "registered"
    <3>1. PICK t \in Thread : threads[t].pc = "registered"
      BY <2>1
    <3>2. \A u \in Thread : threads[u].pc = "registered" => u = t
      BY <1>1, <3>1 DEF LockExact, Locked
    <3>3. cache.client_session_id = Nil
      BY <3>1 DEF Unheld
    <3> QED BY <1>1, <3>2, <3>3 DEF Kept
  <2>2. CASE ~\E t \in Thread : threads[t].pc = "registered"
    BY <2>2 DEF Kept
  <2> QED BY <2>1, <2>2
<1>3. alive \subseteq Excess \cup {x}
  BY <1>2 DEF Excess
<1>4. /\ Cardinality(alive) <= Cardinality(Excess) + 1
      /\ Cardinality(alive) \in Nat /\ Cardinality(Excess) \in Nat
  BY <1>3, GrowsByOne DEF Accounted
<1>5. Cardinality(Leaving) \in Nat
  BY FS_CardinalityType DEF Accounted
<1> QED BY <1>1, <1>4, <1>5 DEF OneSession, Accounted

\* Tasks that find the session lost at once leave one live session, plus one at most for
\* every lost reply or dropped operation and two for every shutdown, for any number of
\* tasks (ensure_registered_session, shutdown).
THEOREM SessionsBounded == Spec => []OneSession
<1>1. Init => Unheld /\ Accounted
  <2> SUFFICES ASSUME Init PROVE Unheld /\ Accounted
    OBVIOUS
  <2>1. \A t \in Thread : threads[t].pc = "idle"
    BY RestingIdle DEF Init
  <2>2. Excess = {} /\ Leaving = {}
    BY <2>1 DEF Init, Server!Init, Excess, Leaving
  <2>3. upsets = 0 /\ shutdowns = 0
    BY DEF Init
  <2> QED BY <2>1, <2>2, <2>3, FS_EmptySet DEF Unheld, Accounted
<1>2. SessionInv /\ Unheld /\ Accounted /\ [Next]_vars => Unheld' /\ Accounted'
  <2> SUFFICES ASSUME SessionInv, Unheld, Accounted, [Next]_vars PROVE Unheld' /\ Accounted'
    OBVIOUS
  <2>1. CASE Next
    BY <2>1, UnheldStep, AccountStep DEF SessionInv
  <2>2. CASE UNCHANGED vars
    BY <2>2 DEF vars, Unheld, Accounted, Excess, Kept, Leaving
  <2> QED BY <2>1, <2>2
<1>3. SessionInv /\ Unheld /\ Accounted => OneSession
  BY AccountedBounds DEF SessionInv
<1> QED BY <1>1, <1>2, <1>3, SessionInvHolds, PTL DEF Spec

-----------------------------------------------------------------------------
(* What the client remembers against what its session holds.  The cache    *)
(* learns of an answer only after the controller has acted, and replays    *)
(* from a copy, so the two can drift apart.  The ways they can are Races.  *)

Granting  == {"attach", "enable"}
Releasing == {"detach", "disable"}

\* The controller has done what t asked for, and t does not know yet.
Answering(t, ops, x) ==
    At(t, "served") /\ threads[t].request[1] \in ops /\ threads[t].request[2] = x

BeingReleased == {x \in Thing : \E t \in Thread : Answering(t, Releasing, x)}

\* What the session of the client holds, or gave up at the request of a task that is
\* about to forget it.
Secured == Held(cache.client_session_id) \cup BeingReleased

\* A client that has a live session and no replay pending is right about what it
\* remembers: the session holds it.
RememberedHeld ==
    (cache.client_session_id \in alive /\ ~cache.session_needs_replay)
        => cache.desired \subseteq Secured

\* Something is released while another task waits to hear that it was granted: the
\* answers may then be taken in the other order.
Crossed ==
    \E t \in Thread, u \in Thread, x \in Thing :
        /\ Serve(t)
        /\ threads[t].request[1] \in Releasing
        /\ threads[t].request[2] = x
        /\ Answering(u, Granting, x)

\* A release is done and its answer does not arrive.
ReleaseUnanswered ==
    \E t \in Thread, x \in Thing : Answering(t, Releasing, x) /\ Fail(t)

\* The session ends after a grant and before its answer, which then is about a
\* session that is no more.
LostUnderGrant ==
    /\ cache.client_session_id \in alive
    /\ cache.client_session_id \notin alive'
    /\ \E t \in Thread, x \in Thing : Answering(t, Granting, x)

\* Shutdown empties the cache under operations that are under way.
Races == Crossed \/ ReleaseUnanswered \/ LostUnderGrant \/ \E t \in Task : Shutdown(t)

\* Every session the client knows of has begun, and a session that ended stays ended.
Known ==
    /\ alive \cap past = {}
    /\ cache.client_session_id \in {Nil} \cup alive \cup past
    /\ \A t \in Thread : threads[t].session \in {Nil} \cup alive \cup past

\* Sessions begin once and end once.
LEMMA ServerGrows ==
    ASSUME TypeOK, AskedFor, Next, alive \cap past = {}
    PROVE  /\ alive' \cap past' = {}
           /\ past \subseteq past'
           /\ alive \cup past \subseteq alive' \cup past'
<1>1. CASE Server!Next
  BY <1>1 DEF Server!Next, Server!End, Server!Begin, Server!Join, Server!Leave,
              Server!Claim, Server!Release
<1> QED BY <1>1, ServerSteps DEF serverVars

\* No step makes up a session: a task has it from the cache or from the controller, the
\* cache from a task.
LEMMA Provenance ==
    ASSUME TypeOK, Next
    PROVE  /\ cache'.client_session_id \in
                 {Nil, cache.client_session_id} \cup {threads[t].session : t \in Thread}
           /\ \A u \in Thread : threads'[u].session \in
                 {Nil, threads[u].session, cache.client_session_id} \cup alive'
<1> DEFINE Goal ==
      /\ cache'.client_session_id \in
            {Nil, cache.client_session_id} \cup {threads[t].session : t \in Thread}
      /\ \A u \in Thread : threads'[u].session \in
            {Nil, threads[u].session, cache.client_session_id} \cup alive'
<1> USE DEF At
<1>0. /\ cache \in ClientSessionState /\ threads \in [Thread -> LocalState]
      /\ Resting \in LocalState /\ Resting.session = Nil
      /\ EmptyCache.client_session_id = Nil
  BY RestingIdle DEF TypeOK, EmptyCache, Resting
<1>1. ASSUME NEW t \in Thread, Ends(t), cache'.client_session_id \in {Nil, cache.client_session_id}
      PROVE  Goal
  BY <1>0, <1>1 DEF Ends
<1>2. ASSUME NEW t \in Thread, TakeLock(t) PROVE Goal
  BY <1>0, <1>2 DEF TakeLock, Resting
<1>3. ASSUME NEW t \in Thread, Renewed(t) PROVE Goal
  <2>1. CASE threads[t].replay
    BY <1>0, <1>3, <2>1 DEF Renewed, LocalState
  <2>2. CASE ~threads[t].replay
    BY <1>0, <1>3, <2>2 DEF Renewed, LocalState
  <2> QED BY <2>1, <2>2
<1>4. ASSUME NEW t \in Thread, SessionMissing(t) PROVE Goal
  BY <1>0, <1>4 DEF SessionMissing, ClientSessionState, LocalState
<1>5. ASSUME NEW t \in Thread, Register(t) PROVE Goal
  <2>1. PICK s : /\ threads' = [threads EXCEPT ![t].pc = "registered", ![t].session = s]
                 /\ s \in alive'
    BY <1>5 DEF Register, Server!Begin
  <2>2. \A u \in Thread \ {t} : threads'[u] = threads[u]
    BY <1>0, <2>1
  <2>3. threads'[t].session = s
    BY <1>0, <2>1 DEF LocalState
  <2> QED BY <1>5, <2>1, <2>2, <2>3 DEF Register
<1>6. ASSUME NEW t \in Thread, Adopt(t) PROVE Goal
  <2>1. cache'.client_session_id = threads[t].session
    BY <1>0, <1>6 DEF Adopt, ClientSessionState
  <2>2. \A u \in Thread : threads'[u].session = threads[u].session
    BY <1>0, <1>6 DEF Adopt, LocalState
  <2> QED BY <2>1, <2>2
<1>7. ASSUME NEW t \in Thread, Replay(t) PROVE Goal
  BY <1>0, <1>7 DEF Replay, LocalState
<1>8. ASSUME NEW t \in Thread, ReplayDone(t) PROVE Goal
  <2>1. cache'.client_session_id = cache.client_session_id
    BY <1>0, <1>8 DEF ReplayDone, ClientSessionState
  <2> QED BY <1>0, <1>8, <2>1 DEF ReplayDone, LocalState
<1>9. ASSUME NEW t \in Thread, NEW request \in Request, Send(t, request) PROVE Goal
  <2>1. CASE cache.client_session_id = Nil
    BY <1>1, <1>9, <2>1 DEF Send
  <2>2. CASE cache.client_session_id # Nil
    BY <1>0, <1>9, <2>2 DEF Send, LocalState
  <2> QED BY <2>1, <2>2
<1>10. ASSUME NEW t \in Thread, Serve(t) \/ Unregister(t) PROVE Goal
  <2>1. CASE Serve(t)
    BY <1>0, <2>1 DEF Serve, LocalState
  <2>2. CASE Unregister(t)
    BY <1>0, <2>2 DEF Unregister, LocalState
  <2> QED BY <1>10, <2>1, <2>2
<1>11. ASSUME NEW t \in Thread, Return(t) PROVE Goal
  <2>1. cache'.client_session_id = cache.client_session_id
    BY <1>0, <1>11 DEF Return, ClientSessionState
  <2> QED BY <1>1, <1>11, <2>1 DEF Return
<1>12. ASSUME NEW t \in Thread,
              ReplayRefused(t) \/ Connected(t) \/ DataOperation(t) \/ Refused(t) \/ Fail(t)
       PROVE Goal
  BY <1>1, <1>12 DEF ReplayRefused, Connected, DataOperation, Refused, Fail
<1>13. ASSUME NEW t \in Thread, Clear(t) PROVE Goal
  BY <1>0, <1>1, <1>13 DEF Clear
<1>14. ASSUME NEW t \in Task, Shutdown(t) PROVE Goal
  <2>1. \A u \in Thread : threads'[u].session \in {Nil, threads[u].session, cache.client_session_id}
    BY <1>0, <1>14 DEF Shutdown, Resting, Thread
  <2> QED BY <1>14, <2>1 DEF Shutdown
<1>15. CASE SessionsLost \/ StrayLapses
  BY <1>15 DEF SessionsLost, StrayLapses
<1> QED BY <1>2, <1>3, <1>4, <1>5, <1>6, <1>7, <1>8, <1>9, <1>10, <1>11, <1>12, <1>13, <1>14, <1>15
           DEF Next, Step

\* So the client knows nothing but sessions that have begun, and looks for one only when
\* it has none.
LEMMA KnownHolds == Spec => [](Known /\ Unheld)
<1>1. Init => Known /\ Unheld
  BY RestingIdle DEF Init, Server!Init, Known, Unheld, EmptyCache, Resting
<1>2. SessionInv /\ Known /\ Unheld /\ [Next]_vars => Known' /\ Unheld'
  <2> SUFFICES ASSUME SessionInv, Known, Unheld, [Next]_vars PROVE Known' /\ Unheld'
    OBVIOUS
  <2>1. CASE Next
    <3>1. Unheld'
      BY <2>1, UnheldStep DEF SessionInv
    <3>2. /\ alive' \cap past' = {}
          /\ alive \cup past \subseteq alive' \cup past'
      BY <2>1, ServerGrows DEF SessionInv, Known
    <3> QED BY <2>1, <3>1, <3>2, Provenance DEF SessionInv, Known
  <2>2. CASE UNCHANGED vars
    BY <2>2 DEF vars, Known, Unheld
  <2> QED BY <2>1, <2>2
<1> QED BY <1>1, <1>2, SessionInvHolds, PTL DEF Spec

\* What a replay that goes on has secured, of what is remembered meanwhile.
ReplayCovers ==
    \A t \in Thread :
        (/\ At(t, "replaying")
         /\ threads[t].session = cache.client_session_id
         /\ cache.client_session_id \in alive)
            => cache.desired \subseteq threads[t].todo \cup Secured

\* What holds as long as there are no races: no shutdown is under way, a request is on
\* its way to the client's session or to one that is over, and what a task is about to
\* hear that it was granted the session still holds.
Calm ==
    /\ \A t \in Thread : threads[t].pc \notin {"unregistering", "clearing"}
    /\ \A t \in Thread : At(t, "sent") =>
          /\ threads[t].session # Nil
          /\ threads[t].session \in {cache.client_session_id} \cup past
    /\ \A t \in Thread, x \in Thing : Answering(t, Granting, x) =>
          /\ cache.client_session_id \in alive
          /\ x \in Held(cache.client_session_id)
    /\ ReplayCovers
    /\ RememberedHeld

\* What a session is granted it holds, and nobody's holdings change otherwise.
LEMMA GrantAdds ==
    ASSUME TypeOK, NEW s \in Session, NEW x \in Thing, Grant(s, x)
    PROVE  /\ UNCHANGED <<alive, past>>
           /\ x \in Held(s)'
           /\ \A r \in Session : Held(r)' = IF r = s THEN Held(r) \cup {x} ELSE Held(r)
<1>1. /\ joined \in [Session -> SUBSET Space]
      /\ owner \in [BindingKey -> Session \cup {Nil}]
      /\ s \notin {}
  BY DEF TypeOK, Server!TypeOK
<1>2. CASE x \in Space /\ Server!Join(s, x, {})
  <2>1. /\ UNCHANGED <<alive, past>>
        /\ joined' = [joined EXCEPT ![s] = @ \cup {x}]
        /\ owner' = owner
    BY <1>1, <1>2 DEF Server!Join, Server!JoinedAfter, Server!OwnerAfter
  <2> QED BY <1>1, <1>2, <2>1 DEF Held
<1>3. CASE x \in BindingKey /\ Server!Claim(s, x)
  <2>1. UNCHANGED <<alive, past, joined>> /\ owner' = [owner EXCEPT ![x] = s]
    BY <1>3 DEF Server!Claim
  <2>2. owner[x] \in {Nil, s}
    BY <1>3 DEF Server!Claim
  <2>3. Nil \notin Session
    BY NilAssumption
  <2> QED BY <1>1, <1>3, <2>1, <2>2, <2>3 DEF Held
<1> QED BY <1>2, <1>3 DEF Grant

\* A release takes nothing else from anybody.
LEMMA ReleaseTakes ==
    ASSUME TypeOK, NEW s \in Session, NEW x \in Thing,
           \/ x \in Space /\ Server!Leave(s, x, {})
           \/ x \in BindingKey /\ Server!Release(s, x)
    PROVE  /\ UNCHANGED <<alive, past>>
           /\ x \notin Held(s)'
           /\ \A r \in Session : Held(r) \subseteq Held(r)' \cup {x} /\ Held(r)' \subseteq Held(r)
<1>1. /\ joined \in [Session -> SUBSET Space]
      /\ owner \in [BindingKey -> Session \cup {Nil}]
  BY DEF TypeOK, Server!TypeOK
<1>2. CASE x \in Space /\ Server!Leave(s, x, {})
  <2>1. /\ UNCHANGED <<alive, past>>
        /\ joined' = [joined EXCEPT ![s] = @ \ {x}]
        /\ owner' = owner
    BY <1>1, <1>2 DEF Server!Leave, Server!JoinedAfter, Server!OwnerAfter
  <2>2. \A k \in BindingKey : k # x
    BY <1>2, ThingAssumption
  <2> QED BY <1>1, <1>2, <2>1, <2>2 DEF Held
<1>3. CASE x \in BindingKey /\ Server!Release(s, x)
  <2>1. x \notin Space
    BY <1>3, ThingAssumption
  <2> QED BY <1>1, <1>3, <2>1, NilAssumption DEF Server!Release, Held
<1> QED BY <1>2, <1>3

\* The end of sessions takes nothing from the others.
LEMMA EndSpares ==
    ASSUME TypeOK, NEW S \in SUBSET alive, Server!End(S)
    PROVE  /\ alive' = alive \ S
           /\ past' = past \cup S
           /\ \A r \in Session : Held(r)' \subseteq Held(r)
           /\ \A r \in Session \ S : Held(r) \subseteq Held(r)'
<1>1. /\ joined \in [Session -> SUBSET Space]
      /\ owner \in [BindingKey -> Session \cup {Nil}]
      /\ alive \subseteq Session
  BY DEF TypeOK, Server!TypeOK
<1> QED BY <1>1, NilAssumption DEF Server!End, Server!JoinedAfter, Server!OwnerAfter, Held

\* Steps of a task that change neither cache nor controller and end no release.
LEMMA CalmQuiet ==
    ASSUME TypeOK, Calm, NEW t \in Thread,
           UNCHANGED <<cache, serverVars>>,
           \A u \in Thread \ {t} : threads'[u] = threads[u],
           \A x \in Thing : ~Answering(t, Releasing, x),
           threads'[t].pc \notin {"unregistering", "clearing", "served"},
           threads'[t].pc = "sent" =>
              threads'[t].session # Nil /\ threads'[t].session = cache.client_session_id,
           threads'[t].pc = "replaying" => threads'[t].todo = cache.desired
    PROVE  Calm'
<1>1. /\ cache' = cache /\ alive' = alive /\ past' = past
      /\ \A s : Held(s)' = Held(s)
  BY DEF serverVars, Held
<1>2. \A u \in Thread : At(u, "served")' => u # t
  BY DEF At
<1>3. \A ops, x : \A u \in Thread \ {t} : Answering(u, ops, x)' <=> Answering(u, ops, x)
  BY DEF Answering, At
<1>4. BeingReleased \subseteq BeingReleased'
  BY <1>3 DEF BeingReleased
<1>5. Secured \subseteq Secured'
  BY <1>1, <1>4 DEF Secured
<1>6. \A u \in Thread : threads'[u].pc \notin {"unregistering", "clearing"}
  BY DEF Calm
<1>7. \A u \in Thread : At(u, "sent")' =>
         threads'[u].session # Nil /\ threads'[u].session \in {cache'.client_session_id} \cup past'
  BY <1>1 DEF Calm, At
<1>8. \A u \in Thread, x \in Thing : Answering(u, Granting, x)' =>
         cache'.client_session_id \in alive' /\ x \in Held(cache.client_session_id)'
  BY <1>1, <1>2, <1>3 DEF Calm, Answering
<1>9. ReplayCovers'
  <2> SUFFICES ASSUME NEW u \in Thread, At(u, "replaying")',
                      threads'[u].session = cache'.client_session_id,
                      cache'.client_session_id \in alive'
               PROVE  cache'.desired \subseteq threads'[u].todo \cup Secured'
    BY DEF ReplayCovers
  <2>1. CASE u = t
    BY <1>1, <2>1 DEF At
  <2>2. CASE u # t
    BY <1>1, <1>5, <2>2 DEF Calm, ReplayCovers, At
  <2> QED BY <2>1, <2>2
<1>10. RememberedHeld'
  BY <1>1, <1>5 DEF Calm, RememberedHeld
<1> QED BY <1>1, <1>6, <1>7, <1>8, <1>9, <1>10 DEF Calm

\* Without a session there is nothing to be wrong about.
LEMMA CalmWithout ==
    ASSUME cache'.client_session_id \notin alive',
           \A t \in Thread : threads'[t].pc \notin {"unregistering", "clearing"},
           \A t \in Thread, x \in Thing : ~Answering(t, Granting, x)',
           \A t \in Thread : At(t, "sent")' =>
              /\ threads'[t].session # Nil
              /\ threads'[t].session \in {cache'.client_session_id} \cup past'
    PROVE  Calm'
BY DEF Calm, ReplayCovers, RememberedHeld

\* The steps of a task that looks for a session.
LEMMA CalmLocked ==
    ASSUME SessionInv, Known, Known', Unheld, Calm, NEW t \in Thread,
           \/ TakeLock(t) \/ Renewed(t) \/ SessionMissing(t) \/ Register(t) \/ Adopt(t)
           \/ Replay(t) \/ ReplayRefused(t) \/ ReplayDone(t)
    PROVE  Calm'
<1>0. /\ TypeOK
      /\ cache \in ClientSessionState /\ threads \in [Thread -> LocalState]
      /\ Resting.pc = "idle" /\ Resting \in LocalState
      /\ LockExact
      /\ alive \subseteq Session /\ past \subseteq Session
      /\ Nil \notin Session /\ Nil \notin alive
  BY RestingIdle, NilAssumption DEF SessionInv, TypeOK, LockExact, Server!TypeOK
<1>1. ASSUME NEW u \in Thread, ~At(u, "served"), NEW ops, NEW x
      PROVE  ~Answering(u, ops, x)
  BY <1>1 DEF Answering
<1>2. CASE TakeLock(t)
  <2>1. threads'[t].pc \in {"registering", "renewing"}
    BY <1>0, <1>2 DEF TakeLock, Resting
  <2> QED BY <1>0, <1>1, <1>2, <2>1, CalmQuiet DEF TakeLock, At
<1>3. CASE Renewed(t)
  <2>1. CASE threads[t].replay
    <3>1. threads'[t].pc = "replaying" /\ threads'[t].todo = cache.desired
      BY <1>0, <1>3, <2>1 DEF Renewed, LocalState
    <3> QED BY <1>0, <1>1, <1>3, <2>1, <3>1, CalmQuiet DEF Renewed, At
  <2>2. CASE ~threads[t].replay
    <3>1. threads'[t].pc = "ready"
      BY <1>0, <1>3, <2>2 DEF Renewed, LocalState
    <3> QED BY <1>0, <1>1, <1>3, <2>2, <3>1, CalmQuiet DEF Renewed, At
  <2> QED BY <2>1, <2>2
<1>4. CASE SessionMissing(t)
  <2>1. /\ cache'.client_session_id = Nil
        /\ UNCHANGED <<alive, past>>
        /\ \A u \in Thread \ {t} : threads'[u] = threads[u]
        /\ threads'[t].pc = "registering"
    BY <1>0, <1>4 DEF SessionMissing, ClientSessionState, LocalState, serverVars
  <2>2. cache.client_session_id \in {threads[t].session, Nil} /\ threads[t].session \notin alive
    BY <1>4 DEF SessionInv, SessionKept, SessionMissing, At
  <2>3. cache.client_session_id \notin alive
    BY <1>0, <2>2
  <2>4. \A u \in Thread : At(u, "sent")' =>
           threads'[u].session # Nil /\ threads'[u].session \in past'
    BY <2>1, <2>3 DEF Calm, At, Known
  <2>5. \A u \in Thread, x \in Thing : ~Answering(u, Granting, x)'
    BY <2>1, <2>3 DEF Calm, Answering, At
  <2>6. \A u \in Thread : threads'[u].pc \notin {"unregistering", "clearing"}
    BY <2>1 DEF Calm
  <2> QED BY <1>0, <2>1, <2>4, <2>5, <2>6, CalmWithout
<1>5. CASE Register(t)
  <2>1. PICK s \in Session : /\ s \notin alive \cup past
                             /\ alive' = alive \cup {s}
                             /\ past' = past
                             /\ threads' = [threads EXCEPT ![t].pc = "registered",
                                                           ![t].session = s]
    <3> DEFINE s == CHOOSE id \in Session : id \notin alive \cup past
    <3>1. \E id \in Session : id \notin alive \cup past
      BY <1>0, <1>5 DEF Register, Server!TypeOK
    <3>2. s \in Session
      BY <3>1
    <3>3. /\ Server!Begin(s, {})
          /\ threads' = [threads EXCEPT ![t].pc = "registered", ![t].session = s]
      BY <1>5 DEF Register
    <3> HIDE DEF s
    <3> QED BY <3>2, <3>3 DEF Server!Begin
  <2>2. /\ \A u \in Thread \ {t} : threads'[u] = threads[u]
        /\ threads'[t].pc = "registered"
        /\ past' = past
    BY <1>0, <2>1 DEF LocalState
  <2>3. cache' = cache /\ cache.client_session_id = Nil
    BY <1>5 DEF Register, Unheld, At
  <2>4. \A u \in Thread, x \in Thing : ~Answering(u, Granting, x)'
    BY <1>0, <2>2, <2>3 DEF Calm, Answering, At
  <2>5. \A u \in Thread : At(u, "sent")' =>
           threads'[u].session # Nil /\ threads'[u].session \in past'
    BY <2>2, <2>3 DEF Calm, At
  <2>6. \A u \in Thread : threads'[u].pc \notin {"unregistering", "clearing"}
    BY <2>2 DEF Calm
  <2>7. Nil \notin alive'
    BY <1>0, <2>1
  <2> QED BY <2>3, <2>4, <2>5, <2>6, <2>7, CalmWithout
<1>6. CASE Adopt(t)
  <2>1. cache.client_session_id = Nil
    BY <1>6 DEF Adopt, Unheld, At
  <2>2. /\ cache'.client_session_id = threads[t].session
        /\ cache'.session_needs_replay
        /\ cache'.desired = cache.desired
        /\ UNCHANGED <<alive, past>>
        /\ \A u \in Thread \ {t} : threads'[u] = threads[u]
        /\ threads'[t].pc = "replaying"
        /\ threads'[t].todo = cache.desired
    BY <1>0, <1>6 DEF Adopt, ClientSessionState, LocalState, serverVars
  <2>3. \A u \in Thread \ {t} : ~At(u, "replaying")
    BY <1>0, <1>6 DEF Adopt, At, LockExact, Locked
  <2>4. ReplayCovers' /\ RememberedHeld'
    BY <2>2, <2>3 DEF ReplayCovers, RememberedHeld, At
  <2>5. \A u \in Thread, x \in Thing : ~Answering(u, Granting, x)'
    BY <1>0, <2>1, <2>2 DEF Calm, Answering, At
  <2>6. \A u \in Thread : At(u, "sent")' =>
           threads'[u].session # Nil /\ threads'[u].session \in past'
    BY <2>1, <2>2 DEF Calm, At
  <2>7. \A u \in Thread : threads'[u].pc \notin {"unregistering", "clearing"}
    BY <2>2 DEF Calm
  <2> QED BY <2>4, <2>5, <2>6, <2>7 DEF Calm
<1>7. CASE Replay(t)
  <2>1. PICK x \in NextToReplay(t) : /\ Grant(threads[t].session, x)
                                     /\ threads' = [threads EXCEPT ![t].todo = @ \ {x}]
    BY <1>7 DEF Replay
  <2> DEFINE s == threads[t].session
  <2>2. x \in Thing /\ threads[t].todo \subseteq Thing
    BY <1>0 DEF NextToReplay, LocalState
  <2>3. s \in alive
    BY <2>1 DEF Grant, Server!Join, Server!Claim
  <2>4. /\ UNCHANGED <<alive, past>>
        /\ x \in Held(s)'
        /\ \A r \in Session : Held(r) \subseteq Held(r)'
    BY <1>0, <2>1, <2>2, <2>3, GrantAdds
  <2>5. /\ \A u \in Thread \ {t} : threads'[u] = threads[u]
        /\ threads'[t].pc = threads[t].pc
        /\ threads'[t].session = threads[t].session
        /\ threads'[t].todo = threads[t].todo \ {x}
        /\ threads'[t].request = threads[t].request
    BY <1>0, <2>1 DEF LocalState
  <2>6. cache' = cache /\ At(t, "replaying")
    BY <1>7 DEF Replay
  <2>7. \A ops, y : \A u \in Thread : Answering(u, ops, y)' <=> Answering(u, ops, y)
    BY <2>5 DEF Answering, At
  <2>8. cache.client_session_id \in alive => Secured \subseteq Secured'
    BY <1>0, <2>4, <2>6, <2>7 DEF Secured, BeingReleased
  <2>9. \A u \in Thread : threads'[u].pc \notin {"unregistering", "clearing"}
    BY <2>5 DEF Calm
  <2>10. \A u \in Thread : At(u, "sent")' =>
           /\ threads'[u].session # Nil
           /\ threads'[u].session \in {cache'.client_session_id} \cup past'
    BY <2>4, <2>5, <2>6 DEF Calm, At
  <2>11. \A u \in Thread, y \in Thing : Answering(u, Granting, y)' =>
            cache'.client_session_id \in alive' /\ y \in Held(cache.client_session_id)'
    BY <1>0, <2>4, <2>6, <2>7 DEF Calm
  <2>12. ReplayCovers'
    <3> SUFFICES ASSUME NEW u \in Thread, At(u, "replaying")',
                        threads'[u].session = cache'.client_session_id,
                        cache'.client_session_id \in alive'
                 PROVE  cache'.desired \subseteq threads'[u].todo \cup Secured'
      BY DEF ReplayCovers
    <3>1. cache.desired \subseteq threads[u].todo \cup Secured
      BY <2>4, <2>5, <2>6 DEF Calm, ReplayCovers, At
    <3>2. CASE u = t
      <4>1. x \in Secured'
        BY <2>4, <2>5, <2>6, <3>2 DEF Secured
      <4> QED BY <2>4, <2>5, <2>6, <2>8, <3>1, <3>2, <4>1
    <3>3. CASE u # t
      BY <2>4, <2>5, <2>6, <2>8, <3>1, <3>3
    <3> QED BY <3>2, <3>3
  <2>13. RememberedHeld'
    BY <2>4, <2>6, <2>8 DEF Calm, RememberedHeld
  <2> QED BY <2>6, <2>9, <2>10, <2>11, <2>12, <2>13 DEF Calm
<1>8. CASE ReplayRefused(t)
  BY <1>0, <1>1, <1>8, CalmQuiet DEF ReplayRefused, Ends, At
<1>9. CASE ReplayDone(t)
  <2>1. /\ cache'.client_session_id = cache.client_session_id
        /\ cache'.desired = cache.desired
        /\ UNCHANGED <<alive, past, serverVars>>
        /\ \A u \in Thread \ {t} : threads'[u] = threads[u]
        /\ threads'[t].pc = "ready"
    BY <1>0, <1>9 DEF ReplayDone, ClientSessionState, LocalState, serverVars
  <2>2. \A s : Held(s)' = Held(s)
    BY <2>1 DEF serverVars, Held
  <2>3. At(t, "replaying") /\ threads[t].todo = {}
    BY <1>9 DEF ReplayDone
  <2>4. \A ops, y : \A u \in Thread : Answering(u, ops, y)' <=> Answering(u, ops, y)
    BY <2>1, <2>3 DEF Answering, At
  <2>5. Secured' = Secured
    BY <2>1, <2>2, <2>4 DEF Secured, BeingReleased
  <2>6. cache.client_session_id \in alive => cache.desired \subseteq Secured
    BY <1>0, <2>3 DEF SessionInv, SessionKept, At, Calm, ReplayCovers
  <2>7. ReplayCovers' /\ RememberedHeld'
    BY <2>1, <2>5, <2>6 DEF ReplayCovers, RememberedHeld
  <2>8. \A u \in Thread : threads'[u].pc \notin {"unregistering", "clearing"}
    BY <2>1 DEF Calm
  <2>9. \A u \in Thread : At(u, "sent")' =>
           /\ threads'[u].session # Nil
           /\ threads'[u].session \in {cache'.client_session_id} \cup past'
    BY <2>1 DEF Calm, At
  <2>10. \A u \in Thread, y \in Thing : Answering(u, Granting, y)' =>
            cache'.client_session_id \in alive' /\ y \in Held(cache.client_session_id)'
    BY <2>1, <2>2, <2>4 DEF Calm
  <2> QED BY <2>1, <2>7, <2>8, <2>9, <2>10 DEF Calm
<1> QED BY <1>2, <1>3, <1>4, <1>5, <1>6, <1>7, <1>8, <1>9

\* The controller grants what a task asked for.
LEMMA CalmGrant ==
    ASSUME SessionInv, Known, Calm, NEW t \in Thread, NEW x \in Thing, NEW s \in Session,
           s = threads[t].session, x = threads[t].request[2],
           threads[t].request[1] \in Granting, At(t, "sent"), Grant(s, x), Serve(t)
    PROVE  Calm'
<1>1. /\ TypeOK
      /\ threads \in [Thread -> LocalState]
      /\ alive \subseteq Session /\ past \subseteq Session
      /\ s \in alive /\ s \notin past
  BY DEF SessionInv, TypeOK, Server!TypeOK, Known, Grant, Server!Join, Server!Claim
<1>2. s = cache.client_session_id
  BY <1>1 DEF Calm
<1>3. /\ cache' = cache
      /\ \A u \in Thread \ {t} : threads'[u] = threads[u]
      /\ threads'[t].pc = "served"
      /\ threads'[t].request = threads[t].request
  BY <1>1 DEF Serve, LocalState
<1>4. /\ alive' = alive /\ past' = past
      /\ x \in Held(s)'
      /\ \A r \in Session : Held(r) \subseteq Held(r)'
  BY <1>1, GrantAdds
<1>5. \A y : \A u \in Thread :
         /\ Answering(u, Releasing, y) => Answering(u, Releasing, y)'
         /\ Answering(u, Granting, y)' => Answering(u, Granting, y) \/ y = x
  BY <1>3 DEF Answering, At, Granting
<1>6. Secured \subseteq Secured'
  BY <1>2, <1>3, <1>4, <1>5 DEF Secured, BeingReleased
<1>7. \A u \in Thread : threads'[u].pc \notin {"unregistering", "clearing"}
  BY <1>3 DEF Calm
<1>8. \A u \in Thread : At(u, "sent")' =>
         threads'[u].session # Nil /\ threads'[u].session \in {cache'.client_session_id} \cup past'
  BY <1>3, <1>4 DEF Calm, At
<1>9. \A u \in Thread, y \in Thing : Answering(u, Granting, y)' =>
         cache'.client_session_id \in alive' /\ y \in Held(cache.client_session_id)'
  BY <1>1, <1>2, <1>3, <1>4, <1>5 DEF Calm
<1>10. ReplayCovers' /\ RememberedHeld'
  BY <1>3, <1>4, <1>6 DEF Calm, ReplayCovers, RememberedHeld, At
<1> QED BY <1>3, <1>7, <1>8, <1>9, <1>10 DEF Calm

\* The controller takes back what a task asked it to, and nobody else waits to hear of it.
LEMMA CalmRelease ==
    ASSUME SessionInv, Known, Calm, NEW t \in Thread, NEW x \in Thing, NEW s \in Session,
           s = threads[t].session, x = threads[t].request[2],
           threads[t].request[1] \in Releasing, At(t, "sent"), Serve(t),
           \/ x \in Space /\ Server!Leave(s, x, {})
           \/ x \in BindingKey /\ Server!Release(s, x),
           \A u \in Thread : ~Answering(u, Granting, x)
    PROVE  Calm'
<1>1. /\ TypeOK
      /\ threads \in [Thread -> LocalState]
      /\ alive \subseteq Session /\ past \subseteq Session
      /\ s \in alive /\ s \notin past
  BY DEF SessionInv, TypeOK, Server!TypeOK, Known, Server!Leave, Server!Release
<1>2. s = cache.client_session_id
  BY <1>1 DEF Calm
<1>3. /\ cache' = cache
      /\ \A u \in Thread \ {t} : threads'[u] = threads[u]
      /\ threads'[t].pc = "served"
      /\ threads'[t].request = threads[t].request
  BY <1>1 DEF Serve, LocalState
<1>4. /\ alive' = alive /\ past' = past
      /\ \A r \in Session : Held(r) \subseteq Held(r)' \cup {x}
  BY <1>1, ReleaseTakes
<1>5. \A y : \A u \in Thread :
         /\ Answering(u, Releasing, y) => Answering(u, Releasing, y)'
         /\ Answering(u, Granting, y)' => Answering(u, Granting, y)
  BY <1>3 DEF Answering, At, Granting, Releasing
<1>6. Answering(t, Releasing, x)'
  BY <1>3 DEF Answering, At
<1>7. x \in BeingReleased' /\ BeingReleased \subseteq BeingReleased'
  BY <1>5, <1>6 DEF BeingReleased
<1>8. Secured \subseteq Secured'
  BY <1>2, <1>3, <1>4, <1>7 DEF Secured
<1>9. \A u \in Thread : threads'[u].pc \notin {"unregistering", "clearing"}
  BY <1>3 DEF Calm
<1>10. \A u \in Thread : At(u, "sent")' =>
         threads'[u].session # Nil /\ threads'[u].session \in {cache'.client_session_id} \cup past'
  BY <1>3, <1>4 DEF Calm, At
<1>11. \A u \in Thread, y \in Thing : Answering(u, Granting, y)' =>
         cache'.client_session_id \in alive' /\ y \in Held(cache.client_session_id)'
  BY <1>1, <1>2, <1>3, <1>4, <1>5 DEF Calm
<1>12. ReplayCovers' /\ RememberedHeld'
  BY <1>3, <1>4, <1>8 DEF Calm, ReplayCovers, RememberedHeld, At
<1> QED BY <1>3, <1>9, <1>10, <1>11, <1>12 DEF Calm

\* A task takes its answer.
LEMMA CalmReturn ==
    ASSUME SessionInv, Calm, NEW t \in Thread, Return(t)
    PROVE  Calm'
<1> DEFINE op == threads[t].request[1]
           x  == threads[t].request[2]
<1>1. /\ cache \in ClientSessionState /\ threads \in [Thread -> LocalState]
      /\ Resting.pc = "idle"
      /\ At(t, "served")
      /\ threads[t].request \in Request
  BY RestingIdle DEF SessionInv, TypeOK, AskedFor, Return, At
<1>2. x \in Thing /\ op \in Granting \cup Releasing
  BY <1>1 DEF Request, Thing, Granting, Releasing
<1>3. /\ cache'.client_session_id = cache.client_session_id
      /\ cache'.session_needs_replay = cache.session_needs_replay
      /\ cache'.desired = IF op \in Granting THEN cache.desired \cup {x}
                                             ELSE cache.desired \ Forgotten(x)
      /\ UNCHANGED serverVars
      /\ \A u \in Thread \ {t} : threads'[u] = threads[u]
      /\ threads'[t].pc = "idle"
  BY <1>1 DEF Return, Ends, ClientSessionState, Granting
<1>4. /\ alive' = alive /\ past' = past
      /\ \A s : Held(s)' = Held(s)
  BY <1>3 DEF serverVars, Held
<1> HIDE DEF op, x
<1>5. \A ops, y : \A u \in Thread : Answering(u, ops, y)' <=> (u # t /\ Answering(u, ops, y))
  BY <1>3 DEF Answering, At
<1>6. BeingReleased \ {x} \subseteq BeingReleased'
      /\ (op \in Granting => BeingReleased \subseteq BeingReleased')
  <2>1. \A y : Answering(t, Releasing, y) => y = x /\ op \in Releasing
    BY DEF Answering, op, x
  <2>2. Granting \cap Releasing = {}
    BY DEF Granting, Releasing
  <2> QED BY <1>5, <2>1, <2>2 DEF BeingReleased
<1>7. ASSUME NEW S, cache.client_session_id \in alive, cache.desired \subseteq S \cup Secured
      PROVE  cache'.desired \subseteq S \cup Secured'
  <2>1. CASE op \in Granting
    <3>1. Answering(t, Granting, x)
      BY <1>1, <2>1 DEF Answering, op, x
    <3>2. x \in Held(cache.client_session_id)
      BY <1>2, <3>1 DEF Calm
    <3> QED BY <1>3, <1>4, <1>6, <1>7, <2>1, <3>2 DEF Secured
  <2>2. CASE op \notin Granting
    BY <1>3, <1>4, <1>6, <1>7, <2>2 DEF Secured, Forgotten
  <2> QED BY <2>1, <2>2
<1>8. \A u \in Thread : threads'[u].pc \notin {"unregistering", "clearing"}
  BY <1>3 DEF Calm
<1>9. \A u \in Thread : At(u, "sent")' =>
         threads'[u].session # Nil /\ threads'[u].session \in {cache'.client_session_id} \cup past'
  BY <1>3, <1>4 DEF Calm, At
<1>10. \A u \in Thread, y \in Thing : Answering(u, Granting, y)' =>
         cache'.client_session_id \in alive' /\ y \in Held(cache.client_session_id)'
  BY <1>3, <1>4, <1>5 DEF Calm
<1>11. ReplayCovers'
  <2> SUFFICES ASSUME NEW u \in Thread, At(u, "replaying")',
                      threads'[u].session = cache'.client_session_id,
                      cache'.client_session_id \in alive'
               PROVE  cache'.desired \subseteq threads'[u].todo \cup Secured'
    BY DEF ReplayCovers
  <2>1. threads'[u] = threads[u]
    BY <1>3 DEF At
  <2> QED BY <1>3, <1>4, <1>7, <2>1 DEF Calm, ReplayCovers, At
<1>12. RememberedHeld'
  <2>1. ASSUME cache.client_session_id \in alive, ~cache.session_needs_replay
        PROVE  cache'.desired \subseteq Secured'
    <3>1. cache.desired \subseteq {} \cup Secured
      BY <2>1 DEF Calm, RememberedHeld
    <3> QED BY <1>7, <2>1, <3>1
  <2> QED BY <1>3, <1>4, <2>1 DEF RememberedHeld
<1> QED BY <1>3, <1>8, <1>9, <1>10, <1>11, <1>12 DEF Calm

\* Sessions end, the client's while no task waits to hear of a grant.
LEMMA CalmLoss ==
    ASSUME SessionInv, Known, Known', Calm, ~LostUnderGrant,
           NEW S \in SUBSET alive, Server!End(S), UNCHANGED <<cache, threads>>
    PROVE  Calm'
<1>1. /\ TypeOK /\ alive \subseteq Session /\ Nil \notin alive
      /\ alive' = alive \ S
      /\ past' = past \cup S
      /\ \A r \in Session \ S : Held(r) \subseteq Held(r)'
  BY EndSpares, NilAssumption DEF SessionInv, TypeOK, Server!TypeOK
<1>2. \A ops, y : \A u \in Thread : Answering(u, ops, y)' <=> Answering(u, ops, y)
  BY DEF Answering, At
<1>3. \A u \in Thread : threads'[u].pc \notin {"unregistering", "clearing"}
  BY DEF Calm
<1>4. \A u \in Thread : At(u, "sent")' =>
         threads'[u].session # Nil /\ threads'[u].session \in {cache'.client_session_id} \cup past'
  BY <1>1 DEF Calm, At
<1>5. CASE cache.client_session_id \in alive'
  <2>1. /\ cache.client_session_id \in alive
        /\ Held(cache.client_session_id) \subseteq Held(cache.client_session_id)'
    BY <1>1, <1>5
  <2>2. Secured \subseteq Secured'
    BY <1>2, <2>1 DEF Secured, BeingReleased
  <2>3. \A u \in Thread, y \in Thing : Answering(u, Granting, y)' =>
           cache'.client_session_id \in alive' /\ y \in Held(cache.client_session_id)'
    BY <1>2, <1>5, <2>1 DEF Calm
  <2>4. ReplayCovers' /\ RememberedHeld'
    BY <2>1, <2>2 DEF Calm, ReplayCovers, RememberedHeld, At
  <2> QED BY <1>3, <1>4, <2>3, <2>4 DEF Calm
<1>6. CASE cache.client_session_id \notin alive'
  <2>1. \A u \in Thread, y \in Thing : ~Answering(u, Granting, y)
    BY <1>6 DEF LostUnderGrant, Calm
  <2> QED BY <1>2, <1>3, <1>4, <1>6, <2>1, CalmWithout
<1> QED BY <1>5, <1>6

\* Every step without a race.
LEMMA CalmStep ==
    ASSUME SessionInv, Known, Known', Unheld, Calm, Next, ~Races PROVE Calm'
<1>0. /\ TypeOK
      /\ cache \in ClientSessionState /\ threads \in [Thread -> LocalState]
      /\ Resting.pc = "idle" /\ alive \subseteq Session
  BY RestingIdle DEF SessionInv, TypeOK, Server!TypeOK
<1>1. ASSUME NEW u \in Thread, ~At(u, "served"), NEW ops, NEW x
      PROVE  ~Answering(u, ops, x)
  BY <1>1 DEF Answering
<1>2. ASSUME NEW t \in Thread, Connected(t) \/ DataOperation(t) \/ Refused(t)
      PROVE  Calm'
  BY <1>0, <1>1, <1>2, CalmQuiet DEF Connected, DataOperation, Refused, Ends, At
<1>3. ASSUME NEW t \in Thread, Fail(t)
      PROVE  Calm'
  <2>1. \A x \in Thing : ~Answering(t, Releasing, x)
    BY <1>3 DEF Races, ReleaseUnanswered
  <2> QED BY <1>0, <1>3, <2>1, CalmQuiet DEF Fail, Ends
<1>4. ASSUME NEW t \in Thread, NEW request \in Request, Send(t, request)
      PROVE  Calm'
  <2>1. CASE cache.client_session_id = Nil
    BY <1>0, <1>1, <1>4, <2>1, CalmQuiet DEF Send, Ends, At
  <2>2. CASE cache.client_session_id # Nil
    <3>1. /\ \A u \in Thread \ {t} : threads'[u] = threads[u]
          /\ threads'[t].pc = "sent"
          /\ threads'[t].session = cache.client_session_id
      BY <1>0, <1>4, <2>2 DEF Send, LocalState
    <3> QED BY <1>0, <1>1, <1>4, <2>2, <3>1, CalmQuiet DEF Send, At
  <2> QED BY <2>1, <2>2
<1>5. ASSUME NEW t \in Thread, Serve(t)
      PROVE  Calm'
  <2> DEFINE s == threads[t].session
             x == threads[t].request[2]
             op == threads[t].request[1]
  <2>1. At(t, "sent") /\ threads[t].request \in Request
    BY <1>5 DEF Serve, SessionInv, AskedFor, At
  <2>2. /\ x \in Thing
        /\ op \in {"attach", "detach"} => x \in Space
        /\ op \in {"enable", "disable"} => x \in BindingKey
    BY <2>1 DEF Request, Thing
  <2>3. CASE op \in Granting /\ Grant(s, x)
    <3>1. s \in Session
      BY <1>0, <2>3 DEF Grant, Server!Join, Server!Claim
    <3> QED BY <1>5, <2>1, <2>2, <2>3, <3>1, CalmGrant
  <2>4. CASE \/ op = "detach" /\ Server!Leave(s, x, {})
             \/ op = "disable" /\ Server!Release(s, x)
    <3>1. s \in Session /\ op \in Releasing
      BY <1>0, <2>4 DEF Server!Leave, Server!Release, Releasing
    <3>2. \A u \in Thread : ~Answering(u, Granting, x)
      BY <1>5, <2>2, <3>1 DEF Races, Crossed
    <3>3. \/ x \in Space /\ Server!Leave(s, x, {})
          \/ x \in BindingKey /\ Server!Release(s, x)
      BY <2>2, <2>4
    <3> HIDE DEF s, x, op
    <3> QED BY <1>5, <2>1, <2>2, <3>1, <3>2, <3>3, CalmRelease DEF s, x, op
  <2> QED BY <1>5, <2>3, <2>4 DEF Serve, Granting
<1>6. ASSUME NEW t \in Thread, Return(t)
      PROVE  Calm'
  BY <1>6, CalmReturn
<1>7. ASSUME NEW t \in Thread
      PROVE  ~Unregister(t) /\ ~Clear(t)
  BY DEF Unregister, Clear, At, Calm
<1>8. CASE SessionsLost
  <2>1. PICK lost \in SUBSET alive : Server!End(lost)
    BY <1>8 DEF SessionsLost
  <2> QED BY <1>8, <2>1, CalmLoss DEF SessionsLost, Races
<1>9. CASE StrayLapses
  <2>1. Strays \in SUBSET alive
    BY DEF Strays
  <2> QED BY <1>9, <2>1, CalmLoss DEF StrayLapses, Races
<1>10. \A t \in Task : ~Shutdown(t)
  BY DEF Races
<1> QED BY <1>2, <1>3, <1>4, <1>5, <1>6, <1>7, <1>8, <1>9, <1>10, CalmLocked
        DEF Next, Step

\* Without a race, calm lasts.
LEMMA CalmHolds == Spec /\ [][~Races]_vars => []Calm
<1>1. Init => Calm
  <2> SUFFICES ASSUME Init PROVE Calm
    OBVIOUS
  <2>1. /\ \A t \in Thread : threads[t].pc = "idle"
        /\ alive = {}
    BY RestingIdle DEF Init, Server!Init
  <2> QED BY <2>1 DEF Calm, At, Answering, ReplayCovers, RememberedHeld
<1>2. /\ SessionInv /\ Known /\ Unheld /\ Known' /\ Calm
      /\ [Next]_vars /\ [~Races]_vars
      => Calm'
  <2> SUFFICES ASSUME SessionInv, Known, Unheld, Known', Calm, [Next]_vars, [~Races]_vars
               PROVE  Calm'
    OBVIOUS
  <2>1. CASE Next /\ ~Races
    BY <2>1, CalmStep
  <2>2. CASE UNCHANGED vars
    BY <2>2 DEF vars, serverVars, Calm, At, Answering, ReplayCovers, RememberedHeld, Secured,
                BeingReleased, Held
  <2> QED BY <2>1, <2>2
<1> QED BY <1>1, <1>2, SessionInvHolds, KnownHolds, PTL DEF Spec

\* The client is right about what its session holds whenever it believes the replay is
\* over (ensure_registered_session, remember_attached_space, forget_attached_space and the
\* functions of the bindings), unless one of Races has happened: for any number of tasks,
\* losses and replays, these four are the only ways its memory can come to claim more than
\* the controller grants.
THEOREM RightUnlessRaced == Spec /\ [][~Races]_vars => []RememberedHeld
<1>1. Calm => RememberedHeld
  BY DEF Calm
<1> QED BY <1>1, CalmHolds, PTL
-----------------------------------------------------------------------------
(* The other direction: what the session holds against what the client     *)
(* remembers, and the bindings it remembers without their space.           *)

\* What a task is about to hear that it was granted.
BeingGranted == {x \in Thing : \E t \in Thread : Answering(t, Granting, x)}

\* Whatever the session of the client holds is remembered, or about to be.
HeldRemembered ==
    cache.client_session_id \in alive
        => Held(cache.client_session_id) \subseteq cache.desired \cup BeingGranted

\* A binding is remembered with its space, or the space is about to be remembered.
OrphansAnswered ==
    \A k \in BindingKey : k \in cache.desired => k.space \in cache.desired \cup BeingGranted

\* Something is granted again while another task waits to hear of its release.
Regranted ==
    \E t \in Thread, x \in BeingReleased :
        /\ At(t, "sent")
        /\ threads[t].request[1] \in Granting
        /\ threads[t].request[2] = x
        /\ Serve(t)

\* An operation is done and its answer does not arrive.
Unanswered == \E t \in Thread : At(t, "served") /\ Fail(t)

\* The session ends between an operation and its answer.
LostUnderAnswer ==
    /\ cache.client_session_id \in alive
    /\ cache.client_session_id \notin alive'
    /\ \E t \in Thread : At(t, "served")

\* A replay is about to grant, from its copy, what a task is about to forget.
ReplayStale ==
    \E t \in Thread, x \in BeingReleased :
        At(t, "replaying") /\ Forgotten(x) \cap threads[t].todo # {}

Drifts == Crossed \/ Regranted \/ Unanswered \/ LostUnderAnswer \/ \E t \in Task : Shutdown(t)

\* Sessions that are over hold nothing, and nobody holds a binding without its space.
ServerTidy ==
    /\ \A s \in Session : s \notin alive => Held(s) = {}
    /\ \A k \in BindingKey : owner[k] # Nil => k.space \in joined[owner[k]]

\* The controller keeps its books tidy.
LEMMA ServerTidyStep ==
    ASSUME TypeOK, AskedFor, ServerTidy, Next PROVE ServerTidy'
<1>0. /\ joined \in [Session -> SUBSET Space]
      /\ owner \in [BindingKey -> Session \cup {Nil}]
      /\ Nil \notin Session
      /\ alive \subseteq Session
  BY NilAssumption DEF TypeOK, Server!TypeOK
<1>1. /\ \A s \in Session : s \notin alive => joined[s] = {}
      /\ \A k \in BindingKey : owner[k] # Nil =>
            owner[k] \in alive /\ k.space \in joined[owner[k]]
  BY <1>0 DEF ServerTidy, Held
<1>2. ASSUME \A s \in Session : s \notin alive' => joined'[s] = {},
             \A k \in BindingKey : owner'[k] # Nil =>
                owner'[k] \in alive' /\ k.space \in joined'[owner'[k]]
      PROVE  ServerTidy'
  BY <1>0, <1>2 DEF ServerTidy, Held
<1>3. ASSUME NEW S \in SUBSET alive, Server!End(S)
      PROVE  ServerTidy'
  BY <1>0, <1>1, <1>2, <1>3 DEF Server!End, Server!JoinedAfter, Server!OwnerAfter
<1>4. ASSUME NEW S \in SUBSET alive, NEW s \in Session, Server!Begin(s, S)
      PROVE  ServerTidy'
  BY <1>0, <1>1, <1>2, <1>4 DEF Server!Begin, Server!JoinedAfter, Server!OwnerAfter
<1>5. ASSUME NEW S \in SUBSET alive, NEW s \in Session, NEW sp \in Space, Server!Join(s, sp, S)
      PROVE  ServerTidy'
  BY <1>0, <1>1, <1>2, <1>5 DEF Server!Join, Server!JoinedAfter, Server!OwnerAfter
<1>6. ASSUME NEW S \in SUBSET alive, NEW s \in Session, NEW sp \in Space, Server!Leave(s, sp, S)
      PROVE  ServerTidy'
  BY <1>0, <1>1, <1>2, <1>6 DEF Server!Leave, Server!JoinedAfter, Server!OwnerAfter
<1>7. ASSUME NEW s \in Session, NEW k \in BindingKey, Server!Claim(s, k) \/ Server!Release(s, k)
      PROVE  ServerTidy'
  BY <1>0, <1>1, <1>2, <1>7 DEF Server!Claim, Server!Release
<1>8. CASE UNCHANGED serverVars
  BY <1>8 DEF serverVars, ServerTidy, Held
<1> QED BY <1>3, <1>4, <1>5, <1>6, <1>7, <1>8, ServerSteps DEF Server!Next

\* A replay that goes on only grants what is still remembered.
ReplaysRemembered ==
    \A t \in Thread :
        (/\ At(t, "replaying")
         /\ threads[t].session = cache.client_session_id
         /\ cache.client_session_id \in alive)
            => threads[t].todo \subseteq cache.desired

\* The invariant behind both, as long as nothing drifts: what a task is about to forget
\* the session does not hold, and a session that waits to be adopted holds nothing.
Exact ==
    /\ HeldRemembered
    /\ OrphansAnswered
    /\ ReplaysRemembered
    /\ \A t \in Thread, x \in Thing : Answering(t, Releasing, x) =>
          /\ cache.client_session_id \in alive
          /\ x \notin Held(cache.client_session_id)
    /\ \A t \in Thread : At(t, "registered") =>
          threads[t].session \in Session /\ Held(threads[t].session) = {}

\* Steps that neither begin nor end a session, nor act on what one holds.
LEMMA ExactQuiet ==
    ASSUME TypeOK, Exact, NEW t \in Thread,
           cache'.client_session_id = cache.client_session_id,
           cache'.desired = cache.desired,
           UNCHANGED serverVars,
           \A u \in Thread \ {t} : threads'[u] = threads[u],
           ~At(t, "served"),
           threads'[t].pc \notin {"served", "registered"},
           threads'[t].pc = "replaying" => threads'[t].todo \subseteq cache.desired
    PROVE  Exact'
<1>1. /\ alive' = alive
      /\ \A s : Held(s)' = Held(s)
  BY DEF serverVars, Held
<1>2. \A ops, x : \A u \in Thread : Answering(u, ops, x)' <=> Answering(u, ops, x)
  BY DEF Answering, At
<1>3. BeingGranted' = BeingGranted
  BY <1>2 DEF BeingGranted
<1>4. HeldRemembered' /\ OrphansAnswered'
  BY <1>1, <1>3 DEF Exact, HeldRemembered, OrphansAnswered
<1>5. ReplaysRemembered'
  BY <1>1 DEF Exact, ReplaysRemembered, At
<1>6. \A u \in Thread, x \in Thing : Answering(u, Releasing, x)' =>
         cache'.client_session_id \in alive' /\ x \notin Held(cache.client_session_id)'
  BY <1>1, <1>2 DEF Exact
<1>7. \A u \in Thread : At(u, "registered")' =>
         threads'[u].session \in Session /\ Held(threads[u].session)' = {}
  BY <1>1 DEF Exact, At
<1> QED BY <1>4, <1>5, <1>6, <1>7 DEF Exact

\* The client is without a session, or has a new one that holds nothing.
LEMMA ExactFresh ==
    ASSUME OrphansAnswered, cache'.desired = cache.desired,
           \A t \in Thread : ~At(t, "served"),
           \A t \in Thread : ~At(t, "served")',
           cache'.client_session_id \in alive' =>
              /\ Held(cache.client_session_id)' = {}
              /\ \A t \in Thread : At(t, "replaying")' => threads'[t].todo = cache.desired,
           \A t \in Thread : At(t, "registered")' =>
              threads'[t].session \in Session /\ Held(threads[t].session)' = {}
    PROVE  Exact'
<1>1. BeingGranted = {}
  BY DEF BeingGranted, Answering
<1>2. \A t \in Thread : \A ops, x : ~Answering(t, ops, x)'
  BY DEF Answering
<1>3. OrphansAnswered'
  BY <1>1 DEF OrphansAnswered
<1> QED BY <1>2, <1>3 DEF Exact, HeldRemembered, ReplaysRemembered

\* While the session is lost nobody waits for an answer.
LEMMA NobodyServed ==
    ASSUME SessionInv, Calm, Exact, cache.client_session_id \notin alive
    PROVE  \A t \in Thread : ~At(t, "served")
<1> SUFFICES ASSUME NEW t \in Thread, At(t, "served") PROVE FALSE
  OBVIOUS
<1>1. threads[t].request \in Request
  BY DEF SessionInv, AskedFor, At
<1>2. /\ threads[t].request[2] \in Thing
      /\ threads[t].request[1] \in Granting \cup Releasing
  BY <1>1 DEF Request, Thing, Granting, Releasing
<1> QED BY <1>2 DEF Calm, Exact, Answering

\* The steps of a task that looks for a session.
LEMMA ExactLocked ==
    ASSUME SessionInv, Known, Unheld, ServerTidy, Calm, Exact, ~ReplayStale,
           NEW t \in Thread,
           \/ TakeLock(t) \/ Renewed(t) \/ SessionMissing(t) \/ Register(t) \/ Adopt(t)
           \/ Replay(t) \/ ReplayRefused(t) \/ ReplayDone(t)
    PROVE  Exact'
<1>0. /\ TypeOK
      /\ cache \in ClientSessionState /\ threads \in [Thread -> LocalState]
      /\ Resting.pc = "idle" /\ Resting \in LocalState
      /\ LockExact
      /\ alive \subseteq Session /\ past \subseteq Session
      /\ Nil \notin Session /\ Nil \notin alive
  BY RestingIdle, NilAssumption DEF SessionInv, TypeOK, LockExact, Server!TypeOK
<1>2. CASE TakeLock(t)
  <2>1. threads'[t].pc \in {"registering", "renewing"}
    BY <1>0, <1>2 DEF TakeLock, Resting
  <2> QED BY <1>0, <1>2, <2>1, ExactQuiet DEF TakeLock, At
<1>3. CASE Renewed(t)
  <2>1. CASE threads[t].replay
    <3>1. threads'[t].pc = "replaying" /\ threads'[t].todo = cache.desired
      BY <1>0, <1>3, <2>1 DEF Renewed, LocalState
    <3> QED BY <1>0, <1>3, <2>1, <3>1, ExactQuiet DEF Renewed, At
  <2>2. CASE ~threads[t].replay
    <3>1. threads'[t].pc = "ready"
      BY <1>0, <1>3, <2>2 DEF Renewed, LocalState
    <3> QED BY <1>0, <1>3, <2>2, <3>1, ExactQuiet DEF Renewed, At
  <2> QED BY <2>1, <2>2
<1>4. CASE SessionMissing(t)
  <2>1. /\ cache'.client_session_id = Nil
        /\ cache'.desired = cache.desired
        /\ UNCHANGED serverVars
        /\ \A u \in Thread \ {t} : threads'[u] = threads[u]
        /\ threads'[t].pc = "registering"
        /\ At(t, "renewing")
    BY <1>0, <1>4 DEF SessionMissing, ClientSessionState, LocalState
  <2>2. cache.client_session_id \notin alive
    BY <1>0, <1>4 DEF SessionInv, SessionKept, SessionMissing, At
  <2>3. \A u \in Thread : ~At(u, "served")
    BY <2>2, NobodyServed
  <2>4. \A u \in Thread : ~At(u, "served")'
    BY <2>1, <2>3 DEF At
  <2>5. \A u \in Thread : ~At(u, "registered")'
    BY <1>0, <2>1 DEF At, LockExact, Locked
  <2>6. Nil \notin alive'
    BY <1>0, <2>1 DEF serverVars
  <2> QED BY <2>1, <2>3, <2>4, <2>5, <2>6, ExactFresh DEF Exact
<1>5. CASE Register(t)
  <2>1. \E id \in Session : id \notin alive \cup past
    BY <1>0, <1>5 DEF Register
  <2>2. (CHOOSE id \in Session : id \notin alive \cup past) \in Session
    BY <2>1
  <2>3. PICK s \in Session :
           /\ Server!Begin(s, {})
           /\ threads' = [threads EXCEPT ![t].pc = "registered", ![t].session = s]
    BY <1>5, <2>2 DEF Register
  <2>4. /\ \A u \in Thread \ {t} : threads'[u] = threads[u]
        /\ threads'[t].pc = "registered" /\ threads'[t].session = s
    BY <1>0, <2>3 DEF LocalState
  <2>5. /\ alive' = alive \cup {s}
        /\ Held(s)' = {}
    <3>1. /\ joined \in [Session -> SUBSET Space]
          /\ owner \in [BindingKey -> Session \cup {Nil}]
          /\ s \notin alive /\ Held(s) = {}
      BY <1>0, <2>3 DEF TypeOK, Server!TypeOK, Server!Begin, ServerTidy
    <3>2. joined' = joined /\ owner' = owner /\ alive' = alive \cup {s}
      BY <2>3, <3>1 DEF Server!Begin, Server!JoinedAfter, Server!OwnerAfter
    <3> QED BY <3>1, <3>2 DEF Held
  <2>6. cache' = cache /\ cache.client_session_id = Nil /\ At(t, "registering")
    BY <1>5 DEF Register, Unheld, At
  <2>7. \A u \in Thread : ~At(u, "served")
    BY <1>0, <2>6, NobodyServed
  <2>8. \A u \in Thread : ~At(u, "served")'
    BY <2>4, <2>7 DEF At
  <2>9. \A u \in Thread : At(u, "registered")' => u = t
    BY <1>0, <2>4, <2>6 DEF At, LockExact, Locked
  <2>10. Nil \notin alive'
    BY <1>0, <2>3, <2>5
  <2> QED BY <1>0, <2>3, <2>4, <2>5, <2>6, <2>7, <2>8, <2>9, <2>10, ExactFresh DEF Exact
<1>6. CASE Adopt(t)
  <2>1. /\ cache'.client_session_id = threads[t].session
        /\ cache'.desired = cache.desired
        /\ UNCHANGED serverVars
        /\ \A u \in Thread \ {t} : threads'[u] = threads[u]
        /\ threads'[t].pc = "replaying"
        /\ threads'[t].todo = cache.desired
        /\ At(t, "registered")
    BY <1>0, <1>6 DEF Adopt, ClientSessionState, LocalState
  <2>2. \A r : Held(r)' = Held(r)
    BY <2>1 DEF serverVars, Held
  <2>6. Held(cache.client_session_id)' = {}
    BY <2>1, <2>2 DEF Exact
  <2>3. \A u \in Thread : ~At(u, "served")
    BY <1>0, <2>1, NobodyServed DEF Unheld, At
  <2>4. \A u \in Thread : ~At(u, "served")'
    BY <2>1, <2>3 DEF At
  <2>5. \A u \in Thread : ~At(u, "registered")' /\ (At(u, "replaying")' => u = t)
    BY <1>0, <2>1 DEF At, LockExact, Locked
  <2> QED BY <2>1, <2>3, <2>4, <2>5, <2>6, ExactFresh DEF Exact
<1>7. CASE Replay(t)
  <2>1. PICK x \in NextToReplay(t) : /\ Grant(threads[t].session, x)
                                     /\ threads' = [threads EXCEPT ![t].todo = @ \ {x}]
    BY <1>7 DEF Replay
  <2> DEFINE s == threads[t].session
  <2>2. x \in Thing /\ x \in threads[t].todo
    BY <1>0 DEF NextToReplay, LocalState
  <2>3. s \in alive
    BY <2>1 DEF Grant, Server!Join, Server!Claim
  <2>4. /\ UNCHANGED <<alive, past>>
        /\ \A r \in Session : Held(r)' = IF r = s THEN Held(r) \cup {x} ELSE Held(r)
    BY <1>0, <2>1, <2>2, <2>3, GrantAdds
  <2>5. /\ \A u \in Thread \ {t} : threads'[u] = threads[u]
        /\ threads'[t].pc = threads[t].pc
        /\ threads'[t].session = threads[t].session
        /\ threads'[t].todo = threads[t].todo \ {x}
        /\ threads'[t].request = threads[t].request
    BY <1>0, <2>1 DEF LocalState
  <2>6. cache' = cache /\ At(t, "replaying")
    BY <1>7 DEF Replay
  <2>7. \A ops, y : \A u \in Thread : Answering(u, ops, y)' <=> Answering(u, ops, y)
    BY <2>5 DEF Answering, At
  <2>8. BeingGranted' = BeingGranted
    BY <2>7 DEF BeingGranted
  <2>9. cache.client_session_id = s => x \in cache.desired
    BY <2>2, <2>3, <2>6 DEF Exact, ReplaysRemembered
  <2>10. HeldRemembered' /\ OrphansAnswered'
    BY <1>0, <2>4, <2>6, <2>8, <2>9 DEF Exact, HeldRemembered, OrphansAnswered
  <2>11. ReplaysRemembered'
    BY <2>4, <2>5, <2>6 DEF Exact, ReplaysRemembered, At
  <2>12. \A u \in Thread, y \in Thing : Answering(u, Releasing, y)' =>
            cache'.client_session_id \in alive' /\ y \notin Held(cache.client_session_id)'
    <3> SUFFICES ASSUME NEW u \in Thread, NEW y \in Thing, Answering(u, Releasing, y)
                 PROVE  cache'.client_session_id \in alive' /\ y \notin Held(cache.client_session_id)'
      BY <2>7
    <3>1. y \in BeingReleased /\ y \in Forgotten(y)
      BY DEF BeingReleased, Forgotten
    <3>2. y # x
      BY <2>2, <2>6, <3>1 DEF ReplayStale
    <3> QED BY <1>0, <2>4, <2>6, <3>2 DEF Exact
  <2>13. \A u \in Thread : ~At(u, "registered")'
    BY <1>0, <2>5, <2>6 DEF At, LockExact, Locked
  <2> QED BY <2>10, <2>11, <2>12, <2>13 DEF Exact
<1>8. CASE ReplayRefused(t)
  BY <1>0, <1>8, ExactQuiet DEF ReplayRefused, Ends, At
<1>9. CASE ReplayDone(t)
  <2>1. /\ cache'.client_session_id = cache.client_session_id
        /\ cache'.desired = cache.desired
        /\ UNCHANGED serverVars
        /\ \A u \in Thread \ {t} : threads'[u] = threads[u]
        /\ threads'[t].pc = "ready"
    BY <1>0, <1>9 DEF ReplayDone, ClientSessionState, LocalState
  <2> QED BY <1>0, <1>9, <2>1, ExactQuiet DEF ReplayDone, At
<1> QED BY <1>2, <1>3, <1>4, <1>5, <1>6, <1>7, <1>8, <1>9

\* The controller grants what a task asked for, and nobody waits to hear of its release.
LEMMA ExactGrant ==
    ASSUME SessionInv, Known, Unheld, Calm, Exact,
           NEW t \in Thread, NEW x \in Thing, NEW s \in Session,
           s = threads[t].session, x = threads[t].request[2],
           threads[t].request[1] \in Granting, At(t, "sent"), Grant(s, x), Serve(t),
           x \notin BeingReleased
    PROVE  Exact'
<1>1. /\ TypeOK
      /\ threads \in [Thread -> LocalState]
      /\ alive \subseteq Session /\ past \subseteq Session
      /\ s \in alive /\ s \notin past
  BY DEF SessionInv, TypeOK, Server!TypeOK, Known, Grant, Server!Join, Server!Claim
<1>2. s = cache.client_session_id /\ s # Nil
  BY <1>1 DEF Calm
<1>3. /\ cache' = cache
      /\ \A u \in Thread \ {t} : threads'[u] = threads[u]
      /\ threads'[t].pc = "served"
      /\ threads'[t].request = threads[t].request
  BY <1>1 DEF Serve, LocalState
<1>4. /\ alive' = alive /\ past' = past
      /\ \A r \in Session : Held(r)' = IF r = s THEN Held(r) \cup {x} ELSE Held(r)
  BY <1>1, GrantAdds
<1>5. \A y : \A u \in Thread :
         /\ Answering(u, Granting, y) => Answering(u, Granting, y)'
         /\ Answering(u, Releasing, y)' => Answering(u, Releasing, y)
  BY <1>3 DEF Answering, At, Granting, Releasing
<1>6. Answering(t, Granting, x)'
  BY <1>3 DEF Answering, At
<1>7. x \in BeingGranted' /\ BeingGranted \subseteq BeingGranted'
  BY <1>5, <1>6 DEF BeingGranted
<1>8. HeldRemembered' /\ OrphansAnswered'
  BY <1>2, <1>3, <1>4, <1>7 DEF Exact, HeldRemembered, OrphansAnswered
<1>9. ReplaysRemembered'
  BY <1>3, <1>4 DEF Exact, ReplaysRemembered, At
<1>10. \A u \in Thread, y \in Thing : Answering(u, Releasing, y)' =>
          cache'.client_session_id \in alive' /\ y \notin Held(cache.client_session_id)'
  BY <1>1, <1>2, <1>3, <1>4, <1>5 DEF Exact, BeingReleased
<1>11. \A u \in Thread : ~At(u, "registered")'
  BY <1>2, <1>3 DEF Unheld, At
<1> QED BY <1>3, <1>8, <1>9, <1>10, <1>11 DEF Exact

\* The controller takes back what a task asked it to, and no replay grants it again.
LEMMA ExactRelease ==
    ASSUME SessionInv, Known, Unheld, Calm, Exact,
           NEW t \in Thread, NEW x \in Thing, NEW s \in Session,
           s = threads[t].session, x = threads[t].request[2],
           threads[t].request[1] \in Releasing, At(t, "sent"), Serve(t),
           \/ x \in Space /\ Server!Leave(s, x, {})
           \/ x \in BindingKey /\ Server!Release(s, x)
    PROVE  Exact'
<1>1. /\ TypeOK
      /\ threads \in [Thread -> LocalState]
      /\ alive \subseteq Session /\ past \subseteq Session
      /\ s \in alive /\ s \notin past
  BY DEF SessionInv, TypeOK, Server!TypeOK, Known, Server!Leave, Server!Release
<1>2. s = cache.client_session_id /\ s # Nil
  BY <1>1 DEF Calm
<1>3. /\ cache' = cache
      /\ \A u \in Thread \ {t} : threads'[u] = threads[u]
      /\ threads'[t].pc = "served"
      /\ threads'[t].request = threads[t].request
  BY <1>1 DEF Serve, LocalState
<1>4. /\ alive' = alive
      /\ x \notin Held(s)'
      /\ \A r \in Session : Held(r)' \subseteq Held(r)
  BY <1>1, ReleaseTakes
<1>5. \A y : \A u \in Thread :
         /\ Answering(u, Granting, y)' <=> Answering(u, Granting, y)
         /\ Answering(u, Releasing, y)' => Answering(u, Releasing, y) \/ y = x
  BY <1>3 DEF Answering, At, Granting, Releasing
<1>6. BeingGranted' = BeingGranted
  BY <1>5 DEF BeingGranted
<1>7. HeldRemembered' /\ OrphansAnswered'
  BY <1>2, <1>3, <1>4, <1>6 DEF Exact, HeldRemembered, OrphansAnswered
<1>8. ReplaysRemembered'
  BY <1>3, <1>4 DEF Exact, ReplaysRemembered, At
<1>9. \A u \in Thread, y \in Thing : Answering(u, Releasing, y)' =>
         cache'.client_session_id \in alive' /\ y \notin Held(cache.client_session_id)'
  BY <1>1, <1>2, <1>3, <1>4, <1>5 DEF Exact
<1>10. \A u \in Thread : ~At(u, "registered")'
  BY <1>2, <1>3 DEF Unheld, At
<1> QED BY <1>3, <1>7, <1>8, <1>9, <1>10 DEF Exact

\* A task takes its answer, and no replay under way knows better.
LEMMA ExactReturn ==
    ASSUME SessionInv, ServerTidy, Calm, Exact, ~ReplayStale, NEW t \in Thread, Return(t)
    PROVE  Exact'
<1> DEFINE op == threads[t].request[1]
           x  == threads[t].request[2]
           s  == cache.client_session_id
<1>1. /\ TypeOK
      /\ cache \in ClientSessionState /\ threads \in [Thread -> LocalState]
      /\ Resting.pc = "idle"
      /\ At(t, "served")
      /\ threads[t].request \in Request
      /\ Nil \notin Session /\ alive \subseteq Session
      /\ joined \in [Session -> SUBSET Space]
      /\ owner \in [BindingKey -> Session \cup {Nil}]
  BY RestingIdle, NilAssumption
     DEF SessionInv, TypeOK, Server!TypeOK, AskedFor, Return, At
<1>2. /\ x \in Thing /\ op \in Granting \cup Releasing
      /\ op = "detach" => x \in Space
      /\ op = "disable" => x \in BindingKey
  BY <1>1 DEF Request, Thing, Granting, Releasing
<1>3. /\ cache'.client_session_id = s
      /\ cache'.desired = IF op \in Granting THEN cache.desired \cup {x}
                                             ELSE cache.desired \ Forgotten(x)
      /\ UNCHANGED serverVars
      /\ \A u \in Thread \ {t} : threads'[u] = threads[u]
      /\ threads'[t].pc = "idle"
  BY <1>1 DEF Return, Ends, ClientSessionState, Granting
<1>4. /\ alive' = alive
      /\ \A r : Held(r)' = Held(r)
  BY <1>3 DEF serverVars, Held
<1>5. /\ op \in Granting => Answering(t, Granting, x)
      /\ op \in Releasing => Answering(t, Releasing, x)
  BY <1>1 DEF Answering
<1>6. \A ops, y : Answering(t, ops, y) => op \in ops /\ y = x
  BY DEF Answering
<1> HIDE DEF op, x, s
<1>7. \A ops, y : \A u \in Thread : Answering(u, ops, y)' <=> (u # t /\ Answering(u, ops, y))
  BY <1>3 DEF Answering, At
<1>8. /\ BeingGranted \ {x} \subseteq BeingGranted'
      /\ op \in Releasing => BeingGranted \subseteq BeingGranted'
  <2>1. Granting \cap Releasing = {}
    BY DEF Granting, Releasing
  <2> QED BY <1>6, <1>7, <2>1 DEF BeingGranted
<1>9. op \in Releasing => Held(s) \cap Forgotten(x) = {}
  <2> SUFFICES ASSUME op \in Releasing PROVE Held(s) \cap Forgotten(x) = {}
    OBVIOUS
  <2>1. s \in alive /\ x \notin Held(s)
    BY <1>2, <1>5 DEF Exact, s
  <2>2. \A k \in BindingKey : k.space = x => owner[k] # s
    <3> SUFFICES ASSUME NEW k \in BindingKey, k.space = x, owner[k] = s PROVE FALSE
      OBVIOUS
    <3>1. x \in joined[s]
      BY <1>1, <2>1 DEF ServerTidy
    <3> QED BY <2>1, <3>1 DEF Held
  <2>3. \A k \in BindingKey : k.space = x => k \notin joined[s]
    BY <1>1, <2>1, ThingAssumption
  <2> QED BY <2>1, <2>2, <2>3 DEF Held, Forgotten
<1>10. HeldRemembered'
  <2> SUFFICES ASSUME s \in alive PROVE Held(s) \subseteq cache'.desired \cup BeingGranted'
    BY <1>3, <1>4 DEF HeldRemembered
  <2>1. Held(s) \subseteq cache.desired \cup BeingGranted
    BY DEF Exact, HeldRemembered, s
  <2>2. CASE op \in Granting
    BY <1>3, <1>8, <2>1, <2>2
  <2>3. CASE op \notin Granting
    <3>1. op \in Releasing
      BY <1>2, <2>3
    <3> QED BY <1>3, <1>8, <1>9, <2>1, <2>3, <3>1
  <2> QED BY <2>2, <2>3
<1>11. OrphansAnswered'
  <2> SUFFICES ASSUME NEW k \in BindingKey, k \in cache'.desired
               PROVE  k.space \in cache'.desired \cup BeingGranted'
    BY DEF OrphansAnswered
  <2>1. k.space \in Space
    BY DEF BindingKey
  <2>2. k \in cache.desired => k.space \in cache.desired \cup BeingGranted
    BY DEF Exact, OrphansAnswered
  <2>3. CASE op \in Granting /\ k # x
    BY <1>3, <1>8, <2>2, <2>3
  <2>4. CASE op \in Granting /\ k = x
    <3>1. s \in alive /\ x \in Held(s)
      BY <1>2, <1>5, <2>4 DEF Calm, s
    <3>2. owner[k] = s
      BY <1>1, <2>4, <3>1, ThingAssumption DEF Held
    <3>3. k.space \in Held(s)
      BY <1>1, <3>1, <3>2 DEF ServerTidy, Held
    <3>4. k.space \in cache.desired \cup BeingGranted
      BY <3>1, <3>3 DEF Exact, HeldRemembered, s
    <3>5. k.space # x
      BY <2>1, <2>4, ThingAssumption
    <3> QED BY <1>3, <1>8, <2>4, <3>4, <3>5
  <2>5. CASE op \notin Granting
    <3>1. op \in Releasing /\ k \in cache.desired /\ k \notin Forgotten(x)
      BY <1>2, <1>3, <2>5
    <3>2. k.space \notin Forgotten(x)
      BY <2>1, <3>1, ThingAssumption DEF Forgotten
    <3> QED BY <1>3, <1>8, <2>2, <2>5, <3>1, <3>2
  <2> QED BY <2>3, <2>4, <2>5
<1>12. ReplaysRemembered'
  <2> SUFFICES ASSUME NEW u \in Thread, At(u, "replaying")',
                      threads'[u].session = s, s \in alive
               PROVE  threads'[u].todo \subseteq cache'.desired
    BY <1>3, <1>4 DEF ReplaysRemembered
  <2>1. threads'[u] = threads[u] /\ At(u, "replaying")
    BY <1>3 DEF At
  <2>2. threads[u].todo \subseteq cache.desired
    BY <2>1 DEF Exact, ReplaysRemembered, s
  <2>3. op \in Releasing => Forgotten(x) \cap threads[u].todo = {}
    BY <1>2, <1>5, <2>1 DEF ReplayStale, BeingReleased
  <2> QED BY <1>2, <1>3, <2>1, <2>2, <2>3
<1>13. \A u \in Thread, y \in Thing : Answering(u, Releasing, y)' =>
          cache'.client_session_id \in alive' /\ y \notin Held(cache.client_session_id)'
  BY <1>3, <1>4, <1>7 DEF Exact, s
<1>14. \A u \in Thread : At(u, "registered")' =>
         threads'[u].session \in Session /\ Held(threads[u].session)' = {}
  BY <1>3, <1>4 DEF Exact, At
<1> QED BY <1>10, <1>11, <1>12, <1>13, <1>14 DEF Exact

\* Sessions end, the client's while no task waits for an answer.
LEMMA ExactLoss ==
    ASSUME SessionInv, Known, Calm, Exact, ~LostUnderAnswer,
           NEW S \in SUBSET alive, Server!End(S), UNCHANGED <<cache, threads>>
    PROVE  Exact'
<1>1. /\ alive \subseteq Session
      /\ alive' = alive \ S
      /\ \A r \in Session : Held(r)' \subseteq Held(r)
      /\ threads \in [Thread -> LocalState]
      /\ Nil \notin alive
  BY EndSpares, NilAssumption DEF SessionInv, TypeOK, Server!TypeOK
<1>2. \A ops, y : \A u \in Thread : Answering(u, ops, y)' <=> Answering(u, ops, y)
  BY DEF Answering, At
<1>3. BeingGranted' = BeingGranted
  BY <1>2 DEF BeingGranted
<1>4. HeldRemembered' /\ OrphansAnswered' /\ ReplaysRemembered'
  BY <1>1, <1>3 DEF Exact, HeldRemembered, OrphansAnswered, ReplaysRemembered, At
<1>5. \A u \in Thread, y \in Thing : Answering(u, Releasing, y)' =>
         cache'.client_session_id \in alive' /\ y \notin Held(cache.client_session_id)'
  BY <1>1, <1>2 DEF Exact, LostUnderAnswer, Answering
<1>6. \A u \in Thread : At(u, "registered")' =>
         threads'[u].session \in Session /\ Held(threads[u].session)' = {}
  BY <1>1 DEF Exact, At
<1> QED BY <1>4, <1>5, <1>6 DEF Exact


\* Every step that drifts in no way.
LEMMA ExactStep ==
    ASSUME SessionInv, Known, Unheld, ServerTidy, Calm, Exact, ~ReplayStale, Next, ~Drifts
    PROVE  Exact'
<1>0. /\ TypeOK
      /\ cache \in ClientSessionState /\ threads \in [Thread -> LocalState]
      /\ Resting.pc = "idle" /\ alive \subseteq Session
  BY RestingIdle DEF SessionInv, TypeOK, Server!TypeOK
<1>2. ASSUME NEW t \in Thread, Connected(t) \/ DataOperation(t) \/ Refused(t)
      PROVE  Exact'
  BY <1>0, <1>2, ExactQuiet DEF Connected, DataOperation, Refused, Ends, At
<1>3. ASSUME NEW t \in Thread, Fail(t)
      PROVE  Exact'
  <2>1. ~At(t, "served")
    BY <1>3 DEF Drifts, Unanswered
  <2> QED BY <1>0, <1>3, <2>1, ExactQuiet DEF Fail, Ends
<1>4. ASSUME NEW t \in Thread, NEW request \in Request, Send(t, request)
      PROVE  Exact'
  <2>1. CASE cache.client_session_id = Nil
    BY <1>0, <1>4, <2>1, ExactQuiet DEF Send, Ends, At
  <2>2. CASE cache.client_session_id # Nil
    <3>1. /\ \A u \in Thread \ {t} : threads'[u] = threads[u]
          /\ threads'[t].pc = "sent"
      BY <1>0, <1>4, <2>2 DEF Send, LocalState
    <3> QED BY <1>0, <1>4, <2>2, <3>1, ExactQuiet DEF Send, At
  <2> QED BY <2>1, <2>2
<1>5. ASSUME NEW t \in Thread, Serve(t)
      PROVE  Exact'
  <2> DEFINE s == threads[t].session
             x == threads[t].request[2]
             op == threads[t].request[1]
  <2>1. At(t, "sent") /\ threads[t].request \in Request
    BY <1>5 DEF Serve, SessionInv, AskedFor, At
  <2>2. /\ x \in Thing
        /\ op \in {"attach", "detach"} => x \in Space
        /\ op \in {"enable", "disable"} => x \in BindingKey
    BY <2>1 DEF Request, Thing
  <2>3. CASE op \in Granting /\ Grant(s, x)
    <3>1. s \in Session
      BY <1>0, <2>3 DEF Grant, Server!Join, Server!Claim
    <3>2. x \notin BeingReleased
      BY <1>5, <2>1, <2>3 DEF Drifts, Regranted
    <3> QED BY <1>5, <2>1, <2>2, <2>3, <3>1, <3>2, ExactGrant
  <2>4. CASE \/ op = "detach" /\ Server!Leave(s, x, {})
             \/ op = "disable" /\ Server!Release(s, x)
    <3>1. s \in Session /\ op \in Releasing
      BY <1>0, <2>4 DEF Server!Leave, Server!Release, Releasing
    <3>2. \/ x \in Space /\ Server!Leave(s, x, {})
          \/ x \in BindingKey /\ Server!Release(s, x)
      BY <2>2, <2>4
    <3> HIDE DEF s, x, op
    <3> QED BY <1>5, <2>1, <2>2, <3>1, <3>2, ExactRelease DEF s, x, op
  <2> QED BY <1>5, <2>3, <2>4 DEF Serve, Granting
<1>6. ASSUME NEW t \in Thread, Return(t)
      PROVE  Exact'
  BY <1>6, ExactReturn
<1>7. ASSUME NEW t \in Thread
      PROVE  ~Unregister(t) /\ ~Clear(t)
  BY DEF Unregister, Clear, At, Calm
<1>8. CASE SessionsLost
  <2>1. PICK lost \in SUBSET alive : Server!End(lost)
    BY <1>8 DEF SessionsLost
  <2> QED BY <1>8, <2>1, ExactLoss DEF SessionsLost, Drifts
<1>9. CASE StrayLapses
  <2>1. Strays \in SUBSET alive
    BY DEF Strays
  <2> QED BY <1>9, <2>1, ExactLoss DEF StrayLapses, Drifts
<1>10. \A t \in Task : ~Shutdown(t)
  BY DEF Drifts
<1> QED BY <1>2, <1>3, <1>4, <1>5, <1>6, <1>7, <1>8, <1>9, <1>10, ExactLocked
        DEF Next, Step

\* The controller's books stay tidy whatever its clients do.
LEMMA ServerTidyHolds == Spec => []ServerTidy
<1>1. Init => ServerTidy
  BY NilAssumption DEF Init, Server!Init, ServerTidy, Held
<1>2. SessionInv /\ ServerTidy /\ [Next]_vars => ServerTidy'
  <2> SUFFICES ASSUME SessionInv, ServerTidy, [Next]_vars PROVE ServerTidy'
    OBVIOUS
  <2>1. CASE Next
    BY <2>1, ServerTidyStep DEF SessionInv
  <2>2. CASE UNCHANGED vars
    BY <2>2 DEF vars, ServerTidy, Held
  <2> QED BY <2>1, <2>2
<1> QED BY <1>1, <1>2, SessionInvHolds, PTL DEF Spec

\* What drifts in no way does not race.
LEMMA RacesDrift == [~Drifts]_vars => [~Races]_vars
<1> SUFFICES ASSUME Races PROVE Drifts
  OBVIOUS
<1>1. ReleaseUnanswered => Unanswered
  BY DEF ReleaseUnanswered, Unanswered, Answering
<1>2. LostUnderGrant => LostUnderAnswer
  BY DEF LostUnderGrant, LostUnderAnswer, Answering
<1> QED BY <1>1, <1>2 DEF Races, Drifts

\* The client's memory is exact, up to answers that are on their way: what it remembers
\* its session holds, what the session holds it remembers, and it remembers no binding
\* without its space (remember_attached_space, forget_attached_space, the functions of the
\* bindings and replay_desired_state), for any number of tasks, losses and replays, unless
\* one of Drifts has happened or a replay has worked on a copy that was out of date.
THEOREM ExactUnlessDrifted ==
    Spec /\ [][~Drifts]_vars /\ []~ReplayStale
        => [](RememberedHeld /\ HeldRemembered /\ OrphansAnswered)
<1>1. Init => Exact
  <2> SUFFICES ASSUME Init PROVE Exact
    OBVIOUS
  <2>1. /\ \A t \in Thread : threads[t].pc = "idle"
        /\ alive = {} /\ cache.desired = {}
    BY RestingIdle DEF Init, Server!Init, EmptyCache
  <2> QED BY <2>1 DEF Exact, At, Answering, ReplaysRemembered, HeldRemembered, OrphansAnswered
<1>2. /\ SessionInv /\ Known /\ Unheld /\ ServerTidy /\ Calm /\ Exact /\ ~ReplayStale
      /\ [Next]_vars /\ [~Drifts]_vars
      => Exact'
  <2> SUFFICES ASSUME SessionInv, Known, Unheld, ServerTidy, Calm, Exact, ~ReplayStale,
                      [Next]_vars, [~Drifts]_vars
               PROVE  Exact'
    OBVIOUS
  <2>1. CASE Next /\ ~Drifts
    BY <2>1, ExactStep
  <2>2. CASE UNCHANGED vars
    BY <2>2 DEF vars, serverVars, Exact, At, Answering, ReplaysRemembered, HeldRemembered,
                OrphansAnswered, BeingGranted, Held
  <2> QED BY <2>1, <2>2
<1>3. Exact /\ Calm => RememberedHeld /\ HeldRemembered /\ OrphansAnswered
  BY DEF Exact, Calm
<1> QED BY <1>1, <1>2, <1>3, SessionInvHolds, KnownHolds, ServerTidyHolds, CalmHolds, RacesDrift,
        PTL DEF Spec
=============================================================================
