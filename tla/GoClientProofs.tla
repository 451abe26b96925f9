--------------------------- MODULE GoClientProofs ---------------------------
(***************************************************************************)
(* Proofs about GoClient, for any number of goroutines, connections,       *)
(* sessions, spaces and bindings, and any number of upsets.  As long as    *)
(* nothing has disturbed the client, whoever gets it a session is alone,   *)
(* and what the session holds follows from what is desired.                *)
(***************************************************************************)
EXTENDS GoClient, TLAPS

-----------------------------------------------------------------------------
(* The invariant.                                                          *)

\* Who asks knows what it asked for.
AskedFor == \A t \in Goroutine :
    threads[t].pc \notin {"idle", "unregistering", "panicked"} => threads[t].request \in Request

\* A session that has ended holds nothing, and owns only in spaces it has joined.
BooksRight ==
    /\ \A s \in Session \ alive : joined[s] = {}
    /\ \A k \in BindingKey : owner[k] # Nil => owner[k] \in alive /\ k.space \in joined[owner[k]]

\* Where a goroutine has made sure of a connection; where it holds the one it uses; and
\* where it gets the client a session.
HasConnection == {"checking", "registering", "registered", "copying", "replaying",
                  "connected", "ready", "sent", "served"}
UsesConnection == {"registering", "replaying", "sent", "served"}
Registering == {"registering", "registered", "copying", "replaying"}

\* It asks for a change.
Changing(t) == threads[t].pc \in {"sent", "served"} /\ Operation(t) \in Changes

\* Nobody comes in the way of another: who gets the client a session is alone, one at a
\* time connects, changes something, or shuts down.
Alone == \A t, u \in Goroutine : t # u =>
    /\ threads[t].pc \in Registering => At(u, "idle")
    /\ threads[t].pc \in Connecting => threads[u].pc \notin Connecting
    /\ Changing(t) => ~Changing(u)
    /\ At(t, "unregistering") => ~At(u, "unregistering")

\* The one connection is the client's or that of the shutdown under way.
Linked ==
    /\ client.rpc = Nil => client.clientSessionID = Nil
    /\ client.rpc # Nil => link[client.rpc] # "closed"
    /\ \A k \in Connection : link[k] # "closed" =>
          \/ k = client.rpc
          \/ \E t \in Goroutine : At(t, "unregistering") /\ threads[t].rpc = k
    /\ \A t \in Goroutine :
          /\ ~At(t, "panicked")
          /\ threads[t].pc \in HasConnection => client.rpc # Nil
          /\ threads[t].pc \in UsesConnection => threads[t].rpc = client.rpc
          /\ At(t, "dialing") => client.rpc = Nil
          /\ At(t, "unregistering") =>
                IF threads[t].rpc = Nil THEN threads[t].session = Nil
                ELSE link[threads[t].rpc] # "closed" /\ threads[t].rpc # client.rpc

\* The one live session is the client's, or one on its way to it or from it.
Known ==
    /\ \A s \in alive : \/ s = client.clientSessionID
                        \/ \E t \in Goroutine : /\ threads[t].pc \in {"registered", "unregistering"}
                                                /\ threads[t].session = s
    /\ \A k \in Connection : link[k] = "broken" => alive = {}
    /\ \A t \in Goroutine :
          /\ threads[t].pc \in {"registering", "registered"} => client.clientSessionID = Nil
          /\ threads[t].pc \in {"replaying", "sent", "served"} =>
                threads[t].session = client.clientSessionID

\* What goroutine t does accounts for the difference between what the live session
\* holds and what is desired.
Owes(t, held) ==
    \/ At(t, "copying") /\ held \subseteq client.desired
    \/ /\ At(t, "replaying")
       /\ held \subseteq client.desired
       /\ client.desired \subseteq held \cup threads[t].todo
    \/ /\ At(t, "served") /\ Operation(t) \in {"AttachSpace", "EnableBackend"}
       /\ held = client.desired \cup {Subject(t)}
    \/ /\ At(t, "served") /\ Operation(t) \in {"DetachSpace", "DisableBackend"}
       /\ held = client.desired \ {Subject(t)}

\* The live session holds what is desired, but for what is still to be replayed and for
\* the change under way; a desired binding is in a desired space.
Remembered ==
    /\ \A k \in client.desired \cap BindingKey : k.space \in client.desired
    /\ \A t \in Goroutine :
          /\ At(t, "registered") =>
                threads[t].session \in Session /\ Held(threads[t].session) = {}
          /\ At(t, "replaying") => threads[t].todo \subseteq client.desired
          /\ At(t, "served") /\ Operation(t) = "EnableBackend" => Subject(t).space \in client.desired
          /\ At(t, "served") /\ Operation(t) = "DetachSpace" =>
                \A k \in client.desired \cap BindingKey : k.space # Subject(t)
          /\ At(t, "served") /\ Operation(t) \in Changes /\ client.clientSessionID \in alive =>
                Owes(t, Held(client.clientSessionID))
    /\ client.clientSessionID \in alive =>
          \/ Held(client.clientSessionID) = client.desired
          \/ \E t \in Goroutine : Owes(t, Held(client.clientSessionID))

\* What holds while nothing has disturbed the client.
CalmNow == Alone /\ Linked /\ Known /\ Remembered

Calm == ~disturbed => CalmNow

\* The inductive invariant.
GoInv == TypeOK /\ AskedFor /\ BooksRight /\ Calm

-----------------------------------------------------------------------------
(* The types, and what the controller keeps of its books.                  *)

\* The types of what a session has joined and of what is owned.
Books == /\ alive \subseteq Session /\ past \subseteq Session
         /\ joined \in [Session -> SUBSET Space]
         /\ owner \in [BindingKey -> Session \cup {Nil}]

\* What the types of the controller come to.
LEMMA BooksTyped == Server!TypeOK <=> Books
BY DEF Server!TypeOK, Books

\* Every operation of the controller keeps its books typed and right.
LEMMA BooksStep ==
    ASSUME Books, BooksRight, Server!Next PROVE Books' /\ BooksRight'
<1>0. Nil \notin Session /\ \A k \in BindingKey : k.space \in Space
  BY NilAssumption DEF BindingKey
<1>1. ASSUME NEW ended \in SUBSET alive
      PROVE /\ Server!JoinedAfter(ended) \in [Session -> SUBSET Space]
            /\ \A s \in Session : Server!JoinedAfter(ended)[s] = IF s \in ended THEN {} ELSE joined[s]
            /\ Server!OwnerAfter(ended) \in [BindingKey -> Session \cup {Nil}]
            /\ \A k \in BindingKey :
                  Server!OwnerAfter(ended)[k] = IF owner[k] \in ended THEN Nil ELSE owner[k]
  BY DEF Server!JoinedAfter, Server!OwnerAfter, Books
<1>2. ASSUME NEW ended \in SUBSET alive, Server!End(ended) PROVE Books' /\ BooksRight'
  BY <1>0, <1>1, <1>2 DEF Server!End, Books, BooksRight
<1>3. ASSUME NEW ended \in SUBSET alive, NEW s \in Session, Server!Begin(s, ended)
      PROVE Books' /\ BooksRight'
  BY <1>0, <1>1, <1>3 DEF Server!Begin, Books, BooksRight
<1>4. ASSUME NEW ended \in SUBSET alive, NEW s \in Session, NEW sp \in Space,
             Server!Join(s, sp, ended)
      PROVE Books' /\ BooksRight'
  <2> DEFINE J == Server!JoinedAfter(ended)
  <2>0. s \notin ended /\ joined' = [J EXCEPT ![s] = @ \cup {sp}]
    BY <1>4 DEF Server!Join
  <2> HIDE DEF J
  <2>1. /\ joined' \in [Session -> SUBSET Space]
        /\ \A u \in Session : joined'[u] = IF u = s THEN joined[s] \cup {sp}
                                           ELSE IF u \in ended THEN {} ELSE joined[u]
    <3>1. /\ J \in [Session -> SUBSET Space]
          /\ \A u \in Session : J[u] = IF u \in ended THEN {} ELSE joined[u]
      BY <1>1 DEF J
    <3>2. J[s] = joined[s] /\ J[s] \in SUBSET Space /\ J[s] \cup {sp} \in SUBSET Space
      BY <2>0, <3>1
    <3> QED BY <2>0, <3>1, <3>2
  <2>2. /\ s \in alive \ ended /\ alive' = alive \ ended /\ past' = past \cup ended
        /\ owner' = Server!OwnerAfter(ended)
    BY <1>4 DEF Server!Join
  <2> QED BY <1>0, <1>1, <2>1, <2>2 DEF Books, BooksRight
<1>5. ASSUME NEW ended \in SUBSET alive, NEW s \in Session, NEW sp \in Space,
             Server!Leave(s, sp, ended)
      PROVE Books' /\ BooksRight'
  <2> DEFINE J == Server!JoinedAfter(ended)
  <2>0. s \notin ended /\ joined' = [J EXCEPT ![s] = @ \ {sp}]
    BY <1>5 DEF Server!Leave
  <2> HIDE DEF J
  <2>1. /\ joined' \in [Session -> SUBSET Space]
        /\ \A u \in Session : joined'[u] = IF u = s THEN joined[s] \ {sp}
                                           ELSE IF u \in ended THEN {} ELSE joined[u]
    <3>1. /\ J \in [Session -> SUBSET Space]
          /\ \A u \in Session : J[u] = IF u \in ended THEN {} ELSE joined[u]
      BY <1>1 DEF J
    <3>2. J[s] = joined[s] /\ J[s] \in SUBSET Space /\ J[s] \ {sp} \in SUBSET Space
      BY <2>0, <3>1
    <3> QED BY <2>0, <3>1, <3>2
  <2>2. /\ s \in alive \ ended /\ alive' = alive \ ended /\ past' = past \cup ended
        /\ owner' = Server!OwnerAfter(ended)
    BY <1>5 DEF Server!Leave
  <2>3. \A k \in BindingKey : owner[k] = s => k.space # sp
    BY <1>5 DEF Server!Leave
  <2> QED BY <1>0, <1>1, <2>1, <2>2, <2>3 DEF Books, BooksRight
<1>6. ASSUME NEW s \in Session, NEW k \in BindingKey, Server!Claim(s, k)
      PROVE Books' /\ BooksRight'
  <2>1. k.space \in joined[s] /\ s \in alive
    BY <1>6 DEF Server!Claim
  <2>2. /\ UNCHANGED <<alive, past, joined>>
        /\ owner' \in [BindingKey -> Session \cup {Nil}]
        /\ \A x \in BindingKey : owner'[x] = IF x = k THEN s ELSE owner[x]
    BY <1>6 DEF Server!Claim, Books
  <2> QED BY <2>1, <2>2 DEF Books, BooksRight
<1>7. ASSUME NEW s \in Session, NEW k \in BindingKey, Server!Release(s, k)
      PROVE Books' /\ BooksRight'
  <2>1. /\ UNCHANGED <<alive, past, joined>>
        /\ owner' \in [BindingKey -> Session \cup {Nil}]
        /\ \A x \in BindingKey : owner'[x] = IF x = k THEN Nil ELSE owner[x]
    BY <1>7 DEF Server!Release, Books
  <2> QED BY <2>1 DEF Books, BooksRight
<1> QED BY <1>2, <1>3, <1>4, <1>5, <1>6, <1>7 DEF Server!Next

\* What a granted request changes: session s holds x as well.
LEMMA Granted ==
    ASSUME Books, NEW s, NEW x, Grant(s, x)
    PROVE  /\ Server!Next /\ s \in Session /\ s \in alive /\ alive' = alive
           /\ Held(s)' = Held(s) \cup {x}
<1>1. CASE x \in Space /\ Server!Join(s, x, {})
  <2>1. s \in alive /\ s \in Session /\ alive' = alive
    BY <1>1 DEF Server!Join, Books
  <2>2. joined'[s] = joined[s] \cup {x} /\ \A k \in BindingKey : owner'[k] = owner[k]
    BY <1>1, <2>1 DEF Server!Join, Server!JoinedAfter, Server!OwnerAfter, Books
  <2>3. Held(s)' = Held(s) \cup {x}
    BY <2>2 DEF Held
  <2> QED BY <1>1, <2>1, <2>3 DEF Server!Next
<1>2. CASE x \in BindingKey /\ Server!Claim(s, x)
  <2>1. s \in alive /\ s \in Session /\ alive' = alive /\ joined' = joined
    BY <1>2 DEF Server!Claim, Books
  <2>2. \A k \in BindingKey : owner'[k] = IF k = x THEN s ELSE owner[k]
    BY <1>2 DEF Server!Claim, Books
  <2>3. Held(s)' = Held(s) \cup {x}
    BY <1>2, <2>1, <2>2 DEF Held
  <2> QED BY <1>2, <2>1, <2>3 DEF Server!Next
<1> QED BY <1>1, <1>2 DEF Grant

\* What giving up x changes: session s holds x no longer.
LEMMA GivenUp ==
    ASSUME Books, NEW s, NEW x,
           \/ x \in Space /\ Server!Leave(s, x, {})
           \/ x \in BindingKey /\ Server!Release(s, x)
    PROVE  /\ Server!Next /\ s \in Session /\ s \in alive /\ alive' = alive
           /\ Held(s)' = Held(s) \ {x}
<1>1. CASE x \in Space /\ Server!Leave(s, x, {})
  <2>1. s \in alive /\ s \in Session /\ alive' = alive
    BY <1>1 DEF Server!Leave, Books
  <2>2. joined'[s] = joined[s] \ {x} /\ \A k \in BindingKey : owner'[k] = owner[k]
    BY <1>1, <2>1 DEF Server!Leave, Server!JoinedAfter, Server!OwnerAfter, Books
  <2>3. Held(s)' = Held(s) \ {x}
    BY <1>1, <2>2, SpaceAssumption DEF Held
  <2> QED BY <1>1, <2>1, <2>3 DEF Server!Next
<1>2. CASE x \in BindingKey /\ Server!Release(s, x)
  <2>1. s \in alive /\ s \in Session /\ alive' = alive /\ joined' = joined
    BY <1>2 DEF Server!Release, Books
  <2>2. \A k \in BindingKey : owner'[k] = IF k = x THEN Nil ELSE owner[k]
    BY <1>2 DEF Server!Release, Books
  <2>3. x \notin joined[s] /\ s # Nil
    BY <1>2, <2>1, SpaceAssumption, NilAssumption DEF Books
  <2>4. Held(s)' = Held(s) \ {x}
    BY <1>2, <2>1, <2>2, <2>3 DEF Held
  <2> QED BY <1>2, <2>1, <2>4 DEF Server!Next
<1> QED BY <1>1, <1>2

\* Sessions that end take nothing from the others.
LEMMA Ended ==
    ASSUME Books, NEW ended \in SUBSET alive, Server!End(ended)
    PROVE  /\ Server!Next /\ alive' = alive \ ended
           /\ \A s \in alive' : Held(s)' = Held(s)
           /\ \A s \in Session : Held(s)' \subseteq Held(s)
<1>1. alive' = alive \ ended /\ alive \subseteq Session
  BY DEF Server!End, Books
<1>2. ASSUME NEW s \in Session
      PROVE  Held(s)' \subseteq Held(s) /\ (s \notin ended => Held(s)' = Held(s))
  <2>1. s # Nil
    BY NilAssumption
  <2>2. joined'[s] = IF s \in ended THEN {} ELSE joined[s]
    BY DEF Server!End, Server!JoinedAfter
  <2>3. \A k \in BindingKey : owner'[k] = IF owner[k] \in ended THEN Nil ELSE owner[k]
    BY DEF Server!End, Server!OwnerAfter
  <2>4. \A k \in BindingKey : /\ owner'[k] = s => owner[k] = s
                              /\ s \notin ended /\ owner[k] = s => owner'[k] = s
    BY <2>1, <2>3
  <2>5. Held(s)' \subseteq Held(s)
    <3> SUFFICES ASSUME NEW x \in Held(s)' PROVE x \in Held(s)
      OBVIOUS
    <3>1. CASE x \in joined'[s]
      BY <2>2, <3>1 DEF Held
    <3>2. CASE x \in BindingKey /\ owner'[x] = s
      BY <2>4, <3>2 DEF Held
    <3> QED BY <3>1, <3>2 DEF Held
  <2>6. ASSUME s \notin ended PROVE Held(s) \subseteq Held(s)'
    <3> SUFFICES ASSUME NEW x \in Held(s) PROVE x \in Held(s)'
      OBVIOUS
    <3>1. CASE x \in joined[s]
      BY <2>2, <2>6, <3>1 DEF Held
    <3>2. CASE x \in BindingKey /\ owner[x] = s
      BY <2>4, <2>6, <3>2 DEF Held
    <3> QED BY <3>1, <3>2 DEF Held
  <2> QED BY <2>5, <2>6
<1> QED BY <1>1, <1>2 DEF Server!Next

-----------------------------------------------------------------------------
\* The types of what is the client's own.
ClientTyped ==
    /\ client \in Client
    /\ link \in [Connection -> {"open", "broken", "closed"}]
    /\ threads \in [Goroutine -> LocalState]
    /\ upsets \in 0 .. MaxUpsets
    /\ disturbed \in BOOLEAN

\* The types of the client and those of the controller.
LEMMA TypesSplit == TypeOK <=> ClientTyped /\ Books
BY BooksTyped DEF TypeOK, ClientTyped

\* What an operation asks for.
LEMMA RequestTyped ==
    ASSUME NEW request \in Request
    PROVE  /\ request[1] \in {"AttachSpace", "DetachSpace"} => request[2] \in Space
           /\ request[1] \in {"EnableBackend", "DisableBackend"} => request[2] \in BindingKey
           /\ request[1] \in Changes => request[2] \in Thing
BY DEF Request, Changes, Thing

\* One goroutine moves.
LEMMA OneMoves ==
    ASSUME threads \in [Goroutine -> LocalState], NEW t \in Goroutine, NEW x,
           threads' = [threads EXCEPT ![t] = x]
    PROVE  threads'[t] = x /\ \A u \in Goroutine \ {t} : threads'[u] = threads[u]
OBVIOUS

\* A goroutine that moves stays typed, and knows what it asks for.
LEMMA MoveTyped ==
    ASSUME ClientTyped, AskedFor, NEW t \in Goroutine, NEW x \in LocalState,
           threads' = [threads EXCEPT ![t] = x],
           x.pc \notin {"idle", "unregistering", "panicked"} => x.request \in Request,
           client' \in Client, link' \in [Connection -> {"open", "broken", "closed"}],
           upsets' = upsets \/ Upset, disturbed' \in BOOLEAN
    PROVE  ClientTyped' /\ AskedFor'
BY BoundsAssumption DEF ClientTyped, AskedFor, Upset

\* The end of the host keeps the types.
LEMMA PanicTyped ==
    ASSUME ClientTyped, Panic PROVE ClientTyped' /\ AskedFor'
BY DEF ClientTyped, AskedFor, Panic, Resting, LocalState, Client, Pc

\* What the steps of connecting and of an operation do keeps the types.
LEMMA StepTyped ==
    ASSUME ClientTyped, Books, AskedFor, NEW t \in Goroutine, Step(t)
    PROVE  ClientTyped' /\ AskedFor'
<1>0. /\ client \in Client /\ link \in [Connection -> {"open", "broken", "closed"}]
      /\ threads \in [Goroutine -> LocalState] /\ disturbed \in BOOLEAN
      /\ threads[t] \in LocalState /\ Resting \in LocalState /\ Resting.pc = "idle"
  BY DEF ClientTyped, Resting, LocalState, Pc
<1>1. ASSUME Return(t), client' \in Client, upsets' = upsets, disturbed' \in BOOLEAN,
             link' \in [Connection -> {"open", "broken", "closed"}]
      PROVE ClientTyped' /\ AskedFor'
  BY <1>0, <1>1, MoveTyped DEF Return
<1>2. ASSUME NEW pc \in Pc \ {"idle", "unregistering", "panicked"},
             threads[t].pc \notin {"idle", "unregistering", "panicked"},
             Goto(t, pc), client' \in Client, upsets' = upsets, disturbed' \in BOOLEAN,
             link' \in [Connection -> {"open", "broken", "closed"}]
      PROVE ClientTyped' /\ AskedFor'
  <2> DEFINE x == [threads[t] EXCEPT !.pc = pc]
  <2>1. x \in LocalState /\ x.request = threads[t].request
    BY <1>0, <1>2 DEF LocalState
  <2>2. threads' = [threads EXCEPT ![t] = x]
    BY <1>0, <1>2 DEF Goto
  <2> HIDE DEF x
  <2> QED BY <1>2, <2>1, <2>2, MoveTyped DEF AskedFor
<1>3. CASE EnsureConnected(t)
  <2>1. AfterConnecting(t) \in {"ready", "checking"}
    BY DEF AfterConnecting
  <2> QED BY <1>0, <1>2, <1>3, <2>1 DEF EnsureConnected, At, Pc, Connecting
<1>4. CASE Dial(t)
  <2>1. AfterConnecting(t) \in {"ready", "checking"}
    BY DEF AfterConnecting
  <2>2. client' \in Client /\ link' \in [Connection -> {"open", "broken", "closed"}]
    BY <1>0, <1>4 DEF Dial, Client
  <2> QED BY <1>0, <1>2, <1>4, <2>1, <2>2 DEF Dial, At, Pc, Connecting
<1>5. CASE EnsureRegistered(t)
  <2>1. CASE client.clientSessionID # Nil
    BY <1>0, <1>2, <1>5, <2>1 DEF EnsureRegistered, At, Pc
  <2>2. CASE client.clientSessionID = Nil
    <3> DEFINE x == [threads[t] EXCEPT !.pc = "registering", !.rpc = client.rpc]
    <3>1. x \in LocalState /\ x.request = threads[t].request
      BY <1>0 DEF LocalState, Client, Pc, Connecting
    <3>2. threads' = [threads EXCEPT ![t] = x]
      BY <1>0, <1>5, <2>2 DEF EnsureRegistered
    <3>3. threads[t].request \in Request
      BY <1>5 DEF EnsureRegistered, At, AskedFor
    <3> HIDE DEF x
    <3> QED BY <1>0, <1>5, <2>2, <3>1, <3>2, <3>3, MoveTyped DEF EnsureRegistered, Disturbs
  <2> QED BY <2>1, <2>2
<1>6. CASE Register(t)
  <2>1. CASE threads[t].rpc = Nil
    BY <1>6, <2>1, PanicTyped DEF Register
  <2>2. CASE threads[t].rpc # Nil
    <3> DEFINE s == CHOOSE id \in Session : id \notin alive \cup past
               x == [threads[t] EXCEPT !.pc = "registered", !.session = s]
    <3>1. s \in Session
      BY <1>6, <2>2 DEF Register, Books
    <3>2. threads' = [threads EXCEPT ![t] = x]
      BY <1>0, <1>6, <2>2 DEF Register
    <3> HIDE DEF s
    <3>3. x \in LocalState /\ x.request = threads[t].request
      BY <1>0, <3>1 DEF LocalState, Pc, Connecting
    <3>4. threads[t].request \in Request
      BY <1>6 DEF Register, At, AskedFor
    <3> HIDE DEF x
    <3> QED BY <1>0, <1>6, <2>2, <3>2, <3>3, <3>4, MoveTyped DEF Register
  <2> QED BY <2>1, <2>2
<1>7. CASE StoreSession(t)
  <2> DEFINE x == [threads[t] EXCEPT !.pc = "copying", !.rpc = Nil, !.session = Nil]
  <2>1. x \in LocalState /\ x.request = threads[t].request
    BY <1>0 DEF LocalState, Pc, Connecting
  <2>2. threads' = [threads EXCEPT ![t] = x]
    BY <1>0, <1>7 DEF StoreSession
  <2>3. threads[t].request \in Request
    BY <1>7 DEF StoreSession, At, AskedFor
  <2>4. client' \in Client
    BY <1>0, <1>7 DEF StoreSession, Client, LocalState
  <2> HIDE DEF x
  <2> QED BY <1>0, <1>7, <2>1, <2>2, <2>3, <2>4, MoveTyped DEF StoreSession
<1>8. CASE CopyDesired(t)
  <2> DEFINE x == [threads[t] EXCEPT !.pc = "replaying", !.todo = client.desired,
                                     !.rpc = client.rpc, !.session = client.clientSessionID]
  <2>1. x \in LocalState /\ x.request = threads[t].request
    BY <1>0 DEF LocalState, Client, Pc, Connecting
  <2>2. threads' = [threads EXCEPT ![t] = x]
    BY <1>0, <1>8 DEF CopyDesired
  <2>3. threads[t].request \in Request
    BY <1>8 DEF CopyDesired, At, AskedFor
  <2> HIDE DEF x
  <2> QED BY <1>0, <1>8, <2>1, <2>2, <2>3, MoveTyped DEF CopyDesired
<1>9. CASE Replay(t)
  <2>1. CASE threads[t].rpc = Nil
    BY <1>9, <2>1, PanicTyped DEF Replay
  <2>2. CASE threads[t].rpc # Nil
    <3>1. PICK y : threads' = [threads EXCEPT ![t].todo = @ \ {y}]
      BY <1>9, <2>2 DEF Replay
    <3> DEFINE x == [threads[t] EXCEPT !.todo = @ \ {y}]
    <3>2. x \in LocalState /\ x.request = threads[t].request
      BY <1>0 DEF LocalState
    <3>3. threads' = [threads EXCEPT ![t] = x]
      BY <1>0, <3>1
    <3>4. threads[t].request \in Request
      BY <1>9 DEF Replay, At, AskedFor
    <3> HIDE DEF x
    <3> QED BY <1>0, <1>9, <2>2, <3>2, <3>3, <3>4, MoveTyped DEF Replay
  <2> QED BY <2>1, <2>2
<1>10. CASE ReplayDone(t)
  <2> DEFINE x == [threads[t] EXCEPT !.pc = "connected", !.rpc = Nil, !.session = Nil]
  <2>1. x \in LocalState /\ x.request = threads[t].request
    BY <1>0 DEF LocalState, Pc
  <2>2. threads' = [threads EXCEPT ![t] = x]
    BY <1>0, <1>10 DEF ReplayDone
  <2>3. threads[t].request \in Request
    BY <1>10 DEF ReplayDone, At, AskedFor
  <2> HIDE DEF x
  <2> QED BY <1>0, <1>10, <2>1, <2>2, <2>3, MoveTyped DEF ReplayDone
<1>11. CASE EnsureRenewer(t)
  <2>1. client' \in Client
    BY <1>0, <1>11 DEF EnsureRenewer, Client
  <2> QED BY <1>0, <1>1, <1>2, <1>11, <2>1 DEF EnsureRenewer, At, Pc
<1>12. CASE Send(t)
  <2> DEFINE x == [threads[t] EXCEPT !.pc = "sent", !.rpc = client.rpc,
                                     !.session = client.clientSessionID]
  <2>1. x \in LocalState /\ x.request = threads[t].request
    BY <1>0 DEF LocalState, Client, Pc
  <2>2. threads' = [threads EXCEPT ![t] = x]
    BY <1>0, <1>12 DEF Send
  <2>3. threads[t].request \in Request
    BY <1>12 DEF Send, At, AskedFor
  <2>4. disturbed' \in BOOLEAN
    BY <1>0, <1>12 DEF Send, Disturbs
  <2> HIDE DEF x
  <2> QED BY <1>0, <1>12, <2>1, <2>2, <2>3, <2>4, MoveTyped DEF Send
<1>13. CASE Serve(t)
  BY <1>0, <1>2, <1>13 DEF Serve, At, Pc
<1>14. CASE ServeNothing(t)
  BY <1>0, <1>2, <1>14 DEF ServeNothing, NoticesTooLate, At, Pc
<1>15. CASE Answer(t)
  <2>1. Operation(t) \in Changes => Subject(t) \in Thing
    BY <1>15, RequestTyped DEF Answer, At, AskedFor, Operation, Subject
  <2>2. client' \in Client
    BY <1>0, <1>15, <2>1 DEF Answer, Client, Changes
  <2> QED BY <1>0, <1>1, <1>15, <2>2 DEF Answer
<1>16. CASE SendPanics(t)
  BY <1>16, PanicTyped DEF SendPanics
<1>17. CASE Recover(t)
  <2> DEFINE x == [Resting EXCEPT !.pc = "connecting", !.again = TRUE,
                                  !.request = threads[t].request]
  <2>1. x \in LocalState /\ x.request = threads[t].request
    BY <1>0 DEF LocalState, Pc, Connecting
  <2>2. threads' = [threads EXCEPT ![t] = x]
    BY <1>17 DEF Recover
  <2>3. threads[t].request \in Request
    BY <1>17 DEF Recover, AskedFor
  <2>4. client' \in Client /\ link' \in [Connection -> {"open", "broken", "closed"}]
    BY <1>0, <1>17 DEF Recover, Client
  <2> HIDE DEF x
  <2> QED BY <1>0, <1>17, <2>1, <2>2, <2>3, <2>4, MoveTyped DEF Recover, Disturbs
<1>18. CASE Unregister(t)
  <2>1. link' \in [Connection -> {"open", "broken", "closed"}]
    BY <1>0, <1>18 DEF Unregister
  <2> QED BY <1>0, <1>1, <1>18, <2>1 DEF Unregister
<1>19. CASE ReplayRefused(t) \/ Refused(t) \/ GiveUp(t)
  BY <1>0, <1>1, <1>19 DEF ReplayRefused, Refused, GiveUp, NoticesTooLate
<1> QED BY <1>3, <1>4, <1>5, <1>6, <1>7, <1>8, <1>9, <1>10, <1>11, <1>12, <1>13, <1>14, <1>15,
           <1>16, <1>17, <1>18, <1>19 DEF Step

\* Every step keeps the types of the client.
LEMMA ClientTypedStep ==
    ASSUME ClientTyped, Books, AskedFor, Next PROVE ClientTyped' /\ AskedFor'
<1>0. /\ client \in Client /\ link \in [Connection -> {"open", "broken", "closed"}]
      /\ threads \in [Goroutine -> LocalState] /\ disturbed \in BOOLEAN
      /\ Resting \in LocalState /\ Resting.pc = "idle"
  BY DEF ClientTyped, Resting, LocalState, Pc
<1>1. ASSUME NEW t \in Goroutine, NEW request \in Request, Call(t, request)
      PROVE ClientTyped' /\ AskedFor'
  <2> DEFINE x == [Resting EXCEPT !.pc = "connecting", !.request = request]
  <2>1. x \in LocalState /\ x.request = request
    BY <1>0 DEF LocalState, Pc, Connecting
  <2>2. threads' = [threads EXCEPT ![t] = x]
    BY <1>1 DEF Call
  <2> HIDE DEF x
  <2> QED BY <1>0, <1>1, <2>1, <2>2, MoveTyped DEF Call, Disturbs
<1>2. ASSUME NEW t \in Goroutine, Fail(t) PROVE ClientTyped' /\ AskedFor'
  BY <1>0, <1>2, MoveTyped DEF Fail, Return
<1>3. ASSUME NEW t \in Goroutine, Shutdown(t) PROVE ClientTyped' /\ AskedFor'
  <2> DEFINE x == [Resting EXCEPT !.pc = "unregistering", !.rpc = client.rpc,
                                  !.session = client.clientSessionID]
  <2>1. x \in LocalState /\ x.pc = "unregistering"
    BY <1>0 DEF LocalState, Client, Pc
  <2>2. threads' = [threads EXCEPT ![t] = x]
    BY <1>3 DEF Shutdown
  <2>3. client' \in Client
    BY <1>3 DEF Shutdown, NewClient, Client
  <2> HIDE DEF x
  <2> QED BY <1>0, <1>3, <2>1, <2>2, <2>3, MoveTyped DEF Shutdown, Disturbs
<1>4. CASE Restart
  <2>1. link' \in [Connection -> {"open", "broken", "closed"}]
    BY <1>0, <1>4 DEF Restart
  <2> QED BY <1>4, <2>1, BoundsAssumption DEF Restart, Upset, ClientTyped, AskedFor
<1>5. ASSUME NEW k \in Connection, Reconnect(k) PROVE ClientTyped' /\ AskedFor'
  BY <1>5 DEF Reconnect, ClientTyped, AskedFor
<1>6. ASSUME NEW s \in Session, Lapse(s) PROVE ClientTyped' /\ AskedFor'
  BY <1>6, BoundsAssumption DEF Lapse, Upset, ClientTyped, AskedFor
<1> QED BY <1>1, <1>2, <1>3, <1>4, <1>5, <1>6, StepTyped DEF Next

\* A step of the client changes the controller only by one of its operations.
LEMMA ServerSteps ==
    ASSUME ClientTyped, Books, AskedFor, Next PROVE Server!Next \/ UNCHANGED serverVars
<1>0. alive \subseteq Session
  BY DEF Books
<1>1. ASSUME NEW ended \in SUBSET alive, Server!End(ended) PROVE Server!Next
  BY <1>1 DEF Server!Next
<1>2. ASSUME NEW t \in Goroutine, Register(t) PROVE Server!Next \/ UNCHANGED serverVars
  <2>1. CASE threads[t].rpc = Nil
    BY <1>2, <2>1 DEF Register, Panic
  <2>2. CASE threads[t].rpc # Nil
    <3> DEFINE s == CHOOSE id \in Session : id \notin alive \cup past
    <3>1. s \in Session /\ Server!Begin(s, {})
      BY <1>2, <2>2 DEF Register, Books
    <3> QED BY <3>1 DEF Server!Next
  <2> QED BY <2>1, <2>2
<1>3. ASSUME NEW t \in Goroutine, Replay(t) PROVE Server!Next \/ UNCHANGED serverVars
  BY <1>3, Granted DEF Replay, Panic
<1>4. ASSUME NEW t \in Goroutine, Serve(t) PROVE Server!Next \/ UNCHANGED serverVars
  <2>1. /\ Operation(t) = "DetachSpace" => Subject(t) \in Space
        /\ Operation(t) = "DisableBackend" => Subject(t) \in BindingKey
    BY <1>4, RequestTyped DEF Serve, At, AskedFor, Operation, Subject
  <2> QED BY <1>4, <2>1, Granted, GivenUp DEF Serve
<1>5. ASSUME NEW t \in Goroutine, Unregister(t) PROVE Server!Next \/ UNCHANGED serverVars
  BY <1>1, <1>5 DEF Unregister
<1>6. CASE Restart \/ \E s \in Session : Lapse(s)
  BY <1>1, <1>6 DEF Restart, Lapse
<1>7. ASSUME NEW t \in Goroutine,
             \/ EnsureConnected(t) \/ Dial(t) \/ EnsureRegistered(t) \/ StoreSession(t)
             \/ CopyDesired(t) \/ ReplayRefused(t) \/ ReplayDone(t) \/ EnsureRenewer(t) \/ Send(t)
             \/ ServeNothing(t) \/ Refused(t) \/ Answer(t) \/ SendPanics(t) \/ Recover(t)
             \/ GiveUp(t) \/ Fail(t) \/ Shutdown(t) \/ (\E request \in Request : Call(t, request))
      PROVE UNCHANGED serverVars
  BY <1>7 DEF EnsureConnected, Dial, EnsureRegistered, StoreSession, CopyDesired, ReplayRefused,
              ReplayDone, EnsureRenewer, Send, ServeNothing, Refused, Answer, SendPanics, Panic,
              Recover, GiveUp, Fail, Shutdown, Call
<1> QED BY <1>2, <1>3, <1>4, <1>5, <1>6, <1>7 DEF Next, Step, Reconnect

-----------------------------------------------------------------------------
(* The steps of a client that nothing has disturbed.                       *)

\* A step of one goroutine moves no other.
LEMMA Stays ==
    ASSUME ClientTyped, NEW t \in Goroutine,
           \/ EnsureConnected(t) \/ Dial(t) \/ EnsureRegistered(t) \/ StoreSession(t)
           \/ CopyDesired(t) \/ ReplayRefused(t) \/ ReplayDone(t) \/ EnsureRenewer(t) \/ Send(t)
           \/ Serve(t) \/ ServeNothing(t) \/ Refused(t) \/ Answer(t) \/ Recover(t)
           \/ GiveUp(t) \/ Shutdown(t) \/ Unregister(t)
           \/ \E request \in Request : Call(t, request)
    PROVE  \A u \in Goroutine \ {t} : threads'[u] = threads[u]
BY DEF ClientTyped, EnsureConnected, Dial, EnsureRegistered, StoreSession, CopyDesired,
       ReplayRefused, ReplayDone, EnsureRenewer, Send, Serve, ServeNothing, Refused, Answer,
       Recover, GiveUp, Shutdown, Unregister, Call, Goto, Return

\* One goroutine moves, and comes in nobody's way.
LEMMA AloneMove ==
    ASSUME Alone, NEW t \in Goroutine,
           \A u \in Goroutine \ {t} : threads'[u] = threads[u],
           At(t, "idle") => \A u \in Goroutine \ {t} : threads[u].pc \notin Registering,
           threads'[t].pc \in Registering => \A u \in Goroutine \ {t} : At(u, "idle"),
           threads'[t].pc \in Connecting =>
                \/ threads[t].pc \in Connecting
                \/ \A u \in Goroutine \ {t} : threads[u].pc \notin Connecting,
           Changing(t)' => Changing(t) \/ \A u \in Goroutine \ {t} : ~Changing(u),
           threads'[t].pc = "unregistering" =>
                \A u \in Goroutine \ {t} : ~At(u, "unregistering")
    PROVE  Alone'
<1> USE DEF At
<1>1. ASSUME NEW u \in Goroutine \ {t}
      PROVE  /\ threads'[u] = threads[u] /\ (Changing(u)' <=> Changing(u))
             /\ threads[u].pc \in Registering => threads'[t].pc = "idle"
             /\ threads'[t].pc \in Registering => threads[u].pc = "idle"
             /\ ~(threads'[t].pc \in Connecting /\ threads[u].pc \in Connecting)
             /\ ~(Changing(t)' /\ Changing(u))
             /\ ~(threads'[t].pc = "unregistering" /\ threads[u].pc = "unregistering")
  <2>1. threads'[u] = threads[u] /\ (Changing(u)' <=> Changing(u))
    BY DEF Changing, Operation
  <2>2. threads[u].pc \in Registering => threads[t].pc = "idle"
    BY DEF Alone
  <2>3. threads[u].pc \notin Registering
    BY <2>2
  <2> QED BY <2>1, <2>3 DEF Alone
<1>2. ASSUME NEW u \in Goroutine \ {t}, NEW v \in Goroutine \ {t}, u # v
      PROVE  /\ threads'[u].pc \in Registering => threads'[v].pc = "idle"
             /\ threads'[u].pc \in Connecting => threads'[v].pc \notin Connecting
             /\ Changing(u)' => ~Changing(v)'
             /\ threads'[u].pc = "unregistering" => threads'[v].pc # "unregistering"
  BY <1>1, <1>2 DEF Alone
<1> QED BY <1>1, <1>2 DEF Alone

\* A goroutine moves that takes no part in what the client owes.
LEMMA RememberedMove ==
    ASSUME Remembered, NEW t \in Goroutine,
           \A u \in Goroutine \ {t} : threads'[u] = threads[u],
           client'.clientSessionID = client.clientSessionID,
           client'.desired = client.desired, UNCHANGED serverVars,
           threads[t].pc \notin {"copying", "replaying"},
           threads[t].pc = "served" => Operation(t) \notin Changes,
           threads'[t].pc \notin {"registered", "copying", "replaying"},
           threads'[t].pc = "served" => threads'[t].request[1] \notin Changes
    PROVE  Remembered'
<1> USE DEF At
<1>1. \A k \in client'.desired \cap BindingKey : k.space \in client'.desired
  BY DEF Remembered
<1>2. ASSUME NEW u \in Goroutine
      PROVE  (/\ At(u, "registered") =>
                    threads[u].session \in Session /\ Held(threads[u].session) = {}
              /\ At(u, "replaying") => threads[u].todo \subseteq client.desired)'
  <2>1. CASE u = t
    BY <2>1
  <2>2. CASE u # t
    <3>1. threads'[u] = threads[u]
      BY <2>2
    <3>2. /\ At(u, "registered") =>
                threads[u].session \in Session /\ Held(threads[u].session) = {}
          /\ At(u, "replaying") => threads[u].todo \subseteq client.desired
      BY DEF Remembered
    <3> QED BY <3>1, <3>2 DEF Held, serverVars
  <2> QED BY <2>1, <2>2
<1>3. ASSUME NEW u \in Goroutine
      PROVE  (/\ At(u, "served") /\ Operation(u) = "EnableBackend"
                     => Subject(u).space \in client.desired
              /\ At(u, "served") /\ Operation(u) = "DetachSpace"
                     => \A k \in client.desired \cap BindingKey : k.space # Subject(u)
              /\ At(u, "served") /\ Operation(u) \in Changes /\ client.clientSessionID \in alive
                     => Owes(u, Held(client.clientSessionID)))'
  <2>1. CASE u = t
    BY <2>1 DEF Operation, Changes
  <2>2. CASE u # t
    <3>1. threads'[u] = threads[u]
      BY <2>2
    <3> QED BY <3>1 DEF Remembered, Operation, Subject, Owes, Held, serverVars
  <2> QED BY <2>1, <2>2
<1>4. /\ client'.clientSessionID \in alive' => client.clientSessionID \in alive
      /\ Held(client.clientSessionID)' = Held(client.clientSessionID)
  BY DEF Held, serverVars
<1>5. (\E u \in Goroutine : Owes(u, Held(client.clientSessionID)))
         => (\E u \in Goroutine : Owes(u, Held(client.clientSessionID)))'
  BY <1>4 DEF Owes, Operation, Subject, Changes
<1> QED BY <1>1, <1>2, <1>3, <1>4, <1>5 DEF Remembered

\* A step that changes nothing but where goroutine t is, and that takes no part in what
\* the client owes.
LEMMA QuietMove ==
    ASSUME CalmNow, NEW t \in Goroutine,
           \A u \in Goroutine \ {t} : threads'[u] = threads[u],
           client'.rpc = client.rpc, client'.clientSessionID = client.clientSessionID,
           client'.desired = client.desired, link' = link, UNCHANGED serverVars,
           threads[t].pc \notin {"registered", "unregistering", "copying", "replaying", "served"},
           threads'[t].pc \notin {"registered", "unregistering", "copying", "replaying", "served",
                                  "panicked"},
           At(t, "idle") => \A u \in Goroutine \ {t} : threads[u].pc \notin Registering,
           threads'[t].pc = "registering" =>
                /\ client.clientSessionID = Nil
                /\ \A u \in Goroutine \ {t} : At(u, "idle"),
           threads'[t].pc \in Connecting =>
                \/ threads[t].pc \in Connecting
                \/ \A u \in Goroutine \ {t} : threads[u].pc \notin Connecting,
           Changing(t)' => Changing(t) \/ \A u \in Goroutine \ {t} : ~Changing(u),
           threads'[t].pc \in HasConnection => client.rpc # Nil,
           threads'[t].pc \in UsesConnection => threads'[t].rpc = client.rpc,
           threads'[t].pc = "dialing" => client.rpc = Nil,
           threads'[t].pc = "sent" => threads'[t].session = client.clientSessionID
    PROVE  CalmNow'
<1> USE DEF At
<1>0. Alone /\ Linked /\ Known /\ Remembered
  BY DEF CalmNow
<1>1. Alone'
  BY <1>0, AloneMove DEF Registering
<1>2. Linked'
  BY <1>0 DEF Linked
<1>3. Known'
  BY <1>0 DEF Known, serverVars
<1>4. Remembered'
  BY <1>0, RememberedMove
<1> QED BY <1>1, <1>2, <1>3, <1>4 DEF CalmNow

\* The steps that change nothing but where goroutine t is.
LEMMA QuietSteps ==
    ASSUME ClientTyped, CalmNow, ~disturbed', NEW t \in Goroutine,
           \/ EnsureConnected(t) \/ EnsureRegistered(t) \/ EnsureRenewer(t) \/ Send(t)
           \/ Refused(t) \/ GiveUp(t) \/ \E request \in Request : Call(t, request)
    PROVE  CalmNow'
<1> USE DEF At
<1>0. /\ threads \in [Goroutine -> LocalState] /\ threads[t] \in LocalState /\ client \in Client
      /\ Resting.pc = "idle" /\ \A u \in Goroutine \ {t} : threads'[u] = threads[u]
  BY Stays DEF ClientTyped, Resting
<1>1. Alone /\ Linked /\ Known
  BY DEF CalmNow
<1>2. CASE EnsureConnected(t)
  <2>1. threads' = [threads EXCEPT ![t].pc =
                      IF client.rpc # Nil THEN AfterConnecting(t) ELSE "dialing"]
    BY <1>2 DEF EnsureConnected, Goto
  <2>2. /\ AfterConnecting(t) \in {"ready", "checking"}
        /\ client.rpc # Nil => threads'[t].pc = AfterConnecting(t)
        /\ client.rpc = Nil => threads'[t].pc = "dialing"
    BY <1>0, <2>1 DEF AfterConnecting, LocalState
  <2>3. threads[t].pc = "connecting" /\ UNCHANGED <<client, link, serverVars>>
    BY <1>2 DEF EnsureConnected
  <2> QED BY <1>0, <2>2, <2>3, QuietMove
             DEF Registering, Connecting, Changing, HasConnection, UsesConnection
<1>3. CASE EnsureRegistered(t)
  <2>1. CASE client.clientSessionID # Nil
    <3>1. threads'[t].pc = "connected" /\ threads[t].pc = "checking"
      BY <1>0, <1>3, <2>1 DEF EnsureRegistered, Goto, LocalState
    <3>2. UNCHANGED <<client, link, serverVars>> /\ client.rpc # Nil
      BY <1>1, <1>3, <3>1 DEF EnsureRegistered, Linked, HasConnection
    <3> QED BY <1>0, <3>1, <3>2, QuietMove
               DEF Registering, Connecting, Changing, HasConnection, UsesConnection
  <2>2. CASE client.clientSessionID = Nil
    <3>1. /\ threads'[t].pc = "registering" /\ threads'[t].rpc = client.rpc
          /\ threads[t].pc = "checking"
      BY <1>0, <1>3, <2>2 DEF EnsureRegistered, LocalState
    <3>2. UNCHANGED <<client, link, serverVars>> /\ client.rpc # Nil
      BY <1>1, <1>3, <3>1 DEF EnsureRegistered, Linked, HasConnection
    <3>3. \A u \in Goroutine \ {t} : threads[u].pc \in Pc /\ threads[u].pc \notin Pc \ {"idle"}
      BY <1>0, <1>3, <2>2 DEF EnsureRegistered, Disturbs, Others, LocalState
    <3>4. \A u \in Goroutine \ {t} : threads[u].pc = "idle"
      BY <3>3
    <3> QED BY <1>0, <2>2, <3>1, <3>2, <3>4, QuietMove
               DEF Registering, Connecting, Changing, HasConnection, UsesConnection
  <2> QED BY <2>1, <2>2
<1>4. CASE EnsureRenewer(t)
  <2>1. /\ UNCHANGED <<link, serverVars>> /\ threads[t].pc = "connected"
        /\ threads'[t].pc \in {"idle", "ready"}
    BY <1>0, <1>4 DEF EnsureRenewer, Goto, Return, LocalState
  <2>2. /\ client'.rpc = client.rpc /\ client'.clientSessionID = client.clientSessionID
        /\ client'.desired = client.desired
    BY <1>0, <1>4 DEF EnsureRenewer, Client
  <2>3. client.rpc # Nil
    BY <1>1, <2>1 DEF Linked, HasConnection
  <2> QED BY <1>0, <2>1, <2>2, <2>3, QuietMove
             DEF Registering, Connecting, Changing, HasConnection, UsesConnection
<1>5. CASE Send(t)
  <2>1. /\ UNCHANGED <<client, link, serverVars>> /\ threads[t].pc = "ready"
        /\ threads'[t] = [threads[t] EXCEPT !.pc = "sent", !.rpc = client.rpc,
                                            !.session = client.clientSessionID]
    BY <1>0, <1>5 DEF Send
  <2>2. /\ threads'[t].pc = "sent" /\ threads'[t].rpc = client.rpc
        /\ threads'[t].session = client.clientSessionID
        /\ threads'[t].request = threads[t].request
    BY <1>0, <2>1 DEF LocalState
  <2>3. client.rpc # Nil
    BY <1>1, <2>1 DEF Linked, HasConnection
  <2>4. Changing(t)' => \A u \in Goroutine \ {t} : ~Changing(u)
    BY <1>5, <2>2 DEF Send, Disturbs, Others, Changing, Operation
  <2> QED BY <1>0, <2>1, <2>2, <2>3, <2>4, QuietMove
             DEF Registering, Connecting, HasConnection, UsesConnection
<1>6. CASE Refused(t) \/ GiveUp(t)
  <2>1. /\ UNCHANGED <<client, link, serverVars>> /\ threads[t].pc = "sent"
        /\ threads'[t].pc = "idle"
    BY <1>0, <1>6 DEF Refused, GiveUp, Return
  <2> QED BY <1>0, <2>1, QuietMove
             DEF Registering, Connecting, Changing, HasConnection, UsesConnection
<1>7. ASSUME NEW request \in Request, Call(t, request) PROVE CalmNow'
  <2>1. /\ UNCHANGED <<client, link, serverVars>> /\ threads[t].pc = "idle"
        /\ threads'[t].pc = "connecting"
    BY <1>0, <1>7 DEF Call, Resting
  <2>2. \A u \in Goroutine \ {t} : threads[u].pc \notin Connecting
    BY <1>7 DEF Call, Disturbs, Others
  <2> QED BY <1>0, <2>1, <2>2, QuietMove
             DEF Registering, Connecting, Changing, HasConnection, UsesConnection
<1> QED BY <1>2, <1>3, <1>4, <1>5, <1>6, <1>7

\* A goroutine that gets the client a session is alone.
LEMMA SoloMove ==
    ASSUME CalmNow, NEW t \in Goroutine, threads[t].pc \in Registering,
           \A u \in Goroutine \ {t} : threads'[u] = threads[u],
           client'.rpc = client.rpc, link' = link,
           threads'[t].pc \in Registering \cup {"connected", "idle"},
           threads'[t].pc \in UsesConnection => threads'[t].rpc = client.rpc
    PROVE  /\ \A u \in Goroutine \ {t} : threads[u].pc = "idle" /\ threads'[u].pc = "idle"
           /\ client.rpc # Nil /\ Alone' /\ Linked'
<1> USE DEF At
<1>0. Alone /\ Linked /\ threads[t].pc \in HasConnection
  BY DEF CalmNow, Registering, HasConnection
<1>1. \A u \in Goroutine \ {t} : threads[u].pc = "idle" /\ threads'[u].pc = "idle"
  BY <1>0 DEF Alone
<1>2. client.rpc # Nil
  BY <1>0 DEF Linked
<1>3. Alone'
  BY <1>1 DEF Alone, Registering, Connecting, Changing
<1>4. Linked'
  BY <1>0, <1>1, <1>2 DEF Linked, Registering, HasConnection, UsesConnection
<1> QED BY <1>1, <1>2, <1>3, <1>4

\* The client has no session, so the controller has none: the new one is the only one.
LEMMA RegisterCalm ==
    ASSUME ClientTyped, Books, BooksRight, CalmNow, NEW t \in Goroutine, Register(t)
    PROVE  CalmNow'
<1> USE DEF At
<1>0. /\ threads \in [Goroutine -> LocalState] /\ threads[t] \in LocalState /\ client \in Client
      /\ Linked /\ Known /\ Remembered /\ threads[t].pc = "registering"
  BY DEF ClientTyped, CalmNow, Register
<1>1. threads[t].rpc = client.rpc /\ client.rpc # Nil
  BY <1>0 DEF Linked, HasConnection, UsesConnection
<1>2. PICK s \in Session :
         /\ link[client.rpc] = "open" /\ Server!Begin(s, {})
         /\ threads' = [threads EXCEPT ![t].pc = "registered", ![t].session = s]
         /\ UNCHANGED <<client, link>>
  BY <1>1 DEF Register, Books
<1>3. /\ threads'[t].pc = "registered" /\ threads'[t].session = s
      /\ \A u \in Goroutine \ {t} : threads'[u] = threads[u]
  BY <1>0, <1>2 DEF LocalState
<1>4. /\ \A u \in Goroutine \ {t} : threads[u].pc = "idle" /\ threads'[u].pc = "idle"
      /\ Alone' /\ Linked'
  BY <1>0, <1>2, <1>3, SoloMove DEF Registering, UsesConnection
<1>5. client.clientSessionID = Nil /\ Nil \notin Session
  BY <1>0, NilAssumption DEF Known
<1>6. alive = {}
  BY <1>0, <1>4, <1>5 DEF Known, Books
<1>7. alive' = {s} /\ s \notin alive
  BY <1>2, <1>6 DEF Server!Begin
<1>8. \A k \in Connection : link[k] # "broken"
  BY <1>0, <1>2, <1>4 DEF Linked
<1>9. Known'
  BY <1>2, <1>3, <1>4, <1>5, <1>7, <1>8 DEF Known
<1>10. Held(s)' = {}
  <2>1. joined'[s] = joined[s] /\ joined[s] = {}
    BY <1>2, <1>7 DEF Server!Begin, Server!JoinedAfter, BooksRight
  <2>2. \A k \in BindingKey : owner'[k] = owner[k] /\ owner[k] # s
    BY <1>2, <1>5, <1>7 DEF Server!Begin, Server!OwnerAfter, BooksRight
  <2> QED BY <2>1, <2>2 DEF Held
<1>11. Remembered'
  <2>1. client'.clientSessionID \notin alive'
    BY <1>2, <1>5, <1>7
  <2>2. ASSUME NEW u \in Goroutine, threads'[u].pc # "idle"
        PROVE  u = t
    BY <1>4, <2>2
  <2>3. (threads[t].session \in Session /\ Held(threads[t].session) = {})'
    BY <1>3, <1>10 DEF Held
  <2>4. \A k \in client'.desired \cap BindingKey : k.space \in client'.desired
    BY <1>0, <1>2 DEF Remembered
  <2> QED BY <1>3, <2>1, <2>2, <2>3, <2>4 DEF Remembered
<1> QED BY <1>4, <1>9, <1>11 DEF CalmNow

\* The new session becomes the client's; what is desired is still to be replayed.
LEMMA StoreSessionCalm ==
    ASSUME ClientTyped, Books, CalmNow, NEW t \in Goroutine, StoreSession(t)
    PROVE  CalmNow'
<1> USE DEF At
<1>0. /\ threads \in [Goroutine -> LocalState] /\ threads[t] \in LocalState /\ client \in Client
      /\ Known /\ Remembered /\ threads[t].pc = "registered"
      /\ UNCHANGED <<link, serverVars>>
  BY DEF ClientTyped, CalmNow, StoreSession
<1> DEFINE s == threads[t].session
<1>1. /\ threads'[t].pc = "copying" /\ \A u \in Goroutine \ {t} : threads'[u] = threads[u]
      /\ client'.clientSessionID = s
      /\ client'.rpc = client.rpc /\ client'.desired = client.desired
  BY <1>0, Stays DEF StoreSession, LocalState, Client
<1>2. /\ \A u \in Goroutine \ {t} : threads[u].pc = "idle" /\ threads'[u].pc = "idle"
      /\ Alone' /\ Linked'
  BY <1>0, <1>1, SoloMove DEF Registering, UsesConnection
<1>3. Known'
  BY <1>0, <1>1, <1>2, NilAssumption DEF Known, Books, serverVars
<1>4. Remembered'
  <2>1. \A k \in client'.desired \cap BindingKey : k.space \in client'.desired
    BY <1>0, <1>1 DEF Remembered
  <2>2. Held(s) = {} /\ (Held(client.clientSessionID) = {})'
    <3>1. Held(s) = {}
      BY <1>0 DEF Remembered
    <3> QED BY <1>0, <1>1, <3>1 DEF Held, serverVars
  <2>3. Owes(t, Held(client.clientSessionID))'
    BY <1>1, <2>2 DEF Owes
  <2>4. ASSUME NEW u \in Goroutine
        PROVE  threads'[u].pc \notin {"registered", "replaying", "served"}
    BY <1>1, <1>2
  <2> QED BY <2>1, <2>3, <2>4 DEF Remembered
<1> QED BY <1>2, <1>3, <1>4 DEF CalmNow

\* All that is desired is still to be replayed, and nothing else.
LEMMA CopyDesiredCalm ==
    ASSUME ClientTyped, Books, CalmNow, NEW t \in Goroutine, CopyDesired(t)
    PROVE  CalmNow'
<1> USE DEF At
<1>0. /\ threads \in [Goroutine -> LocalState] /\ threads[t] \in LocalState /\ client \in Client
      /\ Known /\ Remembered /\ threads[t].pc = "copying"
      /\ UNCHANGED <<client, link, serverVars>>
  BY DEF ClientTyped, CalmNow, CopyDesired
<1>1. /\ threads'[t].pc = "replaying" /\ \A u \in Goroutine \ {t} : threads'[u] = threads[u]
      /\ threads'[t].todo = client.desired
      /\ threads'[t].rpc = client.rpc /\ threads'[t].session = client.clientSessionID
  BY <1>0, Stays DEF CopyDesired, LocalState
<1>2. /\ \A u \in Goroutine \ {t} : threads[u].pc = "idle" /\ threads'[u].pc = "idle"
      /\ Alone' /\ Linked'
  BY <1>0, <1>1, SoloMove DEF Registering
<1>3. Known'
  BY <1>0, <1>1, <1>2 DEF Known, serverVars
<1>4. Remembered'
  <2>1. \A k \in client'.desired \cap BindingKey : k.space \in client'.desired
    BY <1>0 DEF Remembered
  <2>2. client.clientSessionID \in alive =>
           Held(client.clientSessionID) \subseteq client.desired
    BY <1>0, <1>2 DEF Remembered, Owes
  <2>3. client'.clientSessionID \in alive' => Owes(t, Held(client.clientSessionID))'
    BY <1>0, <1>1, <2>2 DEF Owes, Held, serverVars
  <2>4. ASSUME NEW u \in Goroutine
        PROVE  /\ threads'[u].pc \notin {"registered", "served"}
               /\ threads'[u].pc = "replaying" => threads'[u].todo \subseteq client'.desired
    BY <1>0, <1>1, <1>2
  <2> QED BY <2>1, <2>3, <2>4 DEF Remembered
<1> QED BY <1>2, <1>3, <1>4 DEF CalmNow

\* What is replayed is desired, and what is not yet replayed is still to come.
LEMMA ReplayRight ==
    ASSUME ClientTyped, CalmNow, NEW t \in Goroutine, At(t, "replaying")
    PROVE  /\ \A u \in Goroutine \ {t} : threads[u].pc = "idle"
           /\ client.rpc # Nil /\ threads[t].rpc = client.rpc
           /\ threads[t].session = client.clientSessionID
           /\ threads[t].todo \subseteq client.desired
           /\ client.clientSessionID \in alive =>
                /\ Held(client.clientSessionID) \subseteq client.desired
                /\ client.desired \subseteq Held(client.clientSessionID) \cup threads[t].todo
<1> USE DEF At
<1>1. /\ client.rpc # Nil /\ threads[t].rpc = client.rpc
      /\ threads[t].session = client.clientSessionID
      /\ threads[t].todo \subseteq client.desired
  BY DEF CalmNow, Linked, Known, Remembered, HasConnection, UsesConnection
<1>2. \A u \in Goroutine \ {t} : threads[u].pc = "idle"
  BY DEF CalmNow, Alone, Registering
<1>3. client.clientSessionID \in alive =>
         \/ Held(client.clientSessionID) = client.desired
         \/ Owes(t, Held(client.clientSessionID))
  BY <1>2 DEF CalmNow, Remembered, Owes
<1> QED BY <1>1, <1>2, <1>3 DEF Owes

\* What is replayed is held and no longer to be replayed.
LEMMA ReplayCalm ==
    ASSUME ClientTyped, Books, CalmNow, NEW t \in Goroutine, Replay(t)
    PROVE  CalmNow'
<1> USE DEF At
<1>0. /\ threads \in [Goroutine -> LocalState] /\ threads[t] \in LocalState
      /\ Known /\ Remembered /\ threads[t].pc = "replaying"
  BY DEF ClientTyped, CalmNow, Replay
<1> DEFINE s == client.clientSessionID
<1>1. PICK x \in NextToReplay(t) :
         /\ Grant(threads[t].session, x) /\ threads' = [threads EXCEPT ![t].todo = @ \ {x}]
         /\ UNCHANGED <<client, link>>
  BY <1>0, ReplayRight DEF Replay
<1>2. /\ threads'[t].pc = "replaying" /\ threads'[t].todo = threads[t].todo \ {x}
      /\ threads'[t].rpc = threads[t].rpc /\ threads'[t].session = threads[t].session
      /\ \A u \in Goroutine \ {t} : threads'[u] = threads[u]
  BY <1>0, <1>1 DEF LocalState
<1>3. /\ \A u \in Goroutine \ {t} : threads[u].pc = "idle" /\ threads'[u].pc = "idle"
      /\ Alone' /\ Linked'
  BY <1>0, <1>1, <1>2, ReplayRight, SoloMove DEF Registering
<1>4. PICK id : id = s /\ Grant(id, x)
  BY <1>0, <1>1, ReplayRight
<1>5. alive' = alive /\ id \in alive /\ Held(id)' = Held(id) \cup {x}
  BY <1>4, Granted
<1>6. Known'
  BY <1>0, <1>1, <1>2, <1>3, <1>5 DEF Known
<1>7. Remembered'
  <2>1. \A k \in client'.desired \cap BindingKey : k.space \in client'.desired
    BY <1>0, <1>1 DEF Remembered
  <2>2. /\ Held(id) \subseteq client.desired /\ threads[t].todo \subseteq client.desired
        /\ client.desired \subseteq Held(id) \cup threads[t].todo
    BY <1>0, <1>4, <1>5, ReplayRight
  <2>3. x \in threads[t].todo
    BY DEF NextToReplay
  <2>4. (Held(client.clientSessionID) = Held(id))'
    BY <1>1, <1>4 DEF Held
  <2>5. Owes(t, Held(client.clientSessionID))'
    BY <1>1, <1>2, <1>5, <2>2, <2>3, <2>4 DEF Owes
  <2>6. ASSUME NEW u \in Goroutine
        PROVE  /\ threads'[u].pc \notin {"registered", "served"}
               /\ threads'[u].pc = "replaying" => threads'[u].todo \subseteq client'.desired
    BY <1>1, <1>2, <1>3, <2>2
  <2> QED BY <2>1, <2>5, <2>6 DEF Remembered
<1> QED BY <1>3, <1>6, <1>7 DEF CalmNow

\* A replay is refused only when its session is gone: a live one has joined the spaces
\* by then, and nobody else lives to own a binding.
LEMMA ReplayRefusedCalm ==
    ASSUME ClientTyped, Books, BooksRight, CalmNow, NEW t \in Goroutine, ReplayRefused(t)
    PROVE  CalmNow'
<1> USE DEF At
<1>0. /\ threads \in [Goroutine -> LocalState] /\ threads[t] \in LocalState
      /\ Known /\ Remembered /\ threads[t].pc = "replaying" /\ Resting.pc = "idle"
      /\ UNCHANGED <<client, link, serverVars>>
  BY DEF ClientTyped, CalmNow, ReplayRefused, Resting
<1>1. threads'[t].pc = "idle" /\ \A u \in Goroutine \ {t} : threads'[u] = threads[u]
  BY <1>0, Stays DEF ReplayRefused, Return
<1>2. /\ \A u \in Goroutine \ {t} : threads[u].pc = "idle" /\ threads'[u].pc = "idle"
      /\ Alone' /\ Linked'
  BY <1>0, <1>1, SoloMove DEF Registering, UsesConnection
<1>3. Known'
  BY <1>0, <1>1, <1>2 DEF Known, serverVars
<1>4. client.clientSessionID \notin alive
  <2> SUFFICES ASSUME client.clientSessionID \in alive PROVE FALSE
    OBVIOUS
  <2> DEFINE s == client.clientSessionID
  <2>1. PICK x \in NextToReplay(t) : ~Grantable(s, x)
    BY <1>0, ReplayRight DEF ReplayRefused
  <2>2. x \in BindingKey /\ x \notin Space /\ x.space \in Space /\ x.space \notin BindingKey
    BY <2>1, SpaceAssumption DEF Grantable, BindingKey
  <2>3. x \in threads[t].todo /\ x.space \notin threads[t].todo
    BY <2>1, <2>2 DEF NextToReplay
  <2>4. x.space \in client.desired
    BY <1>0, <2>2, <2>3, ReplayRight DEF Remembered
  <2>5. x.space \in joined[s]
    BY <1>0, <2>2, <2>3, <2>4, ReplayRight DEF Held
  <2>6. owner[x] \in {Nil, s}
    BY <1>0, <1>2, <2>2 DEF BooksRight, Known
  <2> QED BY <2>1, <2>5, <2>6 DEF Grantable
<1>5. Remembered'
  BY <1>0, <1>1, <1>2, <1>4 DEF Remembered, serverVars
<1> QED BY <1>2, <1>3, <1>5 DEF CalmNow

\* Nothing is left to be replayed: the session holds what is desired.
LEMMA ReplayDoneCalm ==
    ASSUME ClientTyped, Books, CalmNow, NEW t \in Goroutine, ReplayDone(t)
    PROVE  CalmNow'
<1> USE DEF At
<1>0. /\ threads \in [Goroutine -> LocalState] /\ threads[t] \in LocalState
      /\ Known /\ Remembered /\ threads[t].pc = "replaying" /\ threads[t].todo = {}
      /\ UNCHANGED <<client, link, serverVars>>
  BY DEF ClientTyped, CalmNow, ReplayDone
<1>1. threads'[t].pc = "connected" /\ \A u \in Goroutine \ {t} : threads'[u] = threads[u]
  BY <1>0, Stays DEF ReplayDone, LocalState
<1>2. /\ \A u \in Goroutine \ {t} : threads[u].pc = "idle" /\ threads'[u].pc = "idle"
      /\ Alone' /\ Linked'
  BY <1>0, <1>1, SoloMove DEF Registering, UsesConnection
<1>3. Known'
  BY <1>0, <1>1, <1>2 DEF Known, serverVars
<1>4. Remembered'
  <2>1. client.clientSessionID \in alive => Held(client.clientSessionID) = client.desired
    BY <1>0, ReplayRight
  <2>2. (client.clientSessionID \in alive => Held(client.clientSessionID) = client.desired)'
    BY <1>0, <2>1 DEF Held, serverVars
  <2> QED BY <1>0, <1>1, <1>2, <2>2 DEF Remembered
<1> QED BY <1>2, <1>3, <1>4 DEF CalmNow

\* Who dials is the only one to connect, so it replaces no connection.
LEMMA DialCalm ==
    ASSUME ClientTyped, CalmNow, NEW t \in Goroutine, Dial(t)
    PROVE  CalmNow'
<1> USE DEF At
<1>0. /\ threads \in [Goroutine -> LocalState] /\ threads[t] \in LocalState /\ client \in Client
      /\ link \in [Connection -> {"open", "broken", "closed"}]
      /\ Alone /\ Linked /\ Known /\ Remembered /\ threads[t].pc = "dialing"
      /\ UNCHANGED serverVars /\ Nil \notin Connection
  BY NilAssumption DEF ClientTyped, CalmNow, Dial
<1>1. PICK k \in Connection \ ({client.rpc} \cup {threads[u].rpc : u \in Goroutine}) :
         client' = [client EXCEPT !.rpc = k] /\ link' = [link EXCEPT ![k] = "open"]
  BY DEF Dial
<1>2. /\ client'.rpc = k /\ client'.clientSessionID = client.clientSessionID
      /\ client'.desired = client.desired /\ link'[k] = "open"
      /\ \A l \in Connection \ {k} : link'[l] = link[l]
  BY <1>0, <1>1 DEF Client
<1>3. client.rpc = Nil /\ client.clientSessionID = Nil /\ k # Nil
  BY <1>0, <1>1 DEF Linked
<1>4. threads'[t].pc \in {"ready", "checking"}
  BY <1>0 DEF Dial, Goto, AfterConnecting, LocalState
<1>5. \A u \in Goroutine \ {t} : threads'[u] = threads[u]
  BY <1>0, Stays
<1>6. Alone'
  BY <1>0, <1>4, <1>5, AloneMove DEF Registering, Connecting, Changing
<1>7. ASSUME NEW u \in Goroutine \ {t}
      PROVE  threads[u].pc \notin HasConnection \cup UsesConnection \cup {"dialing", "panicked"}
  BY <1>0, <1>3, <1>7 DEF Linked, Alone, HasConnection, UsesConnection, Connecting
<1>8. Linked'
  <2>1. \A l \in Connection : link'[l] # "closed" =>
           \/ l = k
           \/ \E u \in Goroutine : threads'[u].pc = "unregistering" /\ threads'[u].rpc = l
    BY <1>0, <1>2, <1>3, <1>5 DEF Linked
  <2>2. ASSUME NEW u \in Goroutine \ {t}, threads[u].pc = "unregistering"
        PROVE  IF threads[u].rpc = Nil THEN threads[u].session = Nil
               ELSE link'[threads[u].rpc] # "closed" /\ threads[u].rpc # k
    <3>1. threads[u].rpc \in Connection \cup {Nil} /\ threads[u].rpc # k
      BY <1>0, <1>1 DEF LocalState
    <3> QED BY <1>0, <1>2, <2>2, <3>1 DEF Linked
  <2> QED BY <1>2, <1>3, <1>4, <1>5, <1>7, <2>1, <2>2 DEF Linked, HasConnection, UsesConnection
<1>9. Known'
  <2>1. \A l \in Connection : link'[l] = "broken" => alive' = {}
    BY <1>0, <1>2 DEF Known, serverVars
  <2> QED BY <1>0, <1>2, <1>4, <1>5, <2>1 DEF Known, serverVars
<1>10. Remembered'
  BY <1>0, <1>2, <1>4, <1>5, RememberedMove
<1> QED BY <1>6, <1>8, <1>9, <1>10 DEF CalmNow

\* A change that has been asked for and not yet been served has changed nothing.
LEMMA Settled ==
    ASSUME CalmNow, NEW t \in Goroutine, Changing(t), At(t, "sent"),
           client.clientSessionID \in alive
    PROVE  Held(client.clientSessionID) = client.desired
<1>1. ASSUME NEW u \in Goroutine PROVE ~Owes(u, Held(client.clientSessionID))
  BY DEF CalmNow, Alone, Registering, Owes, Changing, Changes, At
<1> QED BY <1>1 DEF CalmNow, Remembered

\* A request is served: what changes at the controller is what the goroutine accounts for.
LEMMA ServedMove ==
    ASSUME ClientTyped, CalmNow, NEW t \in Goroutine,
           At(t, "sent"), threads'[t].pc = "served",
           threads'[t].request = threads[t].request, threads'[t].session = threads[t].session,
           threads'[t].rpc = threads[t].rpc,
           \A u \in Goroutine \ {t} : threads'[u] = threads[u],
           UNCHANGED <<client, link, alive>>,
           Operation(t) \notin Changes => UNCHANGED serverVars,
           Operation(t) = "EnableBackend" => Subject(t).space \in client.desired,
           Operation(t) = "DetachSpace" =>
                \A k \in client.desired \cap BindingKey : k.space # Subject(t),
           Operation(t) \in {"AttachSpace", "EnableBackend"} =>
                (Held(client.clientSessionID))' = client.desired \cup {Subject(t)},
           Operation(t) \in {"DetachSpace", "DisableBackend"} =>
                (Held(client.clientSessionID))' = client.desired \ {Subject(t)}
    PROVE  CalmNow'
<1> USE DEF At
<1>0. Alone /\ Linked /\ Known /\ Remembered
  BY DEF CalmNow
<1>1. Alone'
  BY <1>0, AloneMove DEF Registering, Connecting, Changing, Operation
<1>2. Linked'
  BY <1>0 DEF Linked, HasConnection, UsesConnection
<1>3. Known'
  BY <1>0 DEF Known
<1>4. Remembered'
  <2>1. CASE Operation(t) \notin Changes
    BY <1>0, <2>1, RememberedMove DEF Operation
  <2>2. CASE Operation(t) \in Changes
    <3>1. Owes(t, Held(client.clientSessionID))'
      BY <2>2 DEF Owes, Operation, Subject, Changes
    <3>2. ASSUME NEW u \in Goroutine \ {t}
          PROVE  /\ threads'[u].pc \notin Registering
                 /\ threads'[u].pc = "served" => threads'[u].request[1] \notin Changes
      BY <1>0, <2>2, <3>2 DEF Alone, Changing, Operation
    <3>3. \A k \in client'.desired \cap BindingKey : k.space \in client'.desired
      BY <1>0 DEF Remembered
    <3>4. /\ Operation(t)' = Operation(t) /\ Subject(t)' = Subject(t)
          /\ \A u \in Goroutine : Operation(u)' = threads'[u].request[1]
      BY DEF Operation, Subject
    <3>5. {"EnableBackend", "DetachSpace"} \subseteq Changes
      BY DEF Changes
    <3> QED BY <3>1, <3>2, <3>3, <3>4, <3>5 DEF Remembered, Registering
  <2> QED BY <2>1, <2>2
<1> QED BY <1>1, <1>2, <1>3, <1>4 DEF CalmNow

\* A request that is granted, for the session that the client has.
LEMMA ServeCalm ==
    ASSUME ClientTyped, Books, AskedFor, CalmNow, NEW t \in Goroutine, Serve(t)
    PROVE  CalmNow'
<1> USE DEF At
<1> DEFINE x == Subject(t)
<1>0. /\ threads \in [Goroutine -> LocalState] /\ threads[t] \in LocalState
      /\ Known /\ Remembered /\ threads[t].pc = "sent" /\ threads[t].request \in Request
      /\ UNCHANGED <<client, link>>
  BY DEF ClientTyped, CalmNow, Serve, AskedFor
<1>1. /\ threads'[t].pc = "served" /\ threads'[t].request = threads[t].request
      /\ threads'[t].session = threads[t].session /\ threads'[t].rpc = threads[t].rpc
      /\ \A u \in Goroutine \ {t} : threads'[u] = threads[u]
  BY <1>0, Stays DEF Serve, Goto, LocalState
<1>2. PICK id : id = client.clientSessionID /\ id = threads[t].session
  BY <1>0 DEF Known
<1>3. (Held(client.clientSessionID))' = Held(id)'
  BY <1>0, <1>2 DEF Held
<1>4. Operation(t) \in Changes /\ id \in alive => Held(id) = client.desired
  BY <1>0, <1>2, Settled DEF Changing
<1>5. CASE Operation(t) \in {"AttachSpace", "EnableBackend"} /\ Grant(id, x)
  <2>1. /\ alive' = alive /\ id \in alive /\ Held(id)' = Held(id) \cup {x}
    BY <1>5, Granted
  <2>2. Operation(t) = "EnableBackend" => x.space \in client.desired
    <3> SUFFICES ASSUME Operation(t) = "EnableBackend" PROVE x.space \in client.desired
      OBVIOUS
    <3>1. x \in BindingKey /\ x \notin Space
      BY <1>0, RequestTyped, SpaceAssumption DEF Operation, Subject
    <3>2. x.space \in joined[id]
      BY <1>5, <3>1 DEF Grant, Server!Claim
    <3> QED BY <1>4, <2>1, <3>2 DEF Held, Changes
  <2> QED BY <1>0, <1>1, <1>3, <1>4, <1>5, <2>1, <2>2, ServedMove DEF Changes
<1>6. CASE Operation(t) = "DetachSpace" /\ Server!Leave(id, x, {})
  <2>0. x \in Space
    BY <1>0, <1>6, RequestTyped DEF Operation, Subject
  <2>1. /\ alive' = alive /\ id \in alive /\ id \in Session /\ Held(id)' = Held(id) \ {x}
    BY <1>6, <2>0, GivenUp
  <2>2. ASSUME NEW k \in client.desired \cap BindingKey PROVE k.space # x
    <3>1. k \in Held(id) /\ k \notin joined[id]
      BY <1>4, <1>6, <2>1, SpaceAssumption DEF Books, Changes
    <3>2. owner[k] = id
      BY <3>1 DEF Held
    <3> QED BY <1>6, <3>2 DEF Server!Leave
  <2> QED BY <1>0, <1>1, <1>3, <1>4, <1>6, <2>1, <2>2, ServedMove DEF Changes
<1>7. CASE Operation(t) = "DisableBackend" /\ Server!Release(id, x)
  <2>0. x \in BindingKey
    BY <1>0, <1>7, RequestTyped DEF Operation, Subject
  <2>1. /\ alive' = alive /\ id \in alive /\ Held(id)' = Held(id) \ {x}
    BY <1>7, <2>0, GivenUp
  <2> QED BY <1>0, <1>1, <1>3, <1>4, <1>7, <2>1, ServedMove DEF Changes
<1>8. CASE Operation(t) \in {"Query", "GetStatus"} /\ UNCHANGED serverVars
  BY <1>0, <1>1, <1>8, ServedMove DEF serverVars, Changes
<1> QED BY <1>2, <1>5, <1>6, <1>7, <1>8 DEF Serve

\* Nothing is there to release, and so nothing was desired.
LEMMA ServeNothingCalm ==
    ASSUME ClientTyped, Books, BooksRight, AskedFor, CalmNow, ~disturbed', NEW t \in Goroutine,
           ServeNothing(t)
    PROVE  CalmNow'
<1> USE DEF At
<1> DEFINE x == Subject(t)
           s == client.clientSessionID
<1>0. /\ threads \in [Goroutine -> LocalState] /\ threads[t] \in LocalState
      /\ Known /\ Remembered /\ threads[t].pc = "sent" /\ threads[t].request \in Request
      /\ UNCHANGED <<client, link, serverVars>>
  BY DEF ClientTyped, CalmNow, ServeNothing, AskedFor
<1>1. /\ threads'[t].pc = "served" /\ threads'[t].request = threads[t].request
      /\ threads'[t].session = threads[t].session /\ threads'[t].rpc = threads[t].rpc
      /\ \A u \in Goroutine \ {t} : threads'[u] = threads[u]
  BY <1>0, Stays DEF ServeNothing, Goto, LocalState
<1>2. s = threads[t].session /\ s \in alive /\ s \in Session /\ s # Nil
  BY <1>0, NilAssumption DEF Known, ServeNothing, NoticesTooLate, Books
<1>3. Operation(t) \in {"DetachSpace", "DisableBackend"}
  BY DEF ServeNothing, NothingToRelease
<1>4. Held(s) = client.desired /\ (Held(client.clientSessionID))' = client.desired
  BY <1>0, <1>2, <1>3, Settled DEF Changing, Changes, Held, serverVars
<1>5. x \notin client.desired
  <2>1. CASE Operation(t) = "DetachSpace"
    <3>1. x \in Space /\ x \notin BindingKey
      BY <1>0, <2>1, RequestTyped, SpaceAssumption DEF Operation, Subject
    <3>2. x \notin joined[s]
      BY <1>2, <2>1 DEF ServeNothing, NothingToRelease
    <3> QED BY <1>4, <3>1, <3>2 DEF Held
  <2>2. CASE Operation(t) = "DisableBackend"
    <3>1. x \in BindingKey /\ x \notin Space
      BY <1>0, <2>2, RequestTyped, SpaceAssumption DEF Operation, Subject
    <3>2. owner[x] = Nil /\ joined[s] \subseteq Space
      BY <1>2, <2>2 DEF ServeNothing, NothingToRelease, Books
    <3> QED BY <1>2, <1>4, <3>1, <3>2 DEF Held
  <2> QED BY <1>3, <2>1, <2>2
<1>6. ASSUME Operation(t) = "DetachSpace", NEW k \in client.desired \cap BindingKey
      PROVE  k.space # x
  <2>1. k \notin joined[s] /\ x \notin joined[s]
    BY <1>2, <1>6, SpaceAssumption DEF Books, ServeNothing, NothingToRelease
  <2>2. owner[k] = s
    BY <1>4, <2>1 DEF Held
  <2> QED BY <1>2, <2>1, <2>2 DEF BooksRight
<1> QED BY <1>0, <1>1, <1>3, <1>4, <1>5, <1>6, ServedMove DEF serverVars, Changes

\* The answer makes what is desired what is held.
LEMMA AnswerCalm ==
    ASSUME ClientTyped, AskedFor, CalmNow, NEW t \in Goroutine, Answer(t)
    PROVE  CalmNow'
<1> USE DEF At
<1> DEFINE x == Subject(t)
           s == client.clientSessionID
<1>0. /\ threads \in [Goroutine -> LocalState] /\ threads[t] \in LocalState /\ client \in Client
      /\ Alone /\ Linked /\ Known /\ Remembered
      /\ threads[t].pc = "served" /\ threads[t].request \in Request
      /\ UNCHANGED <<link, serverVars>> /\ Resting.pc = "idle"
  BY DEF ClientTyped, CalmNow, Answer, AskedFor, Resting
<1>1. threads'[t].pc = "idle" /\ \A u \in Goroutine \ {t} : threads'[u] = threads[u]
  BY <1>0, Stays DEF Answer, Return
<1>2. /\ client'.rpc = client.rpc /\ client'.clientSessionID = s
      /\ client'.desired =
            CASE Operation(t) \in {"AttachSpace", "EnableBackend"} -> client.desired \cup {x}
              [] Operation(t) \in {"DetachSpace", "DisableBackend"} -> client.desired \ {x}
              [] OTHER -> client.desired
  BY <1>0 DEF Answer, Client
<1>3. Alone'
  BY <1>0, <1>1, AloneMove DEF Registering, Connecting, Changing
<1>4. Linked'
  BY <1>0, <1>1, <1>2 DEF Linked, HasConnection, UsesConnection
<1>5. Known'
  BY <1>0, <1>1, <1>2 DEF Known, serverVars
<1>6. Remembered'
  <2>1. CASE Operation(t) \notin Changes
    BY <1>0, <1>1, <1>2, <2>1, RememberedMove DEF Changes
  <2>2. CASE Operation(t) \in Changes
    <3>1. ASSUME NEW u \in Goroutine
          PROVE  /\ threads'[u].pc \notin Registering
                 /\ threads'[u].pc = "served" => threads'[u].request[1] \notin Changes
      BY <1>0, <1>1, <2>2, <3>1 DEF Alone, Changing, Operation, Registering
    <3>2. s \in alive => Held(s) = client'.desired
      BY <1>0, <1>2, <2>2 DEF Remembered, Owes
    <3>3. (client.clientSessionID \in alive => Held(client.clientSessionID) = client.desired)'
      BY <1>0, <1>2, <3>2 DEF Held, serverVars
    <3>4. \A k \in client'.desired \cap BindingKey : k.space \in client'.desired
      <4>1. /\ Operation(t) \in {"AttachSpace", "DetachSpace"} => x \in Space /\ x \notin BindingKey
            /\ Operation(t) \in {"EnableBackend", "DisableBackend"} => x \in BindingKey /\ x \notin Space
            /\ \A k \in BindingKey : k.space \in Space
        BY <1>0, RequestTyped, SpaceAssumption DEF Operation, Subject, BindingKey
      <4>2. \A k \in client.desired \cap BindingKey : k.space \in client.desired
        BY <1>0 DEF Remembered
      <4>3. Operation(t) = "EnableBackend" => x.space \in client.desired
        BY <1>0 DEF Remembered
      <4>4. Operation(t) = "DetachSpace" =>
               \A k \in client.desired \cap BindingKey : k.space # x
        BY <1>0 DEF Remembered
      <4>5. CASE Operation(t) \in {"AttachSpace", "EnableBackend"}
        <5>1. client'.desired = client.desired \cup {x}
          BY <1>2, <4>5
        <5> QED BY <4>1, <4>2, <4>3, <4>5, <5>1
      <4>6. CASE Operation(t) \in {"DetachSpace", "DisableBackend"}
        <5>1. client'.desired = client.desired \ {x}
          BY <1>2, <4>6
        <5> QED BY <4>1, <4>2, <4>4, <4>6, <5>1
      <4> QED BY <2>2, <4>5, <4>6 DEF Changes
    <3>5. /\ \A u \in Goroutine : Operation(u)' = threads'[u].request[1]
          /\ {"EnableBackend", "DetachSpace"} \subseteq Changes
      BY DEF Operation, Changes
    <3> QED BY <3>1, <3>3, <3>4, <3>5 DEF Remembered, Registering
  <2> QED BY <2>1, <2>2
<1> QED BY <1>3, <1>4, <1>5, <1>6 DEF CalmNow

\* A connection that broke says that the controller has no session: both are forgotten.
LEMMA RecoverCalm ==
    ASSUME ClientTyped, CalmNow, ~disturbed', NEW t \in Goroutine, Recover(t)
    PROVE  CalmNow'
<1> USE DEF At
<1>0. /\ threads \in [Goroutine -> LocalState] /\ threads[t] \in LocalState /\ client \in Client
      /\ link \in [Connection -> {"open", "broken", "closed"}]
      /\ Linked /\ Known /\ Remembered /\ threads[t].pc \in {"sent", "served"}
      /\ UNCHANGED serverVars
  BY DEF ClientTyped, CalmNow, Recover
<1>1. threads'[t].pc = "connecting" /\ \A u \in Goroutine \ {t} : threads'[u] = threads[u]
  BY <1>0, Stays DEF Recover, Resting
<1>2. \A u \in Goroutine \ {t} : threads[u].pc = "idle" /\ threads'[u].pc = "idle"
  BY <1>0, <1>1 DEF Recover, Disturbs, Others, LocalState
<1>3. /\ client'.rpc = Nil /\ client'.clientSessionID = Nil /\ client'.desired = client.desired
  BY <1>0 DEF Recover, Client
<1>4. client.rpc # Nil /\ threads[t].rpc = client.rpc
  BY <1>0 DEF Linked, HasConnection, UsesConnection
<1>5. client.rpc \in Connection /\ link' = [link EXCEPT ![client.rpc] = "closed"]
  BY <1>0, <1>4 DEF Recover, Client
<1>6. \A k \in Connection : link'[k] = "closed"
  BY <1>0, <1>2, <1>5 DEF Linked
<1>7. alive = {} /\ alive' = {}
  BY <1>0, <1>4, <1>5 DEF Recover, Known, serverVars
<1>8. Alone'
  BY <1>1, <1>2 DEF Alone, Registering, Connecting, Changing
<1>9. Linked'
  BY <1>1, <1>2, <1>3, <1>6 DEF Linked, HasConnection, UsesConnection
<1>10. Known'
  BY <1>1, <1>2, <1>7 DEF Known
<1>11. Remembered'
  BY <1>0, <1>1, <1>2, <1>3, <1>7 DEF Remembered
<1> QED BY <1>8, <1>9, <1>10, <1>11 DEF CalmNow

\* Everything is forgotten, and the shutdown has the session and the connection.
LEMMA ShutdownCalm ==
    ASSUME ClientTyped, Books, CalmNow, ~disturbed', NEW t \in Goroutine, Shutdown(t)
    PROVE  CalmNow'
<1> USE DEF At
<1>0. /\ threads \in [Goroutine -> LocalState] /\ threads[t] \in LocalState /\ client \in Client
      /\ Linked /\ Known /\ threads[t].pc = "idle"
      /\ UNCHANGED <<link, serverVars>> /\ Nil \notin Session /\ Nil \notin Connection
  BY NilAssumption DEF ClientTyped, CalmNow, Shutdown
<1>1. /\ threads'[t].pc = "unregistering" /\ threads'[t].rpc = client.rpc
      /\ threads'[t].session = client.clientSessionID
      /\ \A u \in Goroutine \ {t} : threads'[u] = threads[u]
  BY <1>0, Stays DEF Shutdown, Resting
<1>2. \A u \in Goroutine \ {t} : threads[u].pc = "idle" /\ threads'[u].pc = "idle"
  BY <1>0, <1>1 DEF Shutdown, Disturbs, Others, LocalState
<1>3. client'.rpc = Nil /\ client'.clientSessionID = Nil /\ client'.desired = {}
  BY DEF Shutdown, NewClient
<1>4. Alone'
  BY <1>1, <1>2 DEF Alone, Registering, Connecting, Changing
<1>5. Linked'
  BY <1>0, <1>1, <1>2, <1>3 DEF Linked, HasConnection, UsesConnection
<1>6. Known'
  BY <1>0, <1>1, <1>2, <1>3 DEF Known, serverVars
<1>7. Remembered'
  BY <1>0, <1>1, <1>2, <1>3 DEF Remembered, Books, serverVars
<1> QED BY <1>4, <1>5, <1>6, <1>7 DEF CalmNow

\* Sessions end, and whoever stops has no part in what the client owes.
LEMMA RememberedEnds ==
    ASSUME Books, Remembered, NEW ended \in SUBSET alive, Server!End(ended),
           client'.clientSessionID = client.clientSessionID, client'.desired = client.desired,
           \A u \in Goroutine :
              \/ threads'[u] = threads[u]
              \/ threads[u].pc \notin {"copying", "replaying", "served"} /\ threads'[u].pc = "idle"
    PROVE  Remembered'
<1> USE DEF At
<1>1. /\ alive' \subseteq alive
      /\ \A s \in alive' : Held(s)' = Held(s)
      /\ \A s \in Session : Held(s)' \subseteq Held(s)
  BY Ended
<1>2. \A k \in client'.desired \cap BindingKey : k.space \in client'.desired
  BY DEF Remembered
<1>3. client'.clientSessionID \in alive' =>
         (Held(client.clientSessionID))' = Held(client.clientSessionID)
  <2> SUFFICES ASSUME client'.clientSessionID \in alive'
               PROVE  (Held(client.clientSessionID))' = Held(client.clientSessionID)
    OBVIOUS
  <2>1. PICK id : id = client.clientSessionID
    OBVIOUS
  <2>2. Held(id)' = Held(id)
    BY <1>1, <2>1
  <2> QED BY <2>1, <2>2 DEF Held
<1>4. ASSUME NEW u \in Goroutine, threads'[u].pc # "idle" PROVE threads'[u] = threads[u]
  BY <1>4
<1>5. ASSUME NEW u \in Goroutine
      PROVE  (At(u, "registered") =>
                threads[u].session \in Session /\ Held(threads[u].session) = {})'
  <2> SUFFICES ASSUME threads'[u].pc = "registered"
               PROVE  (threads[u].session \in Session /\ Held(threads[u].session) = {})'
    OBVIOUS
  <2>1. PICK id \in Session : id = threads[u].session /\ Held(id) = {}
    BY <1>4 DEF Remembered
  <2>2. Held(id)' = {}
    BY <1>1, <2>1
  <2> QED BY <1>4, <2>1, <2>2 DEF Held
<1>6. ASSUME NEW u \in Goroutine
      PROVE  (/\ At(u, "replaying") => threads[u].todo \subseteq client.desired
              /\ At(u, "served") /\ Operation(u) = "EnableBackend"
                     => Subject(u).space \in client.desired
              /\ At(u, "served") /\ Operation(u) = "DetachSpace"
                     => \A k \in client.desired \cap BindingKey : k.space # Subject(u))'
  BY <1>4 DEF Remembered, Operation, Subject
<1>7. ASSUME NEW u \in Goroutine
      PROVE  (At(u, "served") /\ Operation(u) \in Changes /\ client.clientSessionID \in alive
                => Owes(u, Held(client.clientSessionID)))'
  BY <1>1, <1>3, <1>4 DEF Remembered, Operation, Subject, Owes
<1>8. (client.clientSessionID \in alive =>
         \/ Held(client.clientSessionID) = client.desired
         \/ \E u \in Goroutine : Owes(u, Held(client.clientSessionID)))'
  <2> SUFFICES ASSUME client'.clientSessionID \in alive'
               PROVE  (\/ Held(client.clientSessionID) = client.desired
                       \/ \E u \in Goroutine : Owes(u, Held(client.clientSessionID)))'
    OBVIOUS
  <2>1. CASE Held(client.clientSessionID) = client.desired
    BY <1>3, <2>1
  <2>2. ASSUME NEW u \in Goroutine, Owes(u, Held(client.clientSessionID))
        PROVE  Owes(u, Held(client.clientSessionID))'
    <3>1. threads'[u] = threads[u]
      BY <2>2 DEF Owes
    <3> QED BY <1>3, <2>2, <3>1 DEF Owes, Operation, Subject
  <2> QED BY <1>1, <2>1, <2>2 DEF Remembered
<1> QED BY <1>2, <1>5, <1>6, <1>7, <1>8 DEF Remembered

\* The session of the shutdown ends, or the controller had lost it.
LEMMA UnregisterCalm ==
    ASSUME ClientTyped, Books, CalmNow, NEW t \in Goroutine, Unregister(t)
    PROVE  CalmNow'
<1> USE DEF At
<1>0. /\ threads \in [Goroutine -> LocalState] /\ threads[t] \in LocalState
      /\ link \in [Connection -> {"open", "broken", "closed"}]
      /\ Alone /\ Linked /\ Known /\ Remembered /\ threads[t].pc = "unregistering"
      /\ client' = client /\ Resting.pc = "idle" /\ Nil \notin Connection
      /\ Nil \notin alive /\ threads[t].rpc \in Connection \cup {Nil}
  BY NilAssumption DEF ClientTyped, CalmNow, Unregister, Resting, Books, LocalState
<1>1. threads'[t].pc = "idle" /\ \A u \in Goroutine \ {t} : threads'[u] = threads[u]
  BY <1>0, Stays DEF Unregister, Return
<1>2. \A u \in Goroutine \ {t} : threads[u].pc \notin Registering \cup {"unregistering"}
  BY <1>0 DEF Alone
<1>3. Alone'
  BY <1>0, <1>1, AloneMove DEF Registering, Connecting, Changing
<1>4. \/ threads[t].rpc = Nil /\ link' = link
      \/ threads[t].rpc # Nil /\ link' = [link EXCEPT ![threads[t].rpc] = "closed"]
  BY DEF Unregister
<1>5. Linked'
  <2>1. client.rpc # Nil => link'[client.rpc] # "closed"
    <3>1. threads[t].rpc # Nil => threads[t].rpc # client.rpc
      BY <1>0 DEF Linked
    <3>2. client.rpc # Nil => client.rpc \in Connection /\ link[client.rpc] # "closed"
      BY <1>0 DEF Linked, ClientTyped, Client
    <3> QED BY <1>0, <1>4, <3>1, <3>2
  <2>2. \A k \in Connection : link'[k] # "closed" => k = client.rpc
    <3>1. \A k \in Connection : link[k] # "closed" => k = client.rpc \/ k = threads[t].rpc
      BY <1>0, <1>2 DEF Linked
    <3> QED BY <1>0, <1>4, <3>1
  <2> QED BY <1>0, <1>1, <1>2, <2>1, <2>2 DEF Linked, HasConnection, UsesConnection
<1>6. PICK ended \in SUBSET alive :
         /\ Server!End(ended) \/ (ended = {} /\ UNCHANGED serverVars)
         /\ threads[t].session \notin alive \ ended
  <2>1. CASE threads[t].rpc = Nil
    <3>1. UNCHANGED serverVars
      BY <2>1 DEF Unregister
    <3>2. threads[t].session \notin alive
      BY <1>0, <2>1 DEF Linked
    <3>3. {} \in SUBSET alive /\ alive \ {} = alive
      OBVIOUS
    <3> QED BY <3>1, <3>2, <3>3
  <2>2. CASE threads[t].rpc # Nil /\ link[threads[t].rpc] = "open"
    BY <2>2 DEF Unregister
  <2>3. CASE threads[t].rpc # Nil /\ link[threads[t].rpc] = "broken"
    BY <1>0, <2>3 DEF Unregister, Known
  <2>4. threads[t].rpc # Nil => link[threads[t].rpc] \in {"open", "broken"}
    BY <1>0 DEF Linked
  <2> QED BY <2>1, <2>2, <2>3, <2>4
<1>7. alive' = alive \ ended
  BY <1>6 DEF Server!End, serverVars
<1>8. Known'
  <2>1. \A k \in Connection : link'[k] = "broken" => link[k] = "broken"
    BY <1>0, <1>4
  <2>2. \A s \in alive' : s = client.clientSessionID
    BY <1>0, <1>2, <1>6, <1>7 DEF Known, Registering
  <2> QED BY <1>0, <1>1, <1>2, <1>7, <2>1, <2>2 DEF Known
<1>9. Remembered'
  <2>1. CASE Server!End(ended)
    BY <1>0, <1>1, <2>1, RememberedEnds
  <2>2. CASE UNCHANGED serverVars
    BY <1>0, <1>1, <2>2, RememberedMove
  <2> QED BY <1>6, <2>1, <2>2
<1> QED BY <1>3, <1>5, <1>8, <1>9 DEF CalmNow

\* The controller restarts, gRPC connects again, a lease is over.
LEMMA WorldCalm ==
    ASSUME ClientTyped, Books, CalmNow,
           \/ Restart \/ (\E k \in Connection : Reconnect(k)) \/ (\E s \in Session : Lapse(s))
    PROVE  CalmNow'
<1> USE DEF At
<1>0. /\ threads' = threads /\ client' = client
      /\ link \in [Connection -> {"open", "broken", "closed"}]
      /\ client \in Client /\ threads \in [Goroutine -> LocalState]
      /\ Alone /\ Linked /\ Known /\ Remembered
  BY DEF ClientTyped, CalmNow, Restart, Reconnect, Lapse
<1>1. \A k \in Connection : link'[k] = "closed" <=> link[k] = "closed"
  BY <1>0 DEF Restart, Reconnect, Lapse
<1>2. Alone'
  BY <1>0 DEF Alone, Changing, Operation
<1>3. Linked'
  <2>1. /\ client.rpc \in Connection \cup {Nil}
        /\ \A t \in Goroutine : threads[t].rpc \in Connection \cup {Nil}
    BY <1>0 DEF Client, LocalState
  <2> QED BY <1>0, <1>1, <2>1 DEF Linked
<1>4. CASE Restart
  <2>1. alive' = {} /\ Remembered'
    BY <1>0, <1>4, RememberedEnds DEF Restart, Server!End
  <2>2. Known'
    BY <1>0, <2>1 DEF Known
  <2> QED BY <1>2, <1>3, <2>1, <2>2 DEF CalmNow
<1>5. ASSUME NEW k \in Connection, Reconnect(k) PROVE CalmNow'
  <2>1. /\ UNCHANGED serverVars
        /\ \A l \in Connection : link'[l] = "broken" => link[l] = "broken"
    BY <1>0, <1>5 DEF Reconnect
  <2>2. Known'
    BY <1>0, <2>1 DEF Known, serverVars
  <2>3. Remembered'
    BY <1>0, <2>1 DEF Remembered, Owes, Held, Operation, Subject, serverVars
  <2> QED BY <1>2, <1>3, <2>2, <2>3 DEF CalmNow
<1>6. ASSUME NEW s \in Session, Lapse(s) PROVE CalmNow'
  <2>1. alive' \subseteq alive /\ link' = link /\ Remembered'
    BY <1>0, <1>6, RememberedEnds DEF Lapse, Server!End
  <2>2. Known'
    BY <1>0, <2>1 DEF Known
  <2> QED BY <1>2, <1>3, <2>1, <2>2 DEF CalmNow
<1> QED BY <1>4, <1>5, <1>6

-----------------------------------------------------------------------------
(* The theorems.                                                           *)

\* What a step does to a client that it leaves undisturbed.
LEMMA CalmStep ==
    ASSUME ClientTyped, Books, BooksRight, AskedFor, Calm, Next PROVE Calm'
<1> SUFFICES ASSUME ~disturbed' PROVE CalmNow'
  BY DEF Calm
<1>0. ASSUME NEW t \in Goroutine, Fail(t) PROVE FALSE
  BY <1>0 DEF Fail
<1>1. ~disturbed
  BY <1>0 DEF Next, Step, Call, EnsureConnected, Dial, EnsureRegistered, Register, StoreSession,
              CopyDesired, Replay, ReplayRefused, ReplayDone, EnsureRenewer, Send, Serve,
              ServeNothing, Refused, Answer, SendPanics, Recover, GiveUp, Unregister, Shutdown,
              Restart, Reconnect, Lapse, Disturbs, NoticesTooLate, Panic
<1>2. CalmNow
  BY <1>1 DEF Calm
<1>3. ASSUME NEW t \in Goroutine, SendPanics(t) PROVE FALSE
  BY <1>2, <1>3 DEF SendPanics, At, CalmNow, Linked, HasConnection, UsesConnection
<1> QED BY <1>0, <1>2, <1>3, QuietSteps, DialCalm, RegisterCalm, StoreSessionCalm,
           CopyDesiredCalm, ReplayCalm, ReplayRefusedCalm, ReplayDoneCalm, ServeCalm,
           ServeNothingCalm, AnswerCalm, RecoverCalm, UnregisterCalm, ShutdownCalm, WorldCalm
       DEF Next, Step

\* The inductive invariant of the Go client: types, what the controller's books say, and
\* that an undisturbed client is alone, linked, known and remembered, for any number of
\* goroutines, connections and sessions.
THEOREM GoClientSound == Spec => []GoInv
<1>1. Init => GoInv
  <2> SUFFICES ASSUME Init PROVE GoInv
    OBVIOUS
  <2>1. Resting \in LocalState /\ Resting.pc = "idle" /\ Nil \notin Session
    BY NilAssumption DEF Resting, LocalState, Pc
  <2>2. ClientTyped /\ Books
    <3>1. Books
      BY DEF Init, Server!Init, Books
    <3>2. client \in Client /\ upsets \in 0 .. MaxUpsets
      BY BoundsAssumption DEF Init, NewClient, Client
    <3> QED BY <2>1, <3>1, <3>2 DEF Init, ClientTyped
  <2>3. \A t \in Goroutine : threads[t].pc = "idle"
    BY <2>1 DEF Init
  <2>4. AskedFor /\ BooksRight
    BY <2>3 DEF AskedFor, BooksRight, Init, Server!Init
  <2>5. Alone /\ Linked
    BY <2>3 DEF Alone, Linked, At, Changing, Init, NewClient,
                Registering, Connecting, HasConnection, UsesConnection
  <2>6. Known /\ Remembered
    BY <2>3 DEF Known, Remembered, At, Init, Server!Init, NewClient
  <2> QED BY <2>2, <2>4, <2>5, <2>6, TypesSplit DEF GoInv, Calm, CalmNow
<1>2. GoInv /\ [Next]_vars => GoInv'
  <2> SUFFICES ASSUME GoInv, [Next]_vars PROVE GoInv'
    OBVIOUS
  <2>1. ClientTyped /\ Books /\ AskedFor /\ BooksRight /\ Calm
    BY TypesSplit DEF GoInv
  <2>2. (ClientTyped /\ Books)' => TypeOK'
    BY DEF ClientTyped, Books, TypeOK, Server!TypeOK
  <2>3. CASE Next
    <3>1. ClientTyped' /\ AskedFor'
      BY <2>1, <2>3, ClientTypedStep
    <3>2. Books' /\ BooksRight'
      <4>1. CASE Server!Next
        BY <2>1, <4>1, BooksStep
      <4>2. CASE UNCHANGED serverVars
        BY <2>1, <4>2 DEF serverVars, Books, BooksRight
      <4> QED BY <2>1, <2>3, <4>1, <4>2, ServerSteps
    <3>3. Calm'
      BY <2>1, <2>3, CalmStep
    <3> QED BY <2>2, <3>1, <3>2, <3>3 DEF GoInv
  <2>4. CASE UNCHANGED vars
    <3>1. ClientTyped' /\ AskedFor' /\ Books' /\ BooksRight'
      BY <2>1, <2>4 DEF vars, ClientTyped, AskedFor, Books, BooksRight, Upset
    <3>2. disturbed' = disturbed /\ (CalmNow => CalmNow')
      BY <2>4 DEF vars, CalmNow, Alone, Linked, Known, Remembered, Owes, Held, Changing,
                  Operation, Subject, At
    <3> QED BY <2>1, <2>2, <3>1, <3>2 DEF GoInv, Calm
  <2> QED BY <2>3, <2>4
<1> QED BY <1>1, <1>2, PTL DEF Spec

\* The fields of the Go client, its connections and its goroutines keep their types.
THEOREM GoClientTypes == Spec => []TypeOK
<1>1. GoInv => TypeOK
  BY DEF GoInv
<1> QED BY <1>1, GoClientSound, PTL

\* A client that nothing disturbed holds at the controller all it remembers, whenever no
\* call is under way (replayDesiredState).
THEOREM RememberedIsHeld == Spec => []HoldsRemembered
<1>1. GoInv => HoldsRemembered
  BY DEF GoInv, Calm, CalmNow, Remembered, Owes, HoldsRemembered, At
<1> QED BY <1>1, GoClientSound, PTL

\* It leaves no session at the controller that it does not know (ensureRegistered,
\* resetConnection, Shutdown).
THEOREM NoSessionStrays == Spec => []NoStraySession
<1>1. GoInv => NoStraySession
  BY DEF GoInv, Calm, CalmNow, Known, NoStraySession, At
<1> QED BY <1>1, GoClientSound, PTL

\* Its host does not end for want of a connection unless goroutines came in each other's
\* way (withSession, resetConnection).
THEOREM AloneNoPanic == Spec => []NoPanicAlone
<1>1. GoInv => NoPanicAlone
  BY DEF GoInv, Calm, CalmNow, Linked, NoPanicAlone
<1> QED BY <1>1, GoClientSound, PTL

\* The Go client uses the controller as SessionRegistry lets it, disturbed or not: what
\* it relies on is what ControllerRuntime implements.
THEOREM GoUsesTheRegistry == Spec => Server!Spec
<1>1. Init => Server!Init
  BY DEF Init
<1>2. GoInv /\ [Next]_vars => [Server!Next]_(Server!vars)
  <2> SUFFICES ASSUME GoInv, [Next]_vars PROVE Server!Next \/ UNCHANGED Server!vars
    OBVIOUS
  <2>1. CASE Next
    BY <2>1, ServerSteps, TypesSplit DEF GoInv, serverVars, Server!vars
  <2>2. CASE UNCHANGED vars
    BY <2>2 DEF vars, Server!vars
  <2> QED BY <2>1, <2>2
<1> QED BY <1>1, <1>2, GoClientSound, PTL DEF Spec, Server!Spec
=============================================================================
