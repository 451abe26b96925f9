--------------------------- MODULE FfiClientProofs ---------------------------
(***************************************************************************)
(* Proofs about FfiClient, for any number of threads, clients and          *)
(* addresses.  FfiInv is the inductive invariant: who owns a shell, what a *)
(* thread may have found under the handle it was given, and who holds      *)
(* which lock.                                                             *)
(***************************************************************************)
EXTENDS FfiClient, TLAPS

\* A shell stands for a client that got its address; a client that nobody has taken
\* has its shell, and the registry leads to such clients only.
HandlesRight ==
    /\ \A c \in Client : inner[c] = "unborn" <=> where[c] = Nil
    /\ \A c \in Client : inner[c] = "some" => shell[where[c]] = c
    /\ \A a \in Address : shell[a] # Nil => where[shell[a]] = a
    /\ \A a \in Address :
         registry[a] # Nil => shell[a] = registry[a] /\ inner[registry[a]] = "some"

\* A call has a handle that was given out, and found a client that had it.
CallsRight ==
    \A t \in Thread :
        /\ threads[t].pc \notin {"idle", "holding"} => where[threads[t].aim] \in Address
        /\ threads[t].found # Nil <=> threads[t].pc \in {"entering"} \cup Inside \cup Freeing
        /\ threads[t].found # Nil => where[threads[t].found] = where[threads[t].aim]
        /\ threads[t].aim = Nil <=> threads[t].pc \in {"idle", "holding"}

\* A free that found its client owns the shell, which the registry no longer knows.
FreesRight ==
    \A t \in Thread : threads[t].pc \in Freeing =>
        /\ registry[where[threads[t].aim]] = Nil
        /\ shell[where[threads[t].aim]] = threads[t].found
        /\ inner[threads[t].found] = (IF threads[t].pc = "taking" THEN "some" ELSE "none")
        /\ \A u \in Thread : threads[u].pc \in Freeing /\ threads[u].found = threads[t].found
                               => u = t

\* Who is inside an operation, or between the take and the drop, has the lock.
LocksRight ==
    \A t \in Thread : threads[t].pc \in Inside \cup {"stopping", "dropping"} =>
        lock[threads[t].found] = t

\* The ledger has the blocks of the result it follows.
LedgerRight ==
    /\ strays = EmptyBag
    /\ \/ results = {} /\ heap = EmptyBag
       \/ \E r \in Result : results = {r} /\ heap = Blocks(r.type, r.shape)

\* What is about handles and locks alone.
SoundHandles ==
    /\ HandlesRight
    /\ CallsRight
    /\ FreesRight
    /\ LocksRight
    /\ RunsOnlyLive
    /\ MisdirectedOnlyAfterFree

FfiInv ==
    /\ TypeOK
    /\ SoundHandles
    /\ StreamsCollected
    /\ LedgerRight

-----------------------------------------------------------------------------
(* What a call leaves behind.                                              *)

\* A call that delivers comes to rest.
LEMMA DeliverReturns ==
    ASSUME NEW t \in Thread, NEW types, Deliver(t, types)
    PROVE  \E rest \in {Idle, Holding} : threads' = [threads EXCEPT ![t] = rest]
  BY DEF Deliver, Return

\* The result that it leaves in the ledger is one of its type.
LEMMA DeliverResult ==
    ASSUME NEW t \in Thread, NEW types \in SUBSET ResultType, Deliver(t, types)
    PROVE  \/ UNCHANGED ledger
           \/ /\ \E r \in Result : results' = {r} /\ heap' = Blocks(r.type, r.shape)
              /\ strays' = EmptyBag /\ misfits' = {}
<1>1. ASSUME NEW type \in types, NEW r \in Results(type) PROVE r \in Result
  BY <1>1 DEF Result
<1> QED
  BY <1>1 DEF Deliver

\* What an operation yields has such a type.
LEMMA AnswersAreResults ==
    /\ \A needs \in Needs : ResultTypes(needs) \cup {"string"} \subseteq ResultType
    /\ {"string"} \subseteq ResultType /\ {"stream", "string"} \subseteq ResultType
    /\ {"none", "string"} \subseteq ResultType
<1>1. Connect \in Operations /\ Connect.result = "none" /\ Connect.needs = "renewal"
  BY DEF Operations, Connect, Operation
<1>2. "none" \in ResultTypes("renewal")
  BY <1>1 DEF ResultTypes
<1> QED
  BY <1>2 DEF ResultType, Needs

\* The ledger stays right when a call delivers.
LEMMA DeliverLedger ==
    ASSUME NEW t \in Thread, NEW types \in SUBSET ResultType, Deliver(t, types), LedgerRight
    PROVE  LedgerRight'
<1>1. CASE UNCHANGED ledger
  BY <1>1 DEF ledger, LedgerRight
<1>2. CASE ~UNCHANGED ledger
  BY <1>2, DeliverResult DEF LedgerRight
<1> QED
  BY <1>1, <1>2

-----------------------------------------------------------------------------
(* Blocks.                                                                 *)

\* One of each is a bag, of what it is made from.
LEMMA BagOfSet == ASSUME NEW S PROVE IsABag(SetToBag(S)) /\ BagToSet(SetToBag(S)) = S
  BY DEF IsABag, SetToBag, BagToSet

\* The sum of two bags is a bag, with the elements of both.
LEMMA BagSum ==
    ASSUME NEW A, NEW B, IsABag(A), IsABag(B)
    PROVE  IsABag(A (+) B) /\ BagToSet(A (+) B) = BagToSet(A) \cup BagToSet(B)
  BY DEF IsABag, (+), BagToSet

\* What a bag has more than another is a bag.
LEMMA BagRest == ASSUME NEW A, NEW B, IsABag(A), IsABag(B) PROVE IsABag(A (-) B)
  BY DEF IsABag, (-)

\* A bag has nothing more than itself.
LEMMA BagWithoutItself == ASSUME NEW A, IsABag(A) PROVE A (-) A = EmptyBag
  BY DEF IsABag, (-), EmptyBag, SetToBag

\* The blocks of a list are a bag, and its buffer is one of them unless it is empty.
LEMMA ListBag ==
    ASSUME NEW n, NEW names
    PROVE  /\ IsABag(List(n, names))
           /\ n # 0 => <<"items", 0>> \in BagToSet(List(n, names))
           /\ names \X (1 .. n) \subseteq BagToSet(List(n, names))
<1>1. IsABag(Buffer("items", n)) /\ IsABag(Elements(n, names))
  BY BagOfSet DEF Buffer, Fields, Elements, EmptyBag
<1>2. n # 0 => <<"items", 0>> \in BagToSet(Buffer("items", n))
  BY BagOfSet DEF Buffer, Fields
<1>3. names \X (1 .. n) \subseteq BagToSet(Elements(n, names))
  BY BagOfSet DEF Elements
<1> QED
  BY <1>1, <1>2, <1>3, BagSum DEF List

\* What the conversion of a result allocates is what its free function releases.
LEMMA ReleasedIsBlocks ==
    ASSUME NEW type, NEW x PROVE Released(type, x) = Blocks(type, x)
<1>1. FreeBackendStatus(x) = MapBackendStatus(x)
  BY DEF FreeBackendStatus, MapBackendStatus, StatusOf
<1>2. FreeSnapshotFields(x) = SnapshotFields(x)
  BY <1>1 DEF FreeSnapshotFields, SnapshotFields
<1>3. FreeSpace(x) = MapSpaceSnapshot(x) /\ FreeSpaceArray(x) = MapSpaceSnapshotArray(x)
  BY <1>2 DEF FreeSpace, FreeSpaceArray, MapSpaceSnapshot, MapSpaceSnapshotArray
<1>4. FreeStatus(x) = MapStatusSnapshot(x)
  BY DEF FreeStatus, MapStatusSnapshot
<1>5. FreeExecute(x) = MapExecuteResult(x) /\ FreeQuery(x) = MapQueryResult(x)
  BY DEF FreeExecute, MapExecuteResult, FreeQuery, MapQueryResult
<1>6. FreeExecuteBatch(x) = MapExecuteBatchResult(x) /\ FreeTokenize(x) = MapTokenizeResult(x)
  BY DEF FreeExecuteBatch, MapExecuteBatchResult, FreeTokenize, MapTokenizeResult
<1>7. FreeQueryStream(x) = MapQueryStreamResult(x)
  BY DEF FreeQueryStream, MapQueryStreamResult, FreeByteBuffers, MapByteBufferArray
<1>8. FreeListWords(x) = MapListWordsResult(x) /\ FreeDictionary(x) = MapDictionaryResult(x)
  BY DEF FreeListWords, MapListWordsResult, FreeCustomWords, MapCustomWordArray,
         FreeDictionary, MapDictionaryResult
<1>9. /\ FreeEnsureIndex(x) = MapEnsureIndexResult(x)
      /\ FreeRebuildIndex(x) = MapRebuildIndexResult(x)
      /\ FreeFtsMutation(x) = MapFtsMutationResult(x)
  BY DEF FreeEnsureIndex, MapEnsureIndexResult, FreeRebuildIndex, MapRebuildIndexResult,
         FreeFtsMutation, MapFtsMutationResult
<1>10. FreeSearchFts(x) = MapSearchFtsResult(x)
  BY DEF FreeSearchFts, MapSearchFtsResult, FreeHits, MapHitArray
<1>11. FreeCreateTable(x) = MapCreateTableResult(x) /\ FreeUpsert(x) = MapUpsertResult(x)
  BY DEF FreeCreateTable, MapCreateTableResult, FreeUpsert, MapUpsertResult
<1>12. FreeSearch(x) = MapSearchResult(x)
  BY DEF FreeSearch, MapSearchResult
<1>13. FreeDelete(x) = MapDeleteResult(x) /\ FreeDropTable(x) = MapDropTableResult(x)
  BY DEF FreeDelete, MapDeleteResult, FreeDropTable, MapDropTableResult
<1>14. Freed(type, x) = Mapped(type, x)
  BY <1>3, <1>4, <1>5, <1>6, <1>7, <1>8, <1>9, <1>10, <1>11, <1>12, <1>13
     DEF Freed, Mapped
<1> QED
  BY <1>14 DEF Released, Blocks

\* The blocks of a result are a bag.
LEMMA BlocksBag == ASSUME NEW type, NEW x PROVE IsABag(Blocks(type, x))
<1>1. \A names : IsABag(Fields(names))
  BY BagOfSet DEF Fields
<1>2. IsABag(EmptyBag)
  BY BagOfSet DEF EmptyBag
<1>3. \A field, n : IsABag(Buffer(field, n))
  BY <1>1, <1>2 DEF Buffer
<1>4. \A n, names : IsABag(List(n, names))
  BY ListBag
<1>5. IsABag(MapSpaceSnapshotArray(x)) /\ IsABag(MapSpaceSnapshot(x))
  BY <1>1, <1>4 DEF MapSpaceSnapshotArray, MapSpaceSnapshot
<1>6. IsABag(MapQueryStreamResult(x))
  BY <1>1, <1>4, BagSum DEF MapQueryStreamResult, MapByteBufferArray
<1>7. IsABag(MapListWordsResult(x))
  BY <1>1, <1>4, BagSum DEF MapListWordsResult, MapCustomWordArray
<1>8. IsABag(MapSearchFtsResult(x))
  BY <1>1, <1>4, BagSum DEF MapSearchFtsResult, MapHitArray
<1>9. IsABag(MapSearchResult(x))
  BY <1>1, <1>3, BagSum DEF MapSearchResult
<1>10. IsABag(Mapped(type, x))
  BY <1>1, <1>2, <1>5, <1>6, <1>7, <1>8, <1>9
     DEF Mapped, MapStatusSnapshot, MapExecuteResult, MapQueryResult, MapExecuteBatchResult,
         MapTokenizeResult, MapDictionaryResult, MapEnsureIndexResult, MapRebuildIndexResult,
         MapFtsMutationResult, MapCreateTableResult, MapUpsertResult, MapDeleteResult,
         MapDropTableResult
<1> QED
  BY <1>1, <1>2, <1>10, BagSum DEF Blocks

\* A buffer with spare capacity is among the blocks of its result.
LEMMA SpareIsMapped ==
    ASSUME NEW r \in Result
    PROVE  r.shape.spare \subseteq Place \cap BagToSet(Blocks(r.type, r.shape))
<1>1. PICK type \in ResultType : r \in Results(type)
  BY DEF Result
<1>2. r.type = type /\ r.shape \in Shapes(type)
  BY <1>1 DEF Results
<1> DEFINE x == r.shape
<1>3. PICK n \in Items(type) :
        x \in [items : {n}, backends : Statuses(type), spare : SUBSET Buffers(type, n)]
  BY <1>2 DEF Shapes
<1>4. x.items = n /\ x.spare \subseteq Buffers(type, n)
  BY <1>3
<1>5. n \in 0 .. MaxItems
  BY ItemsAssumption DEF Items
<1>6. Buffers(type, n) \subseteq Place
  BY <1>5, ItemsAssumption DEF Buffers, Place
<1>7. CASE Buffers(type, n) = {}
  BY <1>4, <1>7
<1>8. CASE Buffers(type, n) # {}
  <2>1. n # 0 /\ type \in {"spaces", "words", "hits", "stream", "search"}
    BY <1>8 DEF Buffers
  <2>2. \A names : IsABag(Fields(names)) /\ BagToSet(Fields(names)) = names \X {0}
    BY BagOfSet DEF Fields
  <2>3. \A names : /\ IsABag(List(n, names))
                   /\ <<"items", 0>> \in BagToSet(List(n, names))
                   /\ names \X (1 .. n) \subseteq BagToSet(List(n, names))
    BY <2>1, ListBag
  <2>4. IsABag(Mapped(type, x)) /\ Buffers(type, n) \subseteq BagToSet(Mapped(type, x))
    <3>1. CASE type = "spaces"
      BY <1>4, <2>1, <2>3, <3>1 DEF Buffers, Mapped, MapSpaceSnapshotArray
    <3>2. CASE type = "words"
      <4>1. Mapped(type, x) = Fields({"message", "words"}) (+) List(n, {"word"})
        BY <1>4, <3>2 DEF Mapped, MapListWordsResult, MapCustomWordArray
      <4> QED
        BY <2>1, <2>2, <2>3, <3>2, <4>1, BagSum DEF Buffers
    <3>3. CASE type = "hits"
      <4>1. PICK names, strings : Mapped(type, x) = Fields(names) (+) List(n, strings)
        BY <1>4, <3>3 DEF Mapped, MapSearchFtsResult, MapHitArray
      <4> QED
        BY <2>1, <2>2, <2>3, <3>3, <4>1, BagSum DEF Buffers
    <3>4. CASE type = "stream"
      <4>1. Mapped(type, x) = Fields({"chunks"}) (+) List(n, {"data"})
        BY <1>4, <3>4 DEF Mapped, MapQueryStreamResult, MapByteBufferArray
      <4> QED
        BY <2>1, <2>2, <2>3, <3>4, <4>1, BagSum DEF Buffers
    <3>5. CASE type = "search"
      <4>1. Mapped(type, x) = Fields({"message", "format"}) (+) Fields({"data"})
        BY <1>4, <2>1, <3>5 DEF Mapped, MapSearchResult, Buffer
      <4> QED
        BY <2>1, <2>2, <3>5, <4>1, BagSum DEF Buffers
    <3> QED
      BY <2>1, <3>1, <3>2, <3>3, <3>4, <3>5
  <2>5. type \notin InPlace
    BY <2>1 DEF InPlace
  <2>6. BagToSet(Mapped(type, x)) \subseteq BagToSet(Blocks(type, x))
    BY <2>2, <2>4, <2>5, BagSum DEF Blocks
  <2> QED
    BY <1>2, <1>4, <1>6, <2>4, <2>6
<1> QED
  BY <1>7, <1>8

-----------------------------------------------------------------------------
(* Handles and locks, step by step.                                        *)

\* Nothing changes when neither handles, locks nor threads do.
LEMMA SoundUnmoved ==
    ASSUME SoundHandles, UNCHANGED <<handleVars, lock, threads>> PROVE SoundHandles'
  BY DEF SoundHandles, HandlesRight, CallsRight, FreesRight, LocksRight, RunsOnlyLive,
         MisdirectedOnlyAfterFree, handleVars

\* A thread that is not freeing comes to rest and gives up what it had locked.
LEMMA SoundAtRest ==
    ASSUME TypeOK, SoundHandles, NEW t \in Thread, threads[t].pc \notin Freeing,
           NEW rest \in {Idle, Holding}, threads' = [threads EXCEPT ![t] = rest],
           UNCHANGED handleVars,
           \A c \in Client : lock'[c] = lock[c] \/ lock[c] = t
    PROVE  SoundHandles'
<1> USE NilAssumption DEF SoundHandles
<1>1. \A u \in Thread : threads'[u] = (IF u = t THEN rest ELSE threads[u])
  BY DEF TypeOK
<1>2. rest.pc \in {"idle", "holding"} /\ rest.aim = Nil /\ rest.found = Nil
  BY DEF Idle, Holding
<1>3. HandlesRight'
  BY DEF HandlesRight, handleVars
<1>4. CallsRight'
  BY <1>1, <1>2 DEF CallsRight, handleVars, Inside, Freeing
<1>5. FreesRight'
  BY <1>1, <1>2 DEF FreesRight, handleVars, Freeing
<1>6. \A u \in Thread : threads[u].pc \in Inside \cup {"stopping", "dropping"}
                          => threads[u].found \in Client
  BY DEF CallsRight, TypeOK, LocalState, Freeing
<1>7. LocksRight'
  BY <1>1, <1>2, <1>6 DEF LocksRight, Inside
<1>8. RunsOnlyLive'
  BY <1>1, <1>2, <1>6 DEF RunsOnlyLive, handleVars, Inside
<1>9. MisdirectedOnlyAfterFree'
  BY <1>1, <1>2 DEF MisdirectedOnlyAfterFree, handleVars
<1> QED
  BY <1>3, <1>4, <1>5, <1>7, <1>8, <1>9

\* The host calls.
LEMMA SoundCall ==
    ASSUME TypeOK, SoundHandles, NEW t \in Thread, NEW c \in Client,
           NEW pc \in {"looking", "removing"}, Call(t, c, pc)
    PROVE  SoundHandles'
<1> USE NilAssumption DEF SoundHandles
<1> DEFINE called == [pc |-> pc, aim |-> c, found |-> Nil]
<1>1. \A u \in Thread : threads'[u] = (IF u = t THEN called ELSE threads[u])
  BY DEF TypeOK, Call
<1>2. UNCHANGED <<registry, shell, where, inner, lock>>
  BY DEF Call, handleVars
<1>3. where[c] \in Address
  BY DEF Call, TypeOK
<1>4. HandlesRight'
  BY <1>2 DEF HandlesRight
<1>5. CallsRight'
  BY <1>1, <1>2, <1>3 DEF CallsRight, Inside, Freeing
<1>6. FreesRight'
  BY <1>1, <1>2 DEF FreesRight, Freeing
<1>7. LocksRight' /\ RunsOnlyLive'
  BY <1>1, <1>2 DEF LocksRight, RunsOnlyLive, Inside
<1>8. MisdirectedOnlyAfterFree'
  BY <1>1, <1>2 DEF MisdirectedOnlyAfterFree
<1> QED
  BY <1>4, <1>5, <1>6, <1>7, <1>8

\* A handle that the registry does not lead back to was freed.
LEMMA FoundAnother ==
    ASSUME TypeOK, SoundHandles, NEW t \in Thread, threads[t].pc \in {"looking", "removing"},
           NEW c \in Client, registry[where[threads[t].aim]] = c
    PROVE  /\ shell[where[threads[t].aim]] = c /\ inner[c] = "some"
           /\ where[c] = where[threads[t].aim]
           /\ c # threads[t].aim => inner[threads[t].aim] = "none"
<1> USE NilAssumption DEF SoundHandles
<1>1. where[threads[t].aim] \in Address /\ threads[t].aim \in Client
  BY DEF CallsRight, TypeOK, LocalState
<1>2. shell[where[threads[t].aim]] = c /\ inner[c] = "some"
  BY <1>1 DEF HandlesRight
<1>3. where[c] = where[threads[t].aim]
  BY <1>1, <1>2 DEF HandlesRight
<1>4. ASSUME c # threads[t].aim PROVE inner[threads[t].aim] = "none"
  <2>1. inner[threads[t].aim] # "some"
    BY <1>1, <1>2, <1>4 DEF HandlesRight
  <2>2. inner[threads[t].aim] # "unborn"
    BY <1>1 DEF HandlesRight
  <2> QED
    BY <2>1, <2>2, <1>1 DEF TypeOK
<1> QED
  BY <1>2, <1>3, <1>4

\* The lookup hits.
LEMMA SoundLookup ==
    ASSUME TypeOK, SoundHandles, NEW t \in Thread, threads[t].pc = "looking",
           NEW c \in Client, registry[where[threads[t].aim]] = c,
           Find(t, "entering", c), UNCHANGED <<handleVars, lock>>
    PROVE  SoundHandles'
<1> USE NilAssumption DEF SoundHandles
<1>0. threads \in [Thread -> LocalState]
  BY DEF TypeOK
<1>1. \A u \in Thread : u # t => threads'[u] = threads[u]
  BY <1>0 DEF Find
<1>2. threads'[t].pc = "entering" /\ threads'[t].found = c /\ threads'[t].aim = threads[t].aim
  BY <1>0 DEF Find, LocalState
<1>3. UNCHANGED <<registry, shell, where, inner, lock>>
  BY DEF handleVars
<1>4. /\ where[c] = where[threads[t].aim]
      /\ c # threads[t].aim => inner[threads[t].aim] = "none"
  BY FoundAnother
<1>5. HandlesRight'
  BY <1>3 DEF HandlesRight
<1>6. CallsRight'
  BY <1>1, <1>2, <1>3, <1>4 DEF CallsRight, Inside, Freeing
<1>7. FreesRight'
  BY <1>1, <1>2, <1>3 DEF FreesRight, Freeing
<1>8. LocksRight' /\ RunsOnlyLive'
  BY <1>1, <1>2, <1>3 DEF LocksRight, RunsOnlyLive, Inside
<1>9. MisdirectedOnlyAfterFree'
  BY <1>1, <1>2, <1>3, <1>4 DEF MisdirectedOnlyAfterFree
<1> QED
  BY <1>5, <1>6, <1>7, <1>8, <1>9

\* The thread gets in.
LEMMA SoundEnter ==
    ASSUME TypeOK, SoundHandles, NEW t \in Thread, threads[t].pc = "entering",
           lock[threads[t].found] = Nil, inner[threads[t].found] = "some",
           Goto(t, "performing"), lock' = [lock EXCEPT ![threads[t].found] = t],
           UNCHANGED handleVars
    PROVE  SoundHandles'
<1> USE NilAssumption DEF SoundHandles
<1>0. threads \in [Thread -> LocalState]
  BY DEF TypeOK
<1>1. \A u \in Thread : u # t => threads'[u] = threads[u]
  BY <1>0 DEF Goto
<1>2. /\ threads'[t].pc = "performing" /\ threads'[t].found = threads[t].found
      /\ threads'[t].aim = threads[t].aim
  BY <1>0 DEF Goto, LocalState
<1>3. UNCHANGED <<registry, shell, where, inner>>
  BY DEF handleVars
<1>4. \A u \in Thread : threads[u].pc \in {"entering"} \cup Inside \cup Freeing
                          => threads[u].found \in Client
  BY DEF CallsRight, TypeOK, LocalState
<1>5. \A c \in Client : lock'[c] = (IF c = threads[t].found THEN t ELSE lock[c])
  BY DEF TypeOK
<1>6. HandlesRight'
  BY <1>3 DEF HandlesRight
<1>7. CallsRight'
  BY <1>1, <1>2, <1>3 DEF CallsRight, Inside, Freeing
<1>8. FreesRight'
  BY <1>1, <1>2, <1>3 DEF FreesRight, Freeing
<1>9. LocksRight'
  BY <1>1, <1>2, <1>4, <1>5 DEF LocksRight, Inside, Freeing
<1>10. RunsOnlyLive'
  BY <1>1, <1>2, <1>3, <1>4, <1>5 DEF RunsOnlyLive, Inside
<1>11. MisdirectedOnlyAfterFree'
  BY <1>1, <1>2, <1>3 DEF MisdirectedOnlyAfterFree
<1> QED
  BY <1>6, <1>7, <1>8, <1>9, <1>10, <1>11

\* The thread stays inside its operation.
LEMMA SoundInside ==
    ASSUME TypeOK, SoundHandles, NEW t \in Thread, threads[t].pc = "performing",
           Goto(t, "collecting"), UNCHANGED <<handleVars, lock>>
    PROVE  SoundHandles'
<1> USE NilAssumption DEF SoundHandles
<1>0. threads \in [Thread -> LocalState]
  BY DEF TypeOK
<1>1. \A u \in Thread : u # t => threads'[u] = threads[u]
  BY <1>0 DEF Goto
<1>2. /\ threads'[t].pc = "collecting" /\ threads'[t].found = threads[t].found
      /\ threads'[t].aim = threads[t].aim
  BY <1>0 DEF Goto, LocalState
<1>3. UNCHANGED <<registry, shell, where, inner, lock>>
  BY DEF handleVars
<1>4. HandlesRight'
  BY <1>3 DEF HandlesRight
<1>5. CallsRight'
  BY <1>1, <1>2, <1>3 DEF CallsRight, Inside, Freeing
<1>6. FreesRight'
  BY <1>1, <1>2, <1>3 DEF FreesRight, Freeing
<1>7. LocksRight' /\ RunsOnlyLive'
  BY <1>1, <1>2, <1>3 DEF LocksRight, RunsOnlyLive, Inside
<1>8. MisdirectedOnlyAfterFree'
  BY <1>1, <1>2, <1>3 DEF MisdirectedOnlyAfterFree
<1> QED
  BY <1>4, <1>5, <1>6, <1>7, <1>8

\* A handle is made.
LEMMA SoundCreate ==
    ASSUME TypeOK, SoundHandles, NEW t \in Thread, NEW c \in Client, NEW a \in Address,
           Create(t, c, a)
    PROVE  SoundHandles'
<1> USE NilAssumption DEF SoundHandles
<1> DEFINE new == /\ registry' = [registry EXCEPT ![a] = c]
                  /\ shell' = [shell EXCEPT ![a] = c]
                  /\ where' = [where EXCEPT ![c] = a]
                  /\ inner' = [inner EXCEPT ![c] = "some"]
                  /\ lock' = lock
<1>1. new /\ inner[c] = "unborn" /\ shell[a] = Nil /\ threads[t].pc = "idle"
  BY DEF Create
<1>2. PICK rest \in {Idle, Holding} : threads' = [threads EXCEPT ![t] = rest]
  BY DeliverReturns DEF Create
<1>3. \A u \in Thread : threads'[u] = (IF u = t THEN rest ELSE threads[u])
  BY <1>2 DEF TypeOK
<1>4. rest.pc \in {"idle", "holding"} /\ rest.aim = Nil /\ rest.found = Nil
  BY DEF Idle, Holding
<1>5. where[c] = Nil
  BY <1>1 DEF HandlesRight
<1>6. /\ registry' \in [Address -> Client \cup {Nil}] /\ shell' \in [Address -> Client \cup {Nil}]
      /\ where' \in [Client -> Address \cup {Nil}]
  BY <1>1 DEF TypeOK
<1>7. \A b \in Address : registry'[b] = (IF b = a THEN c ELSE registry[b])
                      /\ shell'[b] = (IF b = a THEN c ELSE shell[b])
  BY <1>1 DEF TypeOK
<1>8. \A d \in Client : where'[d] = (IF d = c THEN a ELSE where[d])
                     /\ inner'[d] = (IF d = c THEN "some" ELSE inner[d])
  BY <1>1 DEF TypeOK
<1>9. \A b \in Address : shell[b] # c /\ registry[b] # c
  BY <1>5 DEF HandlesRight
<1>10. HandlesRight'
  <2>1. \A d \in Client : inner'[d] = "unborn" <=> where'[d] = Nil
    BY <1>8 DEF HandlesRight
  <2>2. \A d \in Client : inner'[d] = "some" => shell'[where'[d]] = d
    <3> SUFFICES ASSUME NEW d \in Client, d # c, inner[d] = "some" PROVE shell'[where[d]] = d
      BY <1>7, <1>8
    <3>1. shell[where[d]] = d /\ where[d] \in Address
      BY DEF HandlesRight, TypeOK
    <3> QED
      BY <3>1, <1>1, <1>7
  <2>3. \A b \in Address : shell'[b] # Nil => where'[shell'[b]] = b
    BY <1>7, <1>8, <1>9 DEF HandlesRight, TypeOK
  <2>4. \A b \in Address :
          registry'[b] # Nil => shell'[b] = registry'[b] /\ inner'[registry'[b]] = "some"
    BY <1>7, <1>8, <1>9 DEF HandlesRight, TypeOK
  <2> QED
    BY <2>1, <2>2, <2>3, <2>4 DEF HandlesRight
<1>11. \A u \in Thread : /\ threads[u].aim \in Client \cup {Nil}
                         /\ threads[u].found \in Client \cup {Nil}
                         /\ threads[u].pc \in Pc
  BY DEF TypeOK, LocalState
<1>12. \A u \in Thread : threads[u].aim # c /\ threads[u].found # c
  BY <1>5, <1>11 DEF CallsRight, Inside, Freeing
<1>13. CallsRight'
  BY <1>3, <1>4, <1>8, <1>11, <1>12 DEF CallsRight, Inside, Freeing
<1>14. \A u \in Thread : threads[u].pc \in Freeing => /\ where[threads[u].aim] \in Address
                                                     /\ where[threads[u].aim] # a
  BY <1>1, <1>11 DEF CallsRight, FreesRight, Freeing
<1>15. FreesRight'
  BY <1>3, <1>4, <1>7, <1>8, <1>11, <1>12, <1>14 DEF FreesRight, CallsRight, Freeing
<1>16. LocksRight' /\ RunsOnlyLive'
  BY <1>1, <1>3, <1>4, <1>8, <1>11, <1>12 DEF LocksRight, RunsOnlyLive, CallsRight, Inside
<1>17. MisdirectedOnlyAfterFree'
  <2> SUFFICES ASSUME NEW u \in Thread, threads'[u].found # Nil,
                      threads'[u].found # threads'[u].aim
               PROVE  /\ inner'[threads'[u].aim] = "none"
                      /\ where'[threads'[u].aim] = where'[threads'[u].found]
    BY DEF MisdirectedOnlyAfterFree
  <2>1. threads'[u] = threads[u]
    BY <1>3, <1>4
  <2>2. threads[u].aim # Nil
    BY <2>1 DEF CallsRight, Inside, Freeing
  <2>3. /\ threads[u].aim \in Client /\ threads[u].found \in Client
        /\ threads[u].aim # c /\ threads[u].found # c
    BY <2>1, <2>2, <1>11, <1>12
  <2>4. inner[threads[u].aim] = "none" /\ where[threads[u].aim] = where[threads[u].found]
    BY <2>1 DEF MisdirectedOnlyAfterFree
  <2> QED
    BY <2>1, <2>3, <2>4, <1>8
<1> QED
  BY <1>10, <1>13, <1>15, <1>16, <1>17

\* A free takes the handle out of the registry.
LEMMA SoundRemove ==
    ASSUME TypeOK, SoundHandles, NEW t \in Thread, FreeRemove(t),
           registry[where[threads[t].aim]] # Nil
    PROVE  SoundHandles'
<1> USE NilAssumption DEF SoundHandles
<1> DEFINE a == where[threads[t].aim]
           c == registry[a]
<1>0. threads \in [Thread -> LocalState]
  BY DEF TypeOK
<1>1. threads[t].pc = "removing" /\ a \in Address
  BY DEF FreeRemove, CallsRight
<1>2. c \in Client
  BY <1>1 DEF TypeOK
<1>3. /\ registry' = [registry EXCEPT ![a] = Nil]
      /\ UNCHANGED <<shell, where, inner, lock>> /\ Find(t, "taking", c)
  BY DEF FreeRemove
<1>4. \A u \in Thread : u # t => threads'[u] = threads[u]
  BY <1>0, <1>3 DEF Find
<1>5. threads'[t].pc = "taking" /\ threads'[t].found = c /\ threads'[t].aim = threads[t].aim
  BY <1>0, <1>3 DEF Find, LocalState
<1>6. /\ shell[a] = c /\ inner[c] = "some" /\ where[c] = a
      /\ c # threads[t].aim => inner[threads[t].aim] = "none"
  BY <1>1, <1>2, FoundAnother
<1>7. \A b \in Address : registry'[b] = (IF b = a THEN Nil ELSE registry[b])
  BY <1>3 DEF TypeOK
<1>8. HandlesRight'
  BY <1>3, <1>7 DEF HandlesRight
<1>9. CallsRight'
  BY <1>1, <1>2, <1>3, <1>4, <1>5, <1>6 DEF CallsRight, Inside, Freeing
<1>10. \A u \in Thread : threads[u].pc \in Freeing => /\ where[threads[u].aim] \in Address
                                                     /\ where[threads[u].aim] # a
                                                     /\ threads[u].found # c
  <2> SUFFICES ASSUME NEW u \in Thread, threads[u].pc \in Freeing
               PROVE  /\ where[threads[u].aim] \in Address /\ where[threads[u].aim] # a
                      /\ threads[u].found # c
    OBVIOUS
  <2>1. registry[where[threads[u].aim]] = Nil /\ shell[where[threads[u].aim]] = threads[u].found
    BY DEF FreesRight
  <2>2. where[threads[u].aim] \in Address
    BY DEF CallsRight, Freeing
  <2>3. where[threads[u].aim] # a
    BY <2>1, <1>2
  <2>4. threads[u].found # Nil
    BY DEF CallsRight
  <2>5. where[threads[u].found] = where[threads[u].aim]
    BY <2>4 DEF CallsRight
  <2> QED
    BY <2>2, <2>3, <2>5, <1>6
<1>11. FreesRight'
  BY <1>1, <1>3, <1>4, <1>5, <1>6, <1>7, <1>10 DEF FreesRight, Freeing
<1>12. LocksRight' /\ RunsOnlyLive'
  BY <1>3, <1>4, <1>5 DEF LocksRight, RunsOnlyLive, Inside
<1>13. MisdirectedOnlyAfterFree'
  BY <1>3, <1>4, <1>5, <1>6 DEF MisdirectedOnlyAfterFree
<1> QED
  BY <1>8, <1>9, <1>11, <1>12, <1>13

\* The free takes the client.
LEMMA SoundTake ==
    ASSUME TypeOK, SoundHandles, NEW t \in Thread, FreeTake(t) PROVE SoundHandles'
<1> USE NilAssumption DEF SoundHandles
<1> DEFINE c == threads[t].found
<1>0. threads \in [Thread -> LocalState]
  BY DEF TypeOK
<1>1. /\ threads[t].pc = "taking" /\ lock[c] = Nil /\ Goto(t, "stopping")
      /\ lock' = [lock EXCEPT ![c] = t] /\ inner' = [inner EXCEPT ![c] = "none"]
      /\ UNCHANGED <<registry, shell, where>>
  BY DEF FreeTake
<1>2. \A u \in Thread : u # t => threads'[u] = threads[u]
  BY <1>0, <1>1 DEF Goto
<1>3. threads'[t].pc = "stopping" /\ threads'[t].found = c /\ threads'[t].aim = threads[t].aim
  BY <1>0, <1>1 DEF Goto, LocalState
<1>4. c \in Client /\ where[c] = where[threads[t].aim] /\ where[c] \in Address
  BY <1>0, <1>1 DEF CallsRight, LocalState, Freeing
<1>5. registry[where[c]] = Nil /\ shell[where[c]] = c /\ inner[c] = "some"
  BY <1>1, <1>4 DEF FreesRight, Freeing
<1>6. \A d \in Client : /\ inner'[d] = (IF d = c THEN "none" ELSE inner[d])
                        /\ lock'[d] = (IF d = c THEN t ELSE lock[d])
  BY <1>1 DEF TypeOK
<1>7. \A a \in Address : registry[a] \in Client \cup {Nil} /\ registry[a] # c
  BY <1>4, <1>5 DEF HandlesRight, TypeOK
<1>8. HandlesRight'
  <2>1. \A d \in Client : inner'[d] = "unborn" <=> where'[d] = Nil
    BY <1>1, <1>4, <1>5, <1>6 DEF HandlesRight
  <2>2. \A d \in Client : inner'[d] = "some" => shell'[where'[d]] = d
    BY <1>1, <1>6 DEF HandlesRight
  <2>3. \A a \in Address : shell'[a] # Nil => where'[shell'[a]] = a
    BY <1>1 DEF HandlesRight
  <2>4. \A a \in Address :
          registry'[a] # Nil => shell'[a] = registry'[a] /\ inner'[registry'[a]] = "some"
    BY <1>1, <1>6, <1>7 DEF HandlesRight
  <2> QED
    BY <2>1, <2>2, <2>3, <2>4 DEF HandlesRight
<1>9. CallsRight'
  BY <1>1, <1>2, <1>3 DEF CallsRight, Inside, Freeing
<1>10. \A u \in Thread : /\ threads[u].aim \in Client \cup {Nil}
                         /\ threads[u].found \in Client \cup {Nil}
  BY <1>0 DEF LocalState
<1>11. \A u \in Thread : threads[u].pc \in Freeing => threads[u].found \in Client
  BY <1>10 DEF CallsRight
<1>12. \A u \in Thread : u # t /\ threads[u].pc \in Freeing => threads[u].found # c
  BY <1>1 DEF FreesRight, Freeing
<1>13. FreesRight'
  BY <1>1, <1>2, <1>3, <1>4, <1>5, <1>6, <1>11, <1>12 DEF FreesRight, Freeing
<1>14. \A u \in Thread : threads[u].pc \in Inside \cup {"stopping", "dropping"}
                           => threads[u].found \in Client /\ threads[u].found # c
  <2> SUFFICES ASSUME NEW u \in Thread, threads[u].pc \in Inside \cup {"stopping", "dropping"}
               PROVE  threads[u].found \in Client /\ threads[u].found # c
    OBVIOUS
  <2>1. lock[threads[u].found] = u
    BY DEF LocksRight
  <2>2. threads[u].found # Nil
    BY DEF CallsRight, Freeing
  <2> QED
    BY <2>1, <2>2, <1>1, <1>10
<1>15. LocksRight'
  BY <1>2, <1>3, <1>6, <1>4, <1>14 DEF LocksRight
<1>16. RunsOnlyLive'
  BY <1>2, <1>3, <1>6, <1>14 DEF RunsOnlyLive, Inside
<1>17. MisdirectedOnlyAfterFree'
  <2> SUFFICES ASSUME NEW u \in Thread, threads'[u].found # Nil,
                      threads'[u].found # threads'[u].aim
               PROVE  /\ inner'[threads'[u].aim] = "none"
                      /\ where'[threads'[u].aim] = where'[threads'[u].found]
    BY DEF MisdirectedOnlyAfterFree
  <2>1. threads'[u].found = threads[u].found /\ threads'[u].aim = threads[u].aim
    BY <1>2, <1>3
  <2>2. inner[threads[u].aim] = "none" /\ where[threads[u].aim] = where[threads[u].found]
    BY <2>1 DEF MisdirectedOnlyAfterFree
  <2>3. threads[u].aim \in Client
    BY <2>1, <1>10 DEF CallsRight, Inside, Freeing
  <2> QED
    BY <2>1, <2>2, <2>3, <1>1, <1>6
<1> QED
  BY <1>8, <1>9, <1>13, <1>15, <1>16, <1>17

\* The free has shut the client down.
LEMMA SoundStop ==
    ASSUME TypeOK, SoundHandles, NEW t \in Thread, FreeStop(t) PROVE SoundHandles'
<1> USE NilAssumption DEF SoundHandles
<1>0. threads \in [Thread -> LocalState]
  BY DEF TypeOK
<1>1. /\ threads[t].pc = "stopping" /\ Goto(t, "dropping")
      /\ UNCHANGED <<registry, shell, where, inner, lock>>
  BY DEF FreeStop, handleVars
<1>2. \A u \in Thread : u # t => threads'[u] = threads[u]
  BY <1>0, <1>1 DEF Goto
<1>3. /\ threads'[t].pc = "dropping" /\ threads'[t].found = threads[t].found
      /\ threads'[t].aim = threads[t].aim
  BY <1>0, <1>1 DEF Goto, LocalState
<1>4. HandlesRight'
  BY <1>1 DEF HandlesRight
<1>5. CallsRight'
  BY <1>1, <1>2, <1>3 DEF CallsRight, Inside, Freeing
<1>6. FreesRight'
  BY <1>1, <1>2, <1>3 DEF FreesRight, Freeing
<1>7. LocksRight' /\ RunsOnlyLive'
  BY <1>1, <1>2, <1>3 DEF LocksRight, RunsOnlyLive, Inside
<1>8. MisdirectedOnlyAfterFree'
  BY <1>1, <1>2, <1>3 DEF MisdirectedOnlyAfterFree
<1> QED
  BY <1>4, <1>5, <1>6, <1>7, <1>8

\* The free drops the shell: nobody else has it, and no client in use loses its own.
LEMMA SoundDrop ==
    ASSUME TypeOK, SoundHandles, NEW t \in Thread, FreeDrop(t) PROVE SoundHandles'
<1> USE NilAssumption DEF SoundHandles
<1> DEFINE c == threads[t].found
           a == where[threads[t].aim]
<1>0. threads \in [Thread -> LocalState]
  BY DEF TypeOK
<1>1. /\ threads[t].pc = "dropping" /\ threads' = [threads EXCEPT ![t] = Idle]
      /\ shell' = [shell EXCEPT ![a] = Nil] /\ lock' = [lock EXCEPT ![c] = Nil]
      /\ UNCHANGED <<registry, where, inner>>
  BY DEF FreeDrop, Return, Unlock
<1>2. \A u \in Thread : threads'[u] = (IF u = t THEN Idle ELSE threads[u])
  BY <1>0, <1>1
<1>3. Idle.pc = "idle" /\ Idle.aim = Nil /\ Idle.found = Nil
  BY DEF Idle
<1>4. c \in Client /\ where[c] = a /\ a \in Address
  BY <1>0, <1>1 DEF CallsRight, LocalState, Freeing
<1>5. registry[a] = Nil /\ shell[a] = c /\ inner[c] = "none"
  BY <1>1 DEF FreesRight, Freeing
<1>6. /\ \A b \in Address : shell'[b] = (IF b = a THEN Nil ELSE shell[b])
      /\ \A d \in Client : lock'[d] = (IF d = c THEN Nil ELSE lock[d])
  BY <1>1 DEF TypeOK
<1>7. HandlesRight'
  <2>1. \A d \in Client : inner'[d] = "some" => shell'[where'[d]] = d
    <3> SUFFICES ASSUME NEW d \in Client, inner[d] = "some" PROVE shell'[where[d]] = d
      BY <1>1
    <3>1. shell[where[d]] = d /\ where[d] \in Address /\ d # c
      BY <1>5 DEF HandlesRight, TypeOK
    <3>2. where[d] # a
      BY <3>1, <1>5
    <3> QED
      BY <3>1, <3>2, <1>6
  <2>2. \A b \in Address :
          registry'[b] # Nil => shell'[b] = registry'[b] /\ inner'[registry'[b]] = "some"
    BY <1>1, <1>5, <1>6 DEF HandlesRight
  <2> QED
    BY <2>1, <2>2, <1>1, <1>6 DEF HandlesRight
<1>8. CallsRight'
  BY <1>1, <1>2, <1>3 DEF CallsRight, Inside, Freeing
<1>9. \A u \in Thread : threads[u].found \in Client \cup {Nil}
  BY <1>0 DEF LocalState
<1>10. \A u \in Thread : u # t /\ threads[u].pc \in Freeing =>
          where[threads[u].aim] \in Address /\ where[threads[u].aim] # a
  <2> SUFFICES ASSUME NEW u \in Thread, u # t, threads[u].pc \in Freeing
               PROVE  where[threads[u].aim] \in Address /\ where[threads[u].aim] # a
    OBVIOUS
  <2>1. where[threads[u].aim] \in Address
    BY DEF CallsRight, Freeing
  <2>2. shell[where[threads[u].aim]] = threads[u].found
    BY DEF FreesRight
  <2>3. threads[u].found # c
    BY <1>1 DEF FreesRight, Freeing
  <2> QED
    BY <2>1, <2>2, <2>3, <1>5
<1>11. FreesRight'
  BY <1>1, <1>2, <1>3, <1>6, <1>10 DEF FreesRight, Freeing
<1>12. \A u \in Thread : u # t /\ threads[u].pc \in Inside \cup {"stopping", "dropping"}
                           => threads[u].found \in Client /\ threads[u].found # c
  <2> SUFFICES ASSUME NEW u \in Thread, u # t,
                      threads[u].pc \in Inside \cup {"stopping", "dropping"}
               PROVE  threads[u].found \in Client /\ threads[u].found # c
    OBVIOUS
  <2>1. lock[threads[u].found] = u /\ lock[c] = t
    BY <1>1 DEF LocksRight
  <2>2. threads[u].found # Nil
    BY DEF CallsRight, Freeing
  <2> QED
    BY <2>1, <2>2, <1>9
<1>13. LocksRight' /\ RunsOnlyLive'
  BY <1>1, <1>2, <1>3, <1>6, <1>12 DEF LocksRight, RunsOnlyLive, Inside
<1>14. MisdirectedOnlyAfterFree'
  BY <1>1, <1>2, <1>3 DEF MisdirectedOnlyAfterFree
<1> QED
  BY <1>7, <1>8, <1>11, <1>13, <1>14

\* Handles and locks are sound after every step.
LEMMA SoundStep == ASSUME TypeOK, SoundHandles, [Next]_vars PROVE SoundHandles'
<1> USE NilAssumption
<1>1. CASE UNCHANGED vars
  BY <1>1, SoundUnmoved DEF vars, handleVars
<1>2. ASSUME NEW t \in Thread, NEW types, Deliver(t, types), threads[t].pc \notin Freeing,
             UNCHANGED handleVars, \A c \in Client : lock'[c] = lock[c] \/ lock[c] = t
      PROVE  SoundHandles'
  <2>1. PICK rest \in {Idle, Holding} : threads' = [threads EXCEPT ![t] = rest]
    BY <1>2, DeliverReturns
  <2> QED
    BY <1>2, <2>1, SoundAtRest
<1>3. ASSUME NEW t \in Thread, threads[t].pc \in Inside, Unlock(threads[t].found)
      PROVE  \A c \in Client : lock'[c] = lock[c] \/ lock[c] = t
  BY <1>3 DEF Unlock, SoundHandles, LocksRight, TypeOK
<1>4. ASSUME NEW t \in Thread, threads[t].pc \in Inside, Unlock(threads[t].found),
             UNCHANGED handleVars, NEW types, Deliver(t, types)
      PROVE  SoundHandles'
  BY <1>2, <1>3, <1>4 DEF Inside, Freeing
<1>5. ASSUME NEW t \in Thread, NEW c \in Client, NEW a \in Address, Create(t, c, a)
      PROVE  SoundHandles'
  BY <1>5, SoundCreate
<1>6. ASSUME NEW t \in Thread, Refuse(t) PROVE SoundHandles'
  BY <1>2, <1>6 DEF Refuse, DeliverError, Freeing
<1>7. ASSUME NEW t \in Thread, FreeResult(t) PROVE SoundHandles'
  BY <1>7, SoundAtRest DEF FreeResult, Return, Freeing
<1>8. ASSUME NEW t \in Thread, NEW c \in Client, NEW pc \in {"looking", "removing"},
             Call(t, c, pc)
      PROVE  SoundHandles'
  BY <1>8, SoundCall
<1>9. ASSUME NEW t \in Thread, Lookup(t) PROVE SoundHandles'
  <2> DEFINE c == registry[where[threads[t].aim]]
  <2>1. CASE c = Nil
    BY <1>2, <1>9, <2>1 DEF Lookup, DeliverError, Freeing
  <2>2. CASE c # Nil
    <3>1. c \in Client
      BY <1>9, <2>2 DEF Lookup, SoundHandles, CallsRight, TypeOK
    <3> QED
      BY <1>9, <2>2, <3>1, SoundLookup DEF Lookup
  <2> QED
    BY <2>1, <2>2
<1>10. ASSUME NEW t \in Thread, Enter(t) PROVE SoundHandles'
  <2>1. CASE inner[threads[t].found] = "some"
    BY <1>10, <2>1, SoundEnter DEF Enter
  <2>2. CASE inner[threads[t].found] # "some"
    BY <1>2, <1>10, <2>2 DEF Enter, DeliverError, Freeing
  <2> QED
    BY <2>1, <2>2
<1>11. ASSUME NEW t \in Thread, NEW needs \in Needs, Succeed(t, needs) PROVE SoundHandles'
  BY <1>4, <1>11 DEF Succeed, Inside
<1>12. ASSUME NEW t \in Thread, NEW needs, Fail(t, needs) PROVE SoundHandles'
  BY <1>4, <1>12 DEF Fail, DeliverError, Inside
<1>13. ASSUME NEW t \in Thread, Shutdown(t) PROVE SoundHandles'
  BY <1>4, <1>13 DEF Shutdown, Inside
<1>14. ASSUME NEW t \in Thread, OpenStream(t) PROVE SoundHandles'
  BY <1>14, SoundInside DEF OpenStream
<1>15. ASSUME NEW t \in Thread, CollectStream(t) PROVE SoundHandles'
  <2>1. \E types : Deliver(t, types)
    BY <1>15 DEF CollectStream, DeliverError
  <2> QED
    BY <1>4, <1>15, <2>1 DEF CollectStream, Inside
<1>16. ASSUME NEW t \in Thread, FreeRemove(t) PROVE SoundHandles'
  <2>1. CASE registry[where[threads[t].aim]] # Nil
    BY <1>16, <2>1, SoundRemove
  <2>2. CASE registry[where[threads[t].aim]] = Nil
    <3>1. threads[t].pc = "removing" /\ Return(t) /\ UNCHANGED <<shell, where, inner, lock>>
      BY <1>16, <2>2 DEF FreeRemove
    <3>2. registry' = registry
      BY <1>16, <2>2 DEF FreeRemove, TypeOK
    <3> QED
      BY <3>1, <3>2, SoundAtRest DEF Return, Freeing, handleVars
  <2> QED
    BY <2>1, <2>2
<1>17. ASSUME NEW t \in Thread, FreeTake(t) \/ FreeStop(t) \/ FreeDrop(t) PROVE SoundHandles'
  BY <1>17, SoundTake, SoundStop, SoundDrop
<1>18. ASSUME NEW c \in Client, Renew(c) \/ LoseSession(c) \/ Expire(c) PROVE SoundHandles'
  BY <1>18, SoundUnmoved DEF Renew, LoseSession, Expire
<1> QED
  BY <1>1, <1>5, <1>6, <1>7, <1>8, <1>9, <1>10, <1>11, <1>12, <1>13, <1>14, <1>15, <1>16,
     <1>17, <1>18 DEF Next, Step

-----------------------------------------------------------------------------
(* The values of the variables, and the ledger.                            *)

\* What registers a client or fails to keeps the client's variables in their types.
LEMMA TypeRegister ==
    ASSUME TypeOK, NEW c \in Client, Register(c) \/ FailToRegister(c)
    PROVE  /\ local' \in [Client -> SUBSET {"session_id", "renew_task"}]
           /\ session' \in [Client -> SUBSET {"known", "lost"}]
  BY DEF TypeOK, Register, FailToRegister

\* So does what ends its session.
LEMMA TypeEndSession ==
    ASSUME TypeOK, NEW c \in Client, EndSession(c)
    PROVE  /\ local' \in [Client -> SUBSET {"session_id", "renew_task"}]
           /\ session' \in [Client -> SUBSET {"known", "lost"}]
           /\ stream' \in [Client -> BOOLEAN]
<1>1. local' \in [Client -> SUBSET {"session_id", "renew_task"}]
  BY DEF TypeOK, EndSession
<1>2. session' \in [Client -> SUBSET {"known", "lost"}]
  BY DEF TypeOK, EndSession
<1>3. stream' \in [Client -> BOOLEAN]
  BY DEF TypeOK, EndSession
<1> QED
  BY <1>1, <1>2, <1>3

\* A thread that comes to rest keeps the threads in their type.
LEMMA TypeDeliver ==
    ASSUME TypeOK, NEW t \in Thread, NEW types \in SUBSET ResultType, Deliver(t, types)
    PROVE  /\ threads' \in [Thread -> LocalState]
           /\ results' \in SUBSET Result
           /\ IsABag(heap') /\ IsABag(strays') /\ misfits' \in SUBSET Place
<1>1. Idle \in LocalState /\ Holding \in LocalState
  BY DEF Idle, Holding, LocalState, Pc
<1>2. threads' \in [Thread -> LocalState]
  BY <1>1, DeliverReturns DEF TypeOK
<1>3. CASE UNCHANGED ledger
  BY <1>2, <1>3 DEF ledger, TypeOK
<1>4. CASE ~UNCHANGED ledger
  <2>1. IsABag(EmptyBag)
    BY BagOfSet DEF EmptyBag
  <2> QED
    BY <1>2, <1>4, <2>1, DeliverResult, BlocksBag
<1> QED
  BY <1>3, <1>4

\* So does one that goes on.
LEMMA TypeMove ==
    ASSUME TypeOK, NEW t \in Thread, NEW pc \in Pc
    PROVE  /\ Goto(t, pc) => threads' \in [Thread -> LocalState]
           /\ \A c \in Client : Find(t, pc, c) => threads' \in [Thread -> LocalState]
           /\ Return(t) => threads' \in [Thread -> LocalState]
<1>1. Idle \in LocalState
  BY DEF Idle, LocalState, Pc
<1>2. threads \in [Thread -> LocalState] /\ threads[t] \in LocalState
  BY DEF TypeOK
<1>3. ASSUME Goto(t, pc) PROVE threads' \in [Thread -> LocalState]
  BY <1>2, <1>3 DEF Goto, LocalState
<1>4. ASSUME NEW c \in Client, Find(t, pc, c) PROVE threads' \in [Thread -> LocalState]
  BY <1>2, <1>4 DEF Find, LocalState
<1>5. ASSUME Return(t) PROVE threads' \in [Thread -> LocalState]
  BY <1>1, <1>2, <1>5 DEF Return
<1> QED
  BY <1>3, <1>4, <1>5

\* The types are kept by every step.
LEMMA TypeStep == ASSUME TypeOK, CallsRight, [Next]_vars PROVE TypeOK'
<1> USE NilAssumption
<1> DEFINE Handles == /\ registry \in [Address -> Client \cup {Nil}]
                      /\ shell \in [Address -> Client \cup {Nil}]
                      /\ where \in [Client -> Address \cup {Nil}]
                      /\ inner \in [Client -> {"unborn", "some", "none"}]
           Locks   == lock \in [Client -> Thread \cup {Nil}]
           Clients == /\ local \in [Client -> SUBSET {"session_id", "renew_task"}]
                      /\ session \in [Client -> SUBSET {"known", "lost"}]
           Streams == stream \in [Client -> BOOLEAN]
           Threads == threads \in [Thread -> LocalState]
           Ledger  == /\ results \in SUBSET Result
                      /\ IsABag(heap) /\ IsABag(strays)
                      /\ misfits \in SUBSET Place
<1>0. TypeOK' <=> Handles' /\ Locks' /\ Clients' /\ Streams' /\ Threads' /\ Ledger'
  BY DEF TypeOK
<1>1. Handles /\ Locks /\ Clients /\ Streams /\ Threads /\ Ledger
  BY DEF TypeOK
<1>2. /\ UNCHANGED handleVars => Handles'
      /\ UNCHANGED lock => Locks'
      /\ UNCHANGED <<local, session>> => Clients'
      /\ UNCHANGED stream => Streams'
      /\ UNCHANGED threads => Threads'
      /\ UNCHANGED ledger => Ledger'
  BY <1>1 DEF handleVars, ledger
<1>3. \A t \in Thread : threads[t].pc \in {"entering"} \cup Inside \cup Freeing
                          => threads[t].found \in Client
  BY DEF CallsRight, TypeOK, LocalState
<1>4. \A c \in Client : /\ Unlock(c) => Locks'
                        /\ \A t \in Thread : lock' = [lock EXCEPT ![c] = t] => Locks'
                        /\ \A b \in BOOLEAN : stream' = [stream EXCEPT ![c] = b] => Streams'
  BY <1>1 DEF Unlock
<1>5. \A c \in Client : Register(c) \/ FailToRegister(c) => Clients'
  BY TypeRegister
<1>6. \A c \in Client : EndSession(c) => Clients' /\ Streams'
  BY TypeEndSession
<1>7. \A t \in Thread : \A types \in SUBSET ResultType :
        Deliver(t, types) => Threads' /\ Ledger'
  BY TypeDeliver
<1>8. \A t \in Thread : DeliverError(t) => Threads' /\ Ledger'
  BY <1>7, AnswersAreResults DEF DeliverError
<1>9. CASE UNCHANGED vars
  BY <1>0, <1>2, <1>9 DEF vars, handleVars, ledger
<1>10. ASSUME NEW t \in Thread, NEW c \in Client, NEW a \in Address, Create(t, c, a)
       PROVE  TypeOK'
  <2>1. Handles'
    BY <1>1, <1>10 DEF Create
  <2>2. Threads' /\ Ledger'
    BY <1>7, <1>10, AnswersAreResults DEF Create
  <2> QED
    BY <1>0, <1>2, <1>10, <2>1, <2>2 DEF Create, clientVars
<1>11. ASSUME NEW t \in Thread, Refuse(t) PROVE TypeOK'
  BY <1>0, <1>2, <1>8, <1>11 DEF Refuse, clientVars
<1>12. ASSUME NEW t \in Thread, FreeResult(t) PROVE TypeOK'
  <2>1. Threads'
    BY <1>12, TypeMove DEF FreeResult, Pc
  <2>2. PICK r \in results :
          /\ heap' = heap (-) Released(r.type, r.shape)
          /\ strays' = Released(r.type, r.shape) (-) heap
          /\ misfits' \in SUBSET Place
    BY <1>12 DEF FreeResult
  <2>3. IsABag(Released(r.type, r.shape))
    BY ReleasedIsBlocks, BlocksBag
  <2>4. Ledger'
    BY <1>1, <1>12, <2>2, <2>3, BagRest DEF FreeResult
  <2> QED
    BY <1>0, <1>2, <1>12, <2>1, <2>4 DEF FreeResult, clientVars
<1>13. ASSUME NEW t \in Thread, NEW c \in Client, NEW pc \in {"looking", "removing"},
              Call(t, c, pc)
       PROVE  TypeOK'
  <2>1. Threads'
    BY <1>1, <1>13 DEF Call, LocalState, Pc
  <2> QED
    BY <1>0, <1>2, <1>13, <2>1 DEF Call, clientVars
<1>14. ASSUME NEW t \in Thread, Lookup(t) PROVE TypeOK'
  <2>1. Threads' /\ Ledger'
    <3>1. CASE registry[where[threads[t].aim]] = Nil
      BY <1>8, <1>14, <3>1 DEF Lookup
    <3>2. CASE registry[where[threads[t].aim]] # Nil
      <4>1. registry[where[threads[t].aim]] \in Client
        BY <1>1, <1>14, <3>2 DEF Lookup, CallsRight
      <4> QED
        BY <1>2, <1>14, <3>2, <4>1, TypeMove DEF Lookup, Pc
    <3> QED
      BY <3>1, <3>2
  <2> QED
    BY <1>0, <1>2, <1>14, <2>1 DEF Lookup, clientVars
<1>15. ASSUME NEW t \in Thread, Enter(t) PROVE TypeOK'
  <2>1. Threads' /\ Ledger' /\ Locks'
    BY <1>2, <1>3, <1>4, <1>8, <1>15, TypeMove DEF Enter, Pc, Inside
  <2> QED
    BY <1>0, <1>2, <1>15, <2>1 DEF Enter, clientVars
<1>16. ASSUME NEW t \in Thread, NEW needs \in Needs, Succeed(t, needs) PROVE TypeOK'
  <2> DEFINE c == threads[t].found
  <2>1. c \in Client
    BY <1>3, <1>16 DEF Succeed, Inside
  <2>2. Clients'
    <3>1. CASE UNCHANGED <<local, session>> \/ Register(c)
      BY <1>2, <1>5, <2>1, <3>1
    <3>2. CASE /\ local' = [local EXCEPT ![c] = {"session_id", "renew_task"}]
               /\ session' = [session EXCEPT ![c] = @ \cup {"known"}]
      BY <1>1, <2>1, <3>2
    <3> QED
      BY <1>16, <3>1, <3>2 DEF Succeed
  <2>3. /\ UNCHANGED <<handleVars, stream>> /\ Unlock(c)
        /\ Deliver(t, ResultTypes(needs) \cup {"string"})
    BY <1>16 DEF Succeed
  <2>4. Threads' /\ Ledger'
    BY <1>7, <2>3, AnswersAreResults
  <2> QED
    BY <1>0, <1>2, <1>4, <2>1, <2>2, <2>3, <2>4
<1>17. ASSUME NEW t \in Thread, NEW needs, Fail(t, needs) PROVE TypeOK'
  <2>1. threads[t].found \in Client
    BY <1>3, <1>17 DEF Fail, Inside
  <2>2. Clients'
    BY <1>2, <1>5, <1>17, <2>1 DEF Fail
  <2>3. UNCHANGED <<handleVars, stream>> /\ Unlock(threads[t].found) /\ DeliverError(t)
    BY <1>17 DEF Fail
  <2> QED
    BY <1>0, <1>2, <1>4, <1>8, <2>1, <2>2, <2>3
<1>18. ASSUME NEW t \in Thread, Shutdown(t) PROVE TypeOK'
  <2> DEFINE c == threads[t].found
  <2>1. c \in Client
    BY <1>3, <1>18 DEF Shutdown, Inside
  <2>2. Clients' /\ Streams'
    <3>1. CASE EndSession(c)
      BY <1>6, <2>1, <3>1
    <3>2. CASE /\ local' = [local EXCEPT ![c] = {"session_id"}]
               /\ session' = [session EXCEPT ![c] = @ \cup {"known"}]
               /\ stream' = [stream EXCEPT ![c] = FALSE]
      BY <1>1, <1>4, <2>1, <3>2
    <3> QED
      BY <1>18, <3>1, <3>2 DEF Shutdown
  <2>3. Threads' /\ Ledger'
    BY <1>7, <1>18, AnswersAreResults DEF Shutdown
  <2> QED
    BY <1>0, <1>2, <1>4, <1>18, <2>1, <2>2, <2>3 DEF Shutdown
<1>19. ASSUME NEW t \in Thread, OpenStream(t) PROVE TypeOK'
  <2>1. threads[t].found \in Client
    BY <1>3, <1>19 DEF OpenStream, Inside
  <2>2. Clients' /\ Streams' /\ Threads'
    BY <1>4, <1>5, <1>19, <2>1, TypeMove DEF OpenStream, Pc, Inside
  <2> QED
    BY <1>0, <1>2, <1>19, <2>2 DEF OpenStream
<1>20. ASSUME NEW t \in Thread, CollectStream(t) PROVE TypeOK'
  <2>1. threads[t].found \in Client
    BY <1>3, <1>20 DEF CollectStream, Inside
  <2>2. Clients' /\ Threads' /\ Ledger'
    BY <1>5, <1>7, <1>8, <1>20, <2>1, AnswersAreResults DEF CollectStream
  <2> QED
    BY <1>0, <1>2, <1>4, <1>20, <2>1, <2>2 DEF CollectStream
<1>21. ASSUME NEW t \in Thread, FreeRemove(t) PROVE TypeOK'
  <2>1. Handles'
    BY <1>1, <1>21 DEF FreeRemove
  <2>2. registry[where[threads[t].aim]] \in Client \cup {Nil}
    BY <1>1, <1>21 DEF FreeRemove, CallsRight
  <2>3. Threads'
    BY <1>21, <2>2, TypeMove DEF FreeRemove, Pc, Freeing
  <2> QED
    BY <1>0, <1>2, <1>21, <2>1, <2>3 DEF FreeRemove, clientVars
<1>22. ASSUME NEW t \in Thread, FreeTake(t) PROVE TypeOK'
  <2>1. threads[t].found \in Client
    BY <1>3, <1>22 DEF FreeTake, Freeing
  <2>2. Handles' /\ Locks' /\ Threads'
    BY <1>1, <1>4, <1>22, <2>1, TypeMove DEF FreeTake, Pc, Freeing
  <2> QED
    BY <1>0, <1>2, <1>22, <2>2 DEF FreeTake, clientVars
<1>23. ASSUME NEW t \in Thread, FreeStop(t) PROVE TypeOK'
  <2>1. threads[t].found \in Client
    BY <1>3, <1>23 DEF FreeStop, Freeing
  <2>2. Clients' /\ Streams' /\ Threads'
    BY <1>6, <1>23, <2>1, TypeMove DEF FreeStop, Pc, Freeing
  <2> QED
    BY <1>0, <1>2, <1>23, <2>2 DEF FreeStop
<1>24. ASSUME NEW t \in Thread, FreeDrop(t) PROVE TypeOK'
  <2>1. threads[t].found \in Client
    BY <1>3, <1>24 DEF FreeDrop, Freeing
  <2>2. Handles' /\ Threads'
    BY <1>1, <1>24, TypeMove DEF FreeDrop, Pc
  <2> QED
    BY <1>0, <1>2, <1>4, <1>24, <2>1, <2>2 DEF FreeDrop, clientVars
<1>25. ASSUME NEW c \in Client, Renew(c) PROVE TypeOK'
  BY <1>0, <1>2, <1>5, <1>25 DEF Renew
<1>26. ASSUME NEW c \in Client, LoseSession(c) \/ Expire(c) PROVE TypeOK'
  <2>1. \E x \in {"known", "lost"} : session' = [session EXCEPT ![c] = @ \ {x}]
    BY <1>26 DEF LoseSession, Expire
  <2>2. Clients'
    BY <1>1, <1>26, <2>1 DEF LoseSession, Expire
  <2>3. Streams'
    BY <1>2, <1>4, <1>26 DEF LoseSession, Expire
  <2> QED
    BY <1>0, <1>2, <1>26, <2>2, <2>3 DEF LoseSession, Expire
<1> QED
  BY <1>9, <1>10, <1>11, <1>12, <1>13, <1>14, <1>15, <1>16, <1>17, <1>18, <1>19, <1>20,
     <1>21, <1>22, <1>23, <1>24, <1>25, <1>26 DEF Next, Step

\* Every step of a thread leaves the others where they are, and takes no query stream
\* from a thread that collects it unless it is that thread's own end.
LEMMA StreamsStep == ASSUME TypeOK, CallsRight, StreamsCollected, [Next]_vars PROVE StreamsCollected'
<1> USE NilAssumption
<1>0. threads \in [Thread -> LocalState] /\ stream \in [Client -> BOOLEAN]
  BY DEF TypeOK
<1>1. ASSUME NEW t \in Thread, threads[t].pc # "collecting",
             \A u \in Thread : u # t => threads'[u] = threads[u],
             \A c \in Client : stream'[c] => stream[c]
      PROVE  StreamsCollected'
  <2> SUFFICES ASSUME NEW c \in Client, stream'[c]
               PROVE  \E u \in Thread : threads'[u].pc = "collecting" /\ threads'[u].found = c
    BY DEF StreamsCollected
  <2>1. PICK u \in Thread : threads[u].pc = "collecting" /\ threads[u].found = c
    BY <1>1 DEF StreamsCollected
  <2>2. threads'[u] = threads[u]
    BY <1>1, <2>1
  <2> QED
    BY <2>1, <2>2
<1>2. ASSUME NEW t \in Thread, NEW x, threads' = [threads EXCEPT ![t] = x]
      PROVE  \A u \in Thread : u # t => threads'[u] = threads[u]
  BY <1>0, <1>2
<1>3. ASSUME NEW t \in Thread, NEW types, Deliver(t, types)
      PROVE  \A u \in Thread : u # t => threads'[u] = threads[u]
  BY <1>2, <1>3, DeliverReturns
<1>4. ASSUME NEW t \in Thread
      PROVE  /\ \A pc : Goto(t, pc) => \A u \in Thread : u # t => threads'[u] = threads[u]
             /\ \A pc, c : Find(t, pc, c) => \A u \in Thread : u # t => threads'[u] = threads[u]
             /\ Return(t) => \A u \in Thread : u # t => threads'[u] = threads[u]
  BY <1>0 DEF Goto, Find, Return
<1>5. CASE UNCHANGED vars
  BY <1>5 DEF vars, StreamsCollected
<1>6. ASSUME NEW t \in Thread, NEW c \in Client, NEW a \in Address, Create(t, c, a)
      PROVE  StreamsCollected'
  BY <1>1, <1>3, <1>6 DEF Create, clientVars
<1>7. ASSUME NEW t \in Thread, Refuse(t) PROVE StreamsCollected'
  BY <1>1, <1>3, <1>7 DEF Refuse, DeliverError, clientVars
<1>8. ASSUME NEW t \in Thread, FreeResult(t) PROVE StreamsCollected'
  BY <1>1, <1>4, <1>8 DEF FreeResult, clientVars
<1>9. ASSUME NEW t \in Thread, NEW c \in Client, NEW pc \in {"looking", "removing"},
             Call(t, c, pc)
      PROVE  StreamsCollected'
  BY <1>1, <1>2, <1>9 DEF Call, clientVars
<1>10. ASSUME NEW t \in Thread, Lookup(t) PROVE StreamsCollected'
  BY <1>1, <1>3, <1>4, <1>10 DEF Lookup, DeliverError, clientVars
<1>11. ASSUME NEW t \in Thread, Enter(t) PROVE StreamsCollected'
  BY <1>1, <1>3, <1>4, <1>11 DEF Enter, DeliverError, clientVars
<1>12. ASSUME NEW t \in Thread, NEW needs \in Needs, Succeed(t, needs) PROVE StreamsCollected'
  BY <1>1, <1>3, <1>12 DEF Succeed
<1>13. ASSUME NEW t \in Thread, NEW needs, Fail(t, needs) PROVE StreamsCollected'
  BY <1>1, <1>3, <1>13 DEF Fail, DeliverError
<1>14. ASSUME NEW c \in Client, stream' = [stream EXCEPT ![c] = FALSE]
       PROVE  \A d \in Client : stream'[d] => stream[d] /\ d # c
  BY <1>0, <1>14
<1>15. ASSUME NEW t \in Thread, Shutdown(t) PROVE StreamsCollected'
  <2>1. stream' = [stream EXCEPT ![threads[t].found] = FALSE]
    BY <1>15 DEF Shutdown, EndSession
  <2>2. \A d \in Client : stream'[d] => stream[d]
    BY <1>0, <2>1
  <2> QED
    BY <1>1, <1>3, <1>15, <2>2 DEF Shutdown
<1>16. ASSUME NEW t \in Thread, OpenStream(t) PROVE StreamsCollected'
  <2> SUFFICES ASSUME NEW c \in Client, stream'[c]
               PROVE  \E u \in Thread : threads'[u].pc = "collecting" /\ threads'[u].found = c
    BY DEF StreamsCollected
  <2>1. threads[t].pc = "performing" /\ Goto(t, "collecting")
    BY <1>16 DEF OpenStream
  <2>2. CASE c = threads[t].found
    <3>1. threads'[t].pc = "collecting" /\ threads'[t].found = c
      BY <1>0, <2>1, <2>2 DEF Goto, LocalState
    <3> QED
      BY <3>1
  <2>3. CASE c # threads[t].found
    <3>1. stream[c]
      BY <1>0, <1>16, <2>3 DEF OpenStream
    <3>2. PICK u \in Thread : threads[u].pc = "collecting" /\ threads[u].found = c
      BY <3>1 DEF StreamsCollected
    <3>3. threads'[u] = threads[u]
      BY <1>4, <2>1, <3>2
    <3> QED
      BY <3>2, <3>3
  <2> QED
    BY <2>2, <2>3
<1>17. ASSUME NEW t \in Thread, CollectStream(t) PROVE StreamsCollected'
  <2> DEFINE d == threads[t].found
  <2>1. d \in Client /\ stream' = [stream EXCEPT ![d] = FALSE]
    BY <1>0, <1>17 DEF CollectStream, CallsRight, LocalState, Inside
  <2>2. \A u \in Thread : u # t => threads'[u] = threads[u]
    BY <1>3, <1>17 DEF CollectStream, DeliverError
  <2> SUFFICES ASSUME NEW c \in Client, stream'[c]
               PROVE  \E u \in Thread : threads'[u].pc = "collecting" /\ threads'[u].found = c
    BY DEF StreamsCollected
  <2>3. stream[c] /\ c # d
    BY <1>14, <2>1
  <2>4. PICK u \in Thread : threads[u].pc = "collecting" /\ threads[u].found = c
    BY <2>3 DEF StreamsCollected
  <2>5. threads'[u] = threads[u]
    BY <2>2, <2>3, <2>4
  <2> QED
    BY <2>4, <2>5
<1>18. ASSUME NEW t \in Thread, FreeRemove(t) \/ FreeTake(t) PROVE StreamsCollected'
  BY <1>1, <1>4, <1>18 DEF FreeRemove, FreeTake, clientVars
<1>19. ASSUME NEW t \in Thread, FreeStop(t) PROVE StreamsCollected'
  <2>1. stream' = [stream EXCEPT ![threads[t].found] = FALSE]
    BY <1>19 DEF FreeStop, EndSession
  <2>2. \A c \in Client : stream'[c] => stream[c]
    BY <1>0, <2>1
  <2> QED
    BY <1>1, <1>4, <1>19, <2>2 DEF FreeStop
<1>20. ASSUME NEW t \in Thread, FreeDrop(t) PROVE StreamsCollected'
  BY <1>1, <1>4, <1>20 DEF FreeDrop, clientVars
<1>21. ASSUME NEW c \in Client, Renew(c) \/ Expire(c) PROVE StreamsCollected'
  BY <1>21 DEF Renew, Expire, StreamsCollected
<1>22. ASSUME NEW c \in Client, LoseSession(c) PROVE StreamsCollected'
  BY <1>14, <1>22 DEF LoseSession, StreamsCollected
<1> QED
  BY <1>5, <1>6, <1>7, <1>8, <1>9, <1>10, <1>11, <1>12, <1>13, <1>15, <1>16, <1>17, <1>18,
     <1>19, <1>20, <1>21, <1>22 DEF Next, Step

\* A free of a result takes every block once, and misfits only where capacity was spare.
LEMMA FreeResultEffect ==
    ASSUME LedgerRight, NEW t \in Thread, FreeResult(t)
    PROVE  /\ heap' = EmptyBag /\ strays' = EmptyBag
           /\ \A r \in results : misfits' = r.shape.spare
<1>1. PICK r \in results :
        /\ heap' = heap (-) Released(r.type, r.shape)
        /\ strays' = Released(r.type, r.shape) (-) heap
        /\ misfits' = {p \in Place : /\ BagIn(p, Released(r.type, r.shape)) /\ BagIn(p, heap)
                                     /\ FreedCapacity(p) # MappedCapacity(r.shape, p)}
  BY DEF FreeResult
<1>2. r \in Result /\ results = {r} /\ heap = Blocks(r.type, r.shape)
  BY <1>1 DEF LedgerRight
<1>3. Released(r.type, r.shape) = heap /\ IsABag(heap)
  BY <1>2, ReleasedIsBlocks, BlocksBag
<1>4. misfits' = r.shape.spare
  BY <1>1, <1>2, <1>3, SpareIsMapped DEF BagIn, FreedCapacity, MappedCapacity
<1> QED
  BY <1>1, <1>2, <1>3, <1>4, BagWithoutItself

\* The ledger is right after every step: a call delivers, or nothing changes, or the
\* host frees the result.
LEMMA LedgerStep == ASSUME TypeOK, LedgerRight, [Next]_vars PROVE LedgerRight'
<1>1. /\ \A needs \in Needs : ResultTypes(needs) \cup {"string"} \in SUBSET ResultType
      /\ {"string"} \in SUBSET ResultType /\ {"stream", "string"} \in SUBSET ResultType
      /\ {"none", "string"} \in SUBSET ResultType
  BY AnswersAreResults
<1>2. CASE UNCHANGED ledger
  BY <1>2 DEF ledger, LedgerRight
<1>3. ASSUME NEW t \in Thread, NEW types \in SUBSET ResultType, Deliver(t, types)
      PROVE  LedgerRight'
  BY <1>3, DeliverLedger
<1>4. ASSUME NEW t \in Thread, DeliverError(t) PROVE LedgerRight'
  BY <1>1, <1>3, <1>4 DEF DeliverError
<1>5. ASSUME NEW t \in Thread, FreeResult(t) PROVE LedgerRight'
  <2>1. heap' = EmptyBag /\ strays' = EmptyBag
    BY <1>5, FreeResultEffect
  <2> QED
    BY <1>5, <2>1 DEF FreeResult, LedgerRight
<1>6. CASE UNCHANGED vars
  BY <1>2, <1>6 DEF vars, ledger
<1>7. ASSUME NEW t \in Thread, NEW c \in Client, NEW a \in Address, Create(t, c, a)
      PROVE  LedgerRight'
  BY <1>1, <1>3, <1>7 DEF Create
<1>8. ASSUME NEW t \in Thread, Refuse(t) PROVE LedgerRight'
  BY <1>4, <1>8 DEF Refuse
<1>9. ASSUME NEW t \in Thread, NEW c \in Client, NEW pc, Call(t, c, pc) PROVE LedgerRight'
  BY <1>2, <1>9 DEF Call
<1>10. ASSUME NEW t \in Thread, Lookup(t) \/ Enter(t) PROVE LedgerRight'
  BY <1>2, <1>4, <1>10 DEF Lookup, Enter
<1>11. ASSUME NEW t \in Thread, NEW needs \in Needs, Succeed(t, needs) PROVE LedgerRight'
  BY <1>1, <1>3, <1>11 DEF Succeed
<1>12. ASSUME NEW t \in Thread, NEW needs, Fail(t, needs) PROVE LedgerRight'
  BY <1>4, <1>12 DEF Fail
<1>13. ASSUME NEW t \in Thread, Shutdown(t) PROVE LedgerRight'
  BY <1>1, <1>3, <1>13 DEF Shutdown
<1>14. ASSUME NEW t \in Thread, OpenStream(t) PROVE LedgerRight'
  BY <1>2, <1>14 DEF OpenStream
<1>15. ASSUME NEW t \in Thread, CollectStream(t) PROVE LedgerRight'
  BY <1>1, <1>3, <1>4, <1>15 DEF CollectStream
<1>16. ASSUME NEW t \in Thread, FreeRemove(t) \/ FreeTake(t) \/ FreeStop(t) \/ FreeDrop(t)
       PROVE  LedgerRight'
  BY <1>2, <1>16 DEF FreeRemove, FreeTake, FreeStop, FreeDrop
<1>17. ASSUME NEW c \in Client, Renew(c) \/ LoseSession(c) \/ Expire(c) PROVE LedgerRight'
  BY <1>2, <1>17 DEF Renew, LoseSession, Expire
<1> QED
  BY <1>5, <1>6, <1>7, <1>8, <1>9, <1>10, <1>11, <1>12, <1>13, <1>14, <1>15, <1>16, <1>17
     DEF Next, Step

-----------------------------------------------------------------------------
(* The theorems.                                                           *)

\* Nothing is created yet.
LEMMA FfiInit == Init => FfiInv
<1> SUFFICES ASSUME Init PROVE FfiInv
  OBVIOUS
<1> USE NilAssumption
<1>1. \A t \in Thread : threads[t] = Idle
  BY DEF Init
<1>2. Idle.pc = "idle" /\ Idle.aim = Nil /\ Idle.found = Nil /\ Idle \in LocalState
  BY DEF Idle, LocalState, Pc
<1>3. TypeOK
  <2>1. IsABag(heap) /\ IsABag(strays)
    BY BagOfSet DEF Init, EmptyBag
  <2> QED
    BY <1>2, <2>1 DEF Init, TypeOK
<1>4. HandlesRight
  BY DEF Init, HandlesRight
<1>5. CallsRight /\ FreesRight /\ LocksRight /\ RunsOnlyLive /\ MisdirectedOnlyAfterFree
  BY <1>1, <1>2 DEF CallsRight, FreesRight, LocksRight, RunsOnlyLive,
     MisdirectedOnlyAfterFree, Inside, Freeing
<1>6. StreamsCollected /\ LedgerRight
  BY DEF Init, StreamsCollected, LedgerRight
<1> QED
  BY <1>3, <1>4, <1>5, <1>6 DEF FfiInv, SoundHandles

\* The inductive invariant holds throughout.
THEOREM FfiSound == Spec => []FfiInv
<1>1. Init => FfiInv
  BY FfiInit
<1>2. FfiInv /\ [Next]_vars => FfiInv'
  BY SoundStep, TypeStep, StreamsStep, LedgerStep DEF FfiInv, SoundHandles
<1> QED
  BY <1>1, <1>2, PTL DEF Spec

\* The registry, the clients and the threads only take the values that the code gives
\* them, whatever the host's threads do.
THEOREM FfiTypes == Spec => []TypeOK
<1>1. FfiInv => TypeOK
  BY DEF FfiInv
<1> QED
  BY <1>1, FfiSound, PTL

\* with_client_handle runs an operation only on a client that no free has taken, and
\* keeps every other call of that client out, for any number of threads.
THEOREM OperationsRunAlone == Spec => []RunsOnlyLive
<1>1. FfiInv => RunsOnlyLive
  BY DEF FfiInv, SoundHandles
<1> QED
  BY <1>1, FfiSound, PTL

\* vldb_controller_ffi_client_free drops only a shell that is still allocated, and no
\* other free drops it, although the handle is a bare address that may be used again.
THEOREM NoDoubleFree == Spec => []ShellsOwned
<1>1. ASSUME FfiInv PROVE ShellsOwned
  <2> SUFFICES ASSUME NEW a \in Address
               PROVE  LET freeing == {t \in Thread : /\ threads[t].pc \in Freeing
                                                     /\ where[threads[t].aim] = a}
                      IN /\ registry[a] # Nil => shell[a] = registry[a] /\ freeing = {}
                         /\ \A t, u \in freeing : t = u
                         /\ \A t \in freeing : shell[a] = threads[t].found
    BY DEF ShellsOwned
  <2>1. registry[a] # Nil => shell[a] = registry[a]
    BY <1>1 DEF FfiInv, SoundHandles, HandlesRight
  <2>2. FreesRight
    BY <1>1 DEF FfiInv, SoundHandles
  <2> QED
    BY <2>1, <2>2 DEF FreesRight
<1> QED
  BY <1>1, FfiSound, PTL

\* What the comment on handles promises of a stale pointer, and its limit: a call goes
\* to another client only after its own was freed.
THEOREM StaleHandlesOnly == Spec => []MisdirectedOnlyAfterFree
<1>1. FfiInv => MisdirectedOnlyAfterFree
  BY DEF FfiInv, SoundHandles
<1> QED
  BY <1>1, FfiSound, PTL

\* collect_sqlite_query_stream_result leaves no stream open behind it.
THEOREM NoStreamLeft == Spec => []StreamsCollected
<1>1. FfiInv => StreamsCollected
  BY DEF FfiInv
<1> QED
  BY <1>1, FfiSound, PTL

\* The free functions give back every block that the map_* functions allocated, and none
\* twice, for lists of any length.
THEOREM NoLeak == Spec => []ResultsReleased
<1>1. FfiInv => ResultsReleased
  BY DEF FfiInv, LedgerRight, ResultsReleased
<1> QED
  BY <1>1, FfiSound, PTL

\* But vldb_controller_ffi_bytes_free and the array frees rebuild a Vec with its length for
\* a capacity: exactly the buffers with spare capacity are given back under another layout
\* than they were allocated with.
THEOREM MisfitsExact == Spec => SpareMisfits
<1>1. ASSUME FfiInv, [Next]_vars, NEW r \in results, results' = {}
      PROVE  misfits' = r.shape.spare
  <2>1. LedgerRight
    BY <1>1 DEF FfiInv
  <2>2. results' # results
    BY <1>1
  <2>3. ASSUME NEW t \in Thread, NEW types, Deliver(t, types) PROVE FALSE
    BY <1>1, <2>3 DEF Deliver, ledger
  <2>4. \E t \in Thread : FreeResult(t)
    <3>1. ~UNCHANGED ledger /\ ~UNCHANGED vars
      BY <2>2 DEF ledger, vars
    <3>2. \A t \in Thread : ~Step(t)
      BY <2>3, <3>1 DEF Step, Lookup, Enter, Succeed, Fail, Shutdown, OpenStream,
         CollectStream, FreeRemove, FreeTake, FreeStop, FreeDrop, DeliverError
    <3> QED
      BY <1>1, <2>3, <3>1, <3>2 DEF Next, Create, Refuse, DeliverError, Call, Renew,
         LoseSession, Expire
  <2> QED
    BY <2>1, <2>4, FreeResultEffect
<1>2. FfiInv /\ [Next]_vars => [\A r \in results : results' = {} => misfits' = r.shape.spare]_vars
  BY <1>1
<1> QED
  BY <1>2, FfiSound, PTL DEF Spec, SpareMisfits
=============================================================================
