---------------------------- MODULE FfiOperations ----------------------------
(***************************************************************************)
(* The operations that ffi/src/lib.rs exports on a client handle, and the  *)
(* heap blocks of their results: what the map_* functions allocate for the *)
(* host, and what the *_free functions give back when the host returns a   *)
(* result.  The two sides are written apart, as they are in the code, and  *)
(* both are bags: a block that is given back twice counts twice.           *)
(*                                                                         *)
(* A Vec reaches the host as a pointer and a length; its capacity, which   *)
(* says how much was allocated, is forgotten.  So a result also has the    *)
(* set of its buffers that were allocated larger than their length.        *)
(***************************************************************************)
EXTENDS Naturals, Bags

CONSTANT MaxItems   \* bound: elements of a list in a result

ASSUME ItemsAssumption == MaxItems \in Nat

\* What the blocks of a result depend on, its shape: the elements of its list (or whether
\* it has data), the backends whose status is present, and the buffers that have spare
\* capacity.  A block is named by its place: the field that points to it and the element
\* of the list it belongs to, 0 outside the list.  Place has the places of buffers.
Backends == SUBSET {"sqlite", "lancedb"}
Place    == {"items", "data"} \X (0 .. MaxItems)

\* One block for every one of the fields, and for every one of each element.
Fields(names)      == SetToBag(names \X {0})
Elements(n, names) == SetToBag(names \X (1 .. n))

\* The buffer of a Vec with n elements; an empty one was never allocated.
Buffer(field, n) == IF n = 0 THEN EmptyBag ELSE Fields({field})

\* A list: its buffer, and what its elements point to.
List(n, names) == Buffer("items", n) (+) Elements(n, names)

\* What the allocator knows of a buffer.  The map_* functions forget the Vec that a
\* collect, a decoder or with_capacity has made, in place perhaps of one with larger
\* elements; the free functions rebuild it as Vec::from_raw_parts(ptr, len, len).
MappedCapacity(x, place) == IF place \in x.spare THEN "more" ELSE "len"
FreedCapacity(place)     == "len"

-----------------------------------------------------------------------------
(* The map_* functions.  The box of the result itself is write_boxed_out_ptr's. *)

\* What an optional backend status points to.
StatusOf(b) ==
    IF b = "sqlite" THEN {"sqlite", "sqlite.mode", "sqlite.target"}
                    ELSE {"lancedb", "lancedb.mode", "lancedb.target"}

MapBackendStatus(x) == UNION {StatusOf(b) : b \in x.backends}

MapStatusSnapshot(x)      == Fields({"bind_addr"})
SnapshotFields(x)         == {"space_id", "space_label", "space_root"} \cup MapBackendStatus(x)
MapSpaceSnapshot(x)       == Fields(SnapshotFields(x))
MapSpaceSnapshotArray(x)  == List(x.items, SnapshotFields(x))
MapExecuteResult(x)       == Fields({"message"})
MapQueryResult(x)         == Fields({"json_data"})
MapExecuteBatchResult(x)  == Fields({"message"})
MapByteBufferArray(x)     == List(x.items, {"data"})
MapQueryStreamResult(x)   == Fields({"chunks"}) (+) MapByteBufferArray(x)
MapTokenizeResult(x)      ==
    Fields({"tokenizer_mode", "normalized_text", "tokens_json", "fts_query"})
MapCustomWordArray(x)     == List(x.items, {"word"})
MapListWordsResult(x)     == Fields({"message", "words"}) (+) MapCustomWordArray(x)
MapDictionaryResult(x)    == Fields({"message"})
MapEnsureIndexResult(x)   == Fields({"message", "index_name", "tokenizer_mode"})
MapRebuildIndexResult(x)  == Fields({"message", "index_name", "tokenizer_mode"})
MapFtsMutationResult(x)   == Fields({"message", "index_name"})
MapHitArray(x)            ==
    List(x.items, {"id", "file_path", "title", "title_highlight", "content_snippet"})
MapSearchFtsResult(x)     ==
    Fields({"message", "index_name", "tokenizer_mode", "normalized_query", "fts_query",
            "source", "query_mode", "hits"}) (+) MapHitArray(x)
MapCreateTableResult(x)   == Fields({"message"})
MapUpsertResult(x)        == Fields({"message"})
MapSearchResult(x)        == Fields({"message", "format"}) (+) Buffer("data", x.items)
MapDeleteResult(x)        == Fields({"message"})
MapDropTableResult(x)     == Fields({"message"})

-----------------------------------------------------------------------------
(* The *_free functions.                                                   *)

\* free_backend_status_ptr on both fields; a null pointer has nothing to free.
FreeBackendStatus(x) ==
    UNION {IF b = "sqlite" THEN {"sqlite", "sqlite.mode", "sqlite.target"}
                           ELSE {"lancedb", "lancedb.mode", "lancedb.target"} : b \in x.backends}

FreeStatus(x)         == Fields({"bind_addr"})
FreeSnapshotFields(x) == {"space_id", "space_label", "space_root"} \cup FreeBackendStatus(x)
FreeSpace(x)          == Fields(FreeSnapshotFields(x))
FreeSpaceArray(x)     == List(x.items, FreeSnapshotFields(x))
FreeExecute(x)        == Fields({"message"})
FreeQuery(x)          == Fields({"json_data"})
FreeExecuteBatch(x)   == Fields({"message"})
FreeByteBuffers(x)    == List(x.items, {"data"})
FreeQueryStream(x)    == Fields({"chunks"}) (+) FreeByteBuffers(x)
FreeTokenize(x)       ==
    Fields({"tokenizer_mode", "normalized_text", "tokens_json", "fts_query"})
FreeCustomWords(x)    == List(x.items, {"word"})
FreeListWords(x)      == Fields({"message", "words"}) (+) FreeCustomWords(x)
FreeDictionary(x)     == Fields({"message"})
FreeEnsureIndex(x)    == Fields({"message", "index_name", "tokenizer_mode"})
FreeRebuildIndex(x)   == Fields({"message", "index_name", "tokenizer_mode"})
FreeFtsMutation(x)    == Fields({"message", "index_name"})

\* Faulty: the elements of the list are dropped without their strings.
FreeHitsShallow(x) == List(x.items, {"id", "file_path", "title"})

\* Faulty: the title is freed a second time.
FreeHitsTwice(x) ==
    List(x.items, {"id", "file_path", "title", "title_highlight", "content_snippet"})
      (+) Elements(x.items, {"title"})

FreeHits(x) ==
    List(x.items, {"id", "file_path", "title", "title_highlight", "content_snippet"})

FreeSearchFts(x) ==
    Fields({"message", "index_name", "tokenizer_mode", "normalized_query", "fts_query",
            "source", "query_mode", "hits"}) (+) FreeHits(x)
FreeCreateTable(x)    == Fields({"message"})
FreeUpsert(x)         == Fields({"message"})
FreeSearch(x)         == Fields({"message", "format"}) (+) Buffer("data", x.items)
FreeDelete(x)         == Fields({"message"})
FreeDropTable(x)      == Fields({"message"})

-----------------------------------------------------------------------------
(* Results: every native result type with what its conversion allocates,   *)
(* and the free function that belongs to it.                               *)

\* Strings (an error, a JSON response) are one block; a flag or nothing is written in
\* place.
InPlace == {"none", "flag"}

Mapped(type, x) ==
    CASE type = "status"        -> MapStatusSnapshot(x)
      [] type = "space"         -> MapSpaceSnapshot(x)
      [] type = "spaces"        -> MapSpaceSnapshotArray(x)
      [] type = "execute"       -> MapExecuteResult(x)
      [] type = "query"         -> MapQueryResult(x)
      [] type = "batch"         -> MapExecuteBatchResult(x)
      [] type = "stream"        -> MapQueryStreamResult(x)
      [] type = "tokenize"      -> MapTokenizeResult(x)
      [] type = "words"         -> MapListWordsResult(x)
      [] type = "dictionary"    -> MapDictionaryResult(x)
      [] type = "ensure_index"  -> MapEnsureIndexResult(x)
      [] type = "rebuild_index" -> MapRebuildIndexResult(x)
      [] type = "fts_mutation"  -> MapFtsMutationResult(x)
      [] type = "hits"          -> MapSearchFtsResult(x)
      [] type = "create_table"  -> MapCreateTableResult(x)
      [] type = "upsert"        -> MapUpsertResult(x)
      [] type = "search"        -> MapSearchResult(x)
      [] type = "delete"        -> MapDeleteResult(x)
      [] type = "drop_table"    -> MapDropTableResult(x)
      [] OTHER                  -> EmptyBag

Freed(type, x) ==
    CASE type = "status"        -> FreeStatus(x)
      [] type = "space"         -> FreeSpace(x)
      [] type = "spaces"        -> FreeSpaceArray(x)
      [] type = "execute"       -> FreeExecute(x)
      [] type = "query"         -> FreeQuery(x)
      [] type = "batch"         -> FreeExecuteBatch(x)
      [] type = "stream"        -> FreeQueryStream(x)
      [] type = "tokenize"      -> FreeTokenize(x)
      [] type = "words"         -> FreeListWords(x)
      [] type = "dictionary"    -> FreeDictionary(x)
      [] type = "ensure_index"  -> FreeEnsureIndex(x)
      [] type = "rebuild_index" -> FreeRebuildIndex(x)
      [] type = "fts_mutation"  -> FreeFtsMutation(x)
      [] type = "hits"          -> FreeSearchFts(x)
      [] type = "create_table"  -> FreeCreateTable(x)
      [] type = "upsert"        -> FreeUpsert(x)
      [] type = "search"        -> FreeSearch(x)
      [] type = "delete"        -> FreeDelete(x)
      [] type = "drop_table"    -> FreeDropTable(x)
      [] OTHER                  -> EmptyBag

\* write_boxed_out_ptr and write_string_out, and the box the free function takes back.
Blocks(type, x)   == IF type \in InPlace THEN EmptyBag ELSE Fields({"result"}) (+) Mapped(type, x)
Released(type, x) == IF type \in InPlace THEN EmptyBag ELSE Fields({"result"}) (+) Freed(type, x)

-----------------------------------------------------------------------------
(* The operations, each with its native and its JSON entry point: what the *)
(* native one yields, and what the client asks of its session first.       *)

\* registration: connect_client, which registers the session that is missing; session:
\* the same, for a client that has registered before; renewal: a renew task as well.
Needs == {"nothing", "session", "registration", "renewal"}

Operation(result, needs) == [result |-> result, needs |-> needs]

Registered(result) == Operation(result, "registration")

Connect              == Operation("none", "renewal")
GetStatus            == Operation("status", "nothing")
AttachSpace          == Registered("space")
DetachSpace          == Registered("flag")
ListSpaces           == Operation("spaces", "session")
EnableSqlite         == Registered("none")
DisableSqlite        == Registered("flag")
ExecuteSqliteScript  == Registered("execute")
QuerySqliteJson      == Registered("query")
ExecuteSqliteBatch   == Registered("batch")
TokenizeSqliteText   == Registered("tokenize")
ListCustomWords      == Registered("words")
UpsertCustomWord     == Registered("dictionary")
RemoveCustomWord     == Registered("dictionary")
EnsureFtsIndex       == Registered("ensure_index")
RebuildFtsIndex      == Registered("rebuild_index")
UpsertFtsDocument    == Registered("fts_mutation")
DeleteFtsDocument    == Registered("fts_mutation")
SearchFts            == Registered("hits")
EnableLanceDb        == Registered("none")
DisableLanceDb       == Registered("flag")
CreateLanceDbTable   == Registered("create_table")
UpsertLanceDb        == Registered("upsert")
SearchLanceDb        == Registered("search")
DeleteLanceDb        == Registered("delete")
DropLanceDbTable     == Registered("drop_table")

\* Every operation that is one call of the client; the query stream and the shutdown
\* are actions of their own.
Operations ==
    {Connect, GetStatus, AttachSpace, DetachSpace, ListSpaces, EnableSqlite, DisableSqlite,
     ExecuteSqliteScript, QuerySqliteJson, ExecuteSqliteBatch, TokenizeSqliteText,
     ListCustomWords, UpsertCustomWord, RemoveCustomWord, EnsureFtsIndex, RebuildFtsIndex,
     UpsertFtsDocument, DeleteFtsDocument, SearchFts, EnableLanceDb, DisableLanceDb,
     CreateLanceDbTable, UpsertLanceDb, SearchLanceDb, DeleteLanceDb, DropLanceDbTable}

\* The results of the operations that ask for this.
ResultTypes(needs) == {op.result : op \in {o \in Operations : o.needs = needs}}

ResultType == {"stream", "string"} \cup UNION {ResultTypes(needs) : needs \in Needs}

\* The buffers that leave their capacity behind.
Buffers(type, n) ==
    IF n = 0 THEN {} ELSE
      CASE type \in {"spaces", "words", "hits"} -> {<<"items", 0>>}
        [] type = "stream"                      -> {<<"items", 0>>} \cup ({"data"} \X (1 .. n))
        [] type = "search"                      -> {<<"data", 0>>}
        [] OTHER                                -> {}

\* What a result of this type varies in.
Items(type)    == IF Buffers(type, 1) = {} THEN {0} ELSE 0 .. MaxItems
Statuses(type) == IF type \in {"space", "spaces"} THEN Backends ELSE {{}}

Shapes(type) ==
    UNION {[items : {n}, backends : Statuses(type), spare : SUBSET Buffers(type, n)]
           : n \in Items(type)}

Results(type) == [type : {type}, shape : Shapes(type)]
Result        == UNION {Results(type) : type \in ResultType}
=============================================================================
