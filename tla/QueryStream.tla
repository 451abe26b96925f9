----------------------------- MODULE QueryStream -----------------------------
(***************************************************************************)
(* One SQLite query stream of the controller (controller/src/core/         *)
(* sqlite.rs): a thread runs the query and writes its output to a spool    *)
(* file in chunks, readers ask for chunks by index or wait for the final   *)
(* metrics, and the spool file goes with the last reference to the stream. *)
(*                                                                         *)
(* The output is a run of bytes; only its length matters, since byte n of  *)
(* the output is written at offset n of the spool.  "inner" is what the    *)
(* mutex of the handle protects and "sleeping" the threads waiting on its  *)
(* condition variable.                                                     *)
(***************************************************************************)
EXTENDS Naturals, Sequences

CONSTANTS
    Reader,         \* threads that serve read, wait and close requests
    ChunkSize,      \* target_chunk_size
    MaxBytes        \* bound: length of the output

ASSUME SizesAssumption == ChunkSize \in Nat \ {0} /\ MaxBytes \in Nat

VARIABLES
    inner,      \* the shared state of the handle
    writer,     \* the spool writer of the producer thread, and where that is
    spool,      \* the spool file
    readers,    \* per reader: what it asks, where it is and what it got
    sleeping,   \* readers waiting on the condition variable
    registered  \* the registry of the controller holds the stream

vars == <<inner, writer, spool, readers, sleeping, registered>>

Descriptor == [offset : Nat, len : Nat]
Metrics    == [chunk_count : Nat, total_bytes : Nat]

Inner == [chunk_descriptors : Seq(Descriptor), metrics : Metrics,
          complete : BOOLEAN, error : BOOLEAN]

\* pc: "start"; "rows" while the query delivers; "full" while full chunks are
\* cut; "written" between the write of a chunk and its descriptor; "ended" and
\* "failed" before the result is published; "published"; "gone".
Writer == [pc : {"start", "rows", "full", "written", "ended", "failed", "published", "gone"},
           pending : Nat, cut : Nat, current_offset : Nat,
           emitted_chunks : Nat, emitted_bytes : Nat]

\* What a reader asks for: the final metrics, or a chunk.  The code counts the
\* chunks from 0, the model from 1.
FinalMetrics == 0

\* pc: "idle"; "looking" at the shared state, or asleep; "reading" the spool.
ReaderState == [pc : {"idle", "looking", "reading"}, wish : Nat,
                descriptor : Descriptor,
                got : {"nothing", "chunk", "metrics", "error", "out_of_bounds", "torn"}]

NoDescriptor == [offset |-> 0, len |-> 0]

Init ==
    /\ inner = [chunk_descriptors |-> <<>>, complete |-> FALSE, error |-> FALSE,
                metrics |-> [chunk_count |-> 0, total_bytes |-> 0]]
    /\ writer = [pc |-> "start", pending |-> 0, cut |-> 0, current_offset |-> 0,
                 emitted_chunks |-> 0, emitted_bytes |-> 0]
    /\ spool = [exists |-> FALSE, len |-> 0]
    /\ readers = [r \in Reader |-> [pc |-> "idle", wish |-> FinalMetrics, got |-> "nothing",
                                    descriptor |-> NoDescriptor]]
    /\ sleeping = {}
    /\ registered = TRUE

-----------------------------------------------------------------------------
(* References.  The registry, the producer and every reader that has looked *)
(* the stream up hold one; the last that goes removes the file.             *)

Referenced ==
    \/ registered
    \/ writer.pc # "gone"
    \/ \E r \in Reader : readers[r].pc # "idle"

\* Faulty: the registry's reference alone keeps the file.
DropStreamWithRegistry == spool' = [spool EXCEPT !.exists = @ /\ registered']

\* Faulty: nobody removes the file.
DropStreamLeavingFile == UNCHANGED spool

\* What a step that gives up a reference does to the file.
DropStream == spool' = [spool EXCEPT !.exists = @ /\ Referenced']

-----------------------------------------------------------------------------
(* The producer thread.                                                    *)

\* The query can fail before the file is created, or creating it can fail.
CreateSpool ==
    /\ writer.pc = "start"
    /\ \/ /\ writer' = [writer EXCEPT !.pc = "rows"]
          /\ spool' = [exists |-> TRUE, len |-> 0]
       \/ /\ writer' = [writer EXCEPT !.pc = "failed"]
          /\ UNCHANGED spool
    /\ UNCHANGED <<inner, readers, sleeping, registered>>

Produced == writer.emitted_bytes + writer.pending

\* The query delivers n more bytes.
Write(n) ==
    /\ writer.pc = "rows"
    /\ Produced + n <= MaxBytes
    /\ writer' = [writer EXCEPT !.pc = "full", !.pending = @ + n]
    /\ UNCHANGED <<inner, spool, readers, sleeping, registered>>

\* write_chunk up to its write_all: "cut" bytes go to the end of the file.
SpoolChunk(cut) ==
    /\ spool' = [spool EXCEPT !.len = @ + cut]
    /\ writer' = [writer EXCEPT !.pc = "written", !.cut = cut, !.pending = @ - cut]

EmitFullChunk ==
    /\ writer.pc = "full"
    /\ IF writer.pending >= ChunkSize
       THEN SpoolChunk(ChunkSize)
       ELSE writer' = [writer EXCEPT !.pc = "rows"] /\ UNCHANGED spool
    /\ UNCHANGED <<inner, readers, sleeping, registered>>

\* Flushing emits what is left, if anything is.
EmitRemaining ==
    /\ writer.pc = "rows"
    /\ writer.pending > 0
    /\ SpoolChunk(writer.pending)
    /\ UNCHANGED <<inner, readers, sleeping, registered>>

\* The disk is full: a part of the chunk may be in the file, the query fails.
WriteFails ==
    /\ writer.pc \in {"rows", "full"}
    /\ writer.pending > 0
    /\ \E part \in 0 .. writer.pending - 1 : spool' = [spool EXCEPT !.len = @ + part]
    /\ writer' = [writer EXCEPT !.pc = "failed"]
    /\ UNCHANGED <<inner, readers, sleeping, registered>>

\* Faulty: the offset of the next chunk is not moved.
RegisterChunkInPlace ==
    /\ writer.pc = "written"
    /\ inner' = [inner EXCEPT !.chunk_descriptors =
                    Append(@, [offset |-> writer.current_offset, len |-> writer.cut])]
    /\ sleeping' = {}
    /\ writer' = [writer EXCEPT !.pc = "full", !.cut = 0,
                                !.emitted_chunks = @ + 1, !.emitted_bytes = @ + writer.cut]
    /\ UNCHANGED <<spool, readers, registered>>

\* Faulty: a chunk is registered without being counted.
RegisterChunkUncounted ==
    /\ writer.pc = "written"
    /\ inner' = [inner EXCEPT !.chunk_descriptors =
                    Append(@, [offset |-> writer.current_offset, len |-> writer.cut])]
    /\ sleeping' = {}
    /\ writer' = [writer EXCEPT !.pc = "full", !.cut = 0,
                                !.current_offset = @ + writer.cut]
    /\ UNCHANGED <<spool, readers, registered>>

\* The rest of write_chunk: the descriptor is published and everybody woken.
RegisterChunk ==
    /\ writer.pc = "written"
    /\ inner' = [inner EXCEPT !.chunk_descriptors =
                    Append(@, [offset |-> writer.current_offset, len |-> writer.cut])]
    /\ sleeping' = {}
    /\ writer' = [writer EXCEPT !.pc = "full", !.cut = 0,
                                !.current_offset = @ + writer.cut,
                                !.emitted_chunks = @ + 1, !.emitted_bytes = @ + writer.cut]
    /\ UNCHANGED <<spool, readers, registered>>

\* The query has delivered everything and flushed, or it fails.
QueryEnds ==
    /\ writer.pc = "rows"
    /\ \/ writer.pending = 0 /\ writer' = [writer EXCEPT !.pc = "ended"]
       \/ writer' = [writer EXCEPT !.pc = "failed"]
    /\ UNCHANGED <<inner, spool, readers, sleeping, registered>>

\* finish: the metrics are what the writer counted.
Finish ==
    /\ writer.pc = "ended"
    /\ inner' = [inner EXCEPT !.complete = TRUE,
                    !.metrics = [chunk_count |-> writer.emitted_chunks,
                                 total_bytes |-> writer.emitted_bytes]]
    /\ sleeping' = {}
    /\ writer' = [writer EXCEPT !.pc = "published"]
    /\ UNCHANGED <<spool, readers, registered>>

\* Faulty: nobody is woken.
FailSilently ==
    /\ writer.pc = "failed"
    /\ inner' = [inner EXCEPT !.complete = TRUE, !.error = TRUE]
    /\ writer' = [writer EXCEPT !.pc = "published"]
    /\ UNCHANGED <<spool, readers, sleeping, registered>>

Fail ==
    /\ writer.pc = "failed"
    /\ inner' = [inner EXCEPT !.complete = TRUE, !.error = TRUE]
    /\ sleeping' = {}
    /\ writer' = [writer EXCEPT !.pc = "published"]
    /\ UNCHANGED <<spool, readers, registered>>

ProducerExits ==
    /\ writer.pc = "published"
    /\ writer' = [writer EXCEPT !.pc = "gone"]
    /\ UNCHANGED <<inner, readers, sleeping, registered>>
    /\ DropStream

Producer ==
    \/ CreateSpool
    \/ \E n \in 1 .. MaxBytes : Write(n)
    \/ EmitFullChunk \/ EmitRemaining \/ WriteFails \/ RegisterChunk
    \/ QueryEnds \/ Finish \/ Fail
    \/ ProducerExits

-----------------------------------------------------------------------------
(* Readers.                                                                *)

\* A request looks the stream up in the registry and clones the handle.
Ask(r, wish) ==
    /\ registered
    /\ readers[r].pc = "idle"
    /\ readers' = [readers EXCEPT ![r] =
                     [pc |-> "looking", wish |-> wish, got |-> "nothing",
                      descriptor |-> NoDescriptor]]
    /\ UNCHANGED <<inner, writer, spool, sleeping, registered>>

\* r looks at the shared state, the mutex taken.
Looks(r) == readers[r].pc = "looking" /\ r \notin sleeping

Answer(r, got) ==
    /\ readers' = [readers EXCEPT ![r].pc = "idle", ![r].got = got]
    /\ UNCHANGED <<inner, writer, sleeping, registered>>
    /\ DropStream

WaitForMetrics(r) ==
    /\ Looks(r)
    /\ readers[r].wish = FinalMetrics
    /\ inner.complete
    /\ Answer(r, IF inner.error THEN "error" ELSE "metrics")

\* The chunk r wishes has been registered.
Available(r) ==
    /\ readers[r].wish # FinalMetrics
    /\ readers[r].wish <= Len(inner.chunk_descriptors)

FindChunk(r) ==
    /\ Looks(r)
    /\ Available(r)
    /\ readers' = [readers EXCEPT ![r].pc = "reading",
                     ![r].descriptor = inner.chunk_descriptors[readers[r].wish]]
    /\ UNCHANGED <<inner, writer, spool, sleeping, registered>>

\* Faulty: a chunk that is not there yet is taken for one that never comes.
MissChunkEarly(r) ==
    /\ Looks(r)
    /\ readers[r].wish # FinalMetrics
    /\ ~Available(r)
    /\ Answer(r, IF inner.error THEN "error" ELSE "out_of_bounds")

MissChunk(r) ==
    /\ Looks(r)
    /\ readers[r].wish # FinalMetrics
    /\ ~Available(r)
    /\ inner.complete
    /\ Answer(r, IF inner.error THEN "error" ELSE "out_of_bounds")

\* Waiting releases the mutex and goes to sleep in one step.
Sleep(r) ==
    /\ Looks(r)
    /\ ~Available(r)
    /\ ~inner.complete
    /\ sleeping' = sleeping \cup {r}
    /\ UNCHANGED <<inner, writer, spool, readers, registered>>

\* A condition variable may wake a thread without notification.
WakeSpuriously(r) ==
    /\ r \in sleeping
    /\ sleeping' = sleeping \ {r}
    /\ UNCHANGED <<inner, writer, spool, readers, registered>>

\* The file is opened and read after the mutex has been released.
ReadSpool(r) ==
    LET d == readers[r].descriptor
        readable == spool.exists /\ d.offset + d.len <= spool.len
    IN /\ readers[r].pc = "reading"
       /\ Answer(r, IF readable THEN "chunk" ELSE "torn")

\* The stream is closed, reaped, or its session ends.
Unregister ==
    /\ registered
    /\ registered' = FALSE
    /\ UNCHANGED <<inner, writer, readers, sleeping>>
    /\ DropStream

Progress(r) ==
    WaitForMetrics(r) \/ FindChunk(r) \/ MissChunk(r) \/ Sleep(r) \/ ReadSpool(r)

Next ==
    \/ Producer
    \/ \E r \in Reader :
          \/ \E wish \in 0 .. MaxBytes + 1 : Ask(r, wish)
          \/ Progress(r)
          \/ WakeSpuriously(r)
    \/ Unregister

Spec == Init /\ [][Next]_vars

\* Threads are scheduled, and a query that has delivered all its output ends.
Fairness ==
    /\ WF_vars(Producer)
    /\ \A r \in Reader : WF_vars(Progress(r))

FairSpec == Spec /\ Fairness

-----------------------------------------------------------------------------
(* Properties.                                                             *)

TypeOK ==
    /\ inner \in Inner
    /\ writer \in Writer
    /\ spool \in [exists : BOOLEAN, len : Nat]
    /\ readers \in [Reader -> ReaderState]
    /\ sleeping \subseteq Reader
    /\ registered \in BOOLEAN

\* The chunks lie in the file one behind the other from its start, none empty:
\* reading them in order gives the output without a gap and without a repeat.
ChunksTile ==
    LET d == inner.chunk_descriptors
    IN \A i \in 1 .. Len(d) :
          /\ d[i].len > 0
          /\ d[i].offset = IF i = 1 THEN 0 ELSE d[i - 1].offset + d[i - 1].len
          /\ d[i].offset + d[i].len <= spool.len

\* A reader that has found a chunk finds its bytes in the file, even when the
\* stream is closed or its session ends before it has opened the file.
NoTornRead == \A r \in Reader : readers[r].got # "torn"

\* When the stream has finished, the metrics are those of the chunks: a host
\* that reads chunk_count chunks has read all that the query delivered.
MetricsExact ==
    LET d == inner.chunk_descriptors
    IN (inner.complete /\ ~inner.error) =>
          /\ inner.metrics.chunk_count = Len(d)
          /\ inner.metrics.total_bytes =
                IF d = <<>> THEN 0 ELSE d[Len(d)].offset + d[Len(d)].len
          /\ inner.metrics.total_bytes = Produced

\* "Out of bounds" is final: the chunk that was refused never comes.
OutOfBoundsFinal ==
    \A r \in Reader : readers[r].got = "out_of_bounds" =>
        /\ inner.complete /\ ~inner.error
        /\ readers[r].wish > Len(inner.chunk_descriptors)

\* Every reader gets an answer: no wake-up is lost.
ReadersAnswered == \A r \in Reader : readers[r].pc # "idle" ~> readers[r].pc = "idle"

\* A stream that has left the registry leaves no file behind.
SpoolRemoved == ~registered ~> ~spool.exists

-----------------------------------------------------------------------------
(* What hosts see of the stream, as variables of the abstract result.      *)

Verdict ==
    IF ~inner.complete THEN "running" ELSE IF inner.error THEN "failed" ELSE "succeeded"

Waiting == {r \in Reader : readers[r].pc # "idle"}
Wishes  == [r \in Reader |-> readers[r].wish]
Answers == [r \in Reader |-> readers[r].got]
Pieces  == [r \in Reader |-> IF readers[r].got = "chunk" THEN readers[r].descriptor
                              ELSE NoDescriptor]

Result ==
    INSTANCE ChunkedResult WITH
        Size      <- 1 .. MaxBytes,
        Wish      <- 0 .. MaxBytes + 1,
        chunks    <- inner.chunk_descriptors,
        verdict   <- Verdict,
        metrics   <- inner.metrics,
        listed    <- registered,
        producing <- writer.pc # "gone",
        waiting   <- Waiting,
        wish      <- Wishes,
        answer    <- Answers,
        piece     <- Pieces

\* Threads, wait set and file together keep the promise of a stream: each answer
\* is right when it is given and stays right, chunks and verdict are final, who
\* asked before the stream was closed is served all the same, and the producer
\* lets go of its database only when the verdict is out.
ImplementsResult == Result!Spec
=============================================================================
