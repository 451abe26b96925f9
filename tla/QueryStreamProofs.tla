-------------------------- MODULE QueryStreamProofs --------------------------
(***************************************************************************)
(* Proofs about QueryStream, for any number of readers, any chunk size and *)
(* any length of the output.  StreamInv is the inductive invariant: what   *)
(* the properties say of the shared state follows from how the writer's    *)
(* own counters relate to it, what they say of readers from when the file  *)
(* is there.                                                               *)
(***************************************************************************)
EXTENDS QueryStream, TLAPS

Chunks == inner.chunk_descriptors

\* Where the chunks that have been registered end in the file.
End(d) == IF d = <<>> THEN 0 ELSE d[Len(d)].offset + d[Len(d)].len

\* The writer's counters are those of the registered chunks, and the file
\* holds at least these and the chunk that is about to be registered.
WriterExact ==
    /\ writer.current_offset = End(Chunks)
    /\ writer.emitted_chunks = Len(Chunks)
    /\ writer.emitted_bytes = End(Chunks)
    /\ End(Chunks) <= spool.len
    /\ writer.pc = "written" =>
          /\ writer.cut > 0
          /\ writer.current_offset + writer.cut <= spool.len

\* Until the result is published the stream is open; afterwards it is complete,
\* and without an error its metrics are the counters and nothing is pending.
Published == writer.pc \in {"published", "gone"}

ResultExact ==
    /\ inner.complete <=> Published
    /\ inner.error => inner.complete
    /\ writer.pc = "ended" => writer.pending = 0
    /\ (inner.complete /\ ~inner.error) =>
          /\ writer.pending = 0
          /\ inner.metrics = [chunk_count |-> writer.emitted_chunks,
                              total_bytes |-> writer.emitted_bytes]

\* The file is there while the producer writes, and as long as anybody refers to
\* a stream that has chunks.
SpoolKept ==
    /\ writer.pc \in {"rows", "full", "written", "ended"} => spool.exists
    /\ writer.pc = "start" => Chunks = <<>>
    /\ (Chunks # <<>> /\ Referenced) => spool.exists

\* What a reader is reading is the chunk it asked for, what it was told is so, and
\* it has been told nothing while it waits.
ReadersRight ==
    \A r \in Reader :
        /\ readers[r].pc = "reading" =>
              Available(r) /\ readers[r].descriptor = Chunks[readers[r].wish]
        /\ readers[r].pc # "idle" => readers[r].got = "nothing"
        /\ readers[r].got # "torn"
        /\ readers[r].got = "out_of_bounds" =>
              /\ inner.complete /\ ~inner.error
              /\ readers[r].wish > Len(Chunks)

\* What has been registered, is being registered and is pending was delivered, and
\* nothing is being registered outside write_chunk.
OutputBounded ==
    /\ writer.pc # "written" => writer.cut = 0
    /\ writer.emitted_bytes + writer.cut + writer.pending <= MaxBytes

\* A reader is asleep only as long as there is nothing for it to see.
SleepersWait ==
    \A r \in sleeping :
        readers[r].pc = "looking" /\ ~Available(r) /\ ~inner.complete

\* There is no file without a reference to the stream.
NoSpoolLeft == spool.exists => Referenced

StreamInv ==
    /\ TypeOK
    /\ ChunksTile
    /\ WriterExact
    /\ ResultExact
    /\ SpoolKept
    /\ ReadersRight
    /\ OutputBounded
    /\ SleepersWait
    /\ NoSpoolLeft

-----------------------------------------------------------------------------
\* Every step of the producer leaves its writer well formed.
LEMMA WriterTyped == TypeOK /\ Producer => writer' \in Writer
<1> SUFFICES ASSUME TypeOK, Producer PROVE writer' \in Writer
  OBVIOUS
<1> USE SizesAssumption
<1>0. writer \in Writer
  BY DEF TypeOK
<1>1. CASE CreateSpool
  BY <1>0, <1>1 DEF CreateSpool, Writer
<1>2. ASSUME NEW n \in 1 .. MaxBytes, Write(n) PROVE writer' \in Writer
  <2>1. writer' = [writer EXCEPT !.pc = "full", !.pending = @ + n]
    BY <1>2 DEF Write
  <2>2. writer.pending + n \in Nat
    BY <1>0 DEF Writer
  <2> QED BY <1>0, <2>1, <2>2 DEF Writer
<1>3. ASSUME NEW cut \in Nat, cut <= writer.pending, SpoolChunk(cut) PROVE writer' \in Writer
  <2>1. writer' = [writer EXCEPT !.pc = "written", !.cut = cut, !.pending = @ - cut]
    BY <1>3 DEF SpoolChunk
  <2>2. writer.pending - cut \in Nat
    BY <1>0, <1>3 DEF Writer
  <2> QED BY <1>0, <2>1, <2>2 DEF Writer
<1>4. CASE EmitFullChunk
  <2>1. CASE writer.pending >= ChunkSize
    BY <1>0, <1>3, <1>4, <2>1 DEF EmitFullChunk, Writer
  <2>2. CASE ~(writer.pending >= ChunkSize)
    BY <1>0, <1>4, <2>2 DEF EmitFullChunk, Writer
  <2> QED BY <2>1, <2>2
<1>5. CASE EmitRemaining
  BY <1>0, <1>3, <1>5 DEF EmitRemaining, Writer
<1>6. CASE WriteFails \/ QueryEnds \/ Finish \/ Fail \/ ProducerExits
  BY <1>0, <1>6 DEF WriteFails, QueryEnds, Finish, Fail, ProducerExits, Writer
<1>7. CASE RegisterChunk
  <2>1. writer' = [writer EXCEPT !.pc = "full", !.cut = 0,
                     !.current_offset = @ + writer.cut,
                     !.emitted_chunks = @ + 1, !.emitted_bytes = @ + writer.cut]
    BY <1>7 DEF RegisterChunk
  <2>2. /\ writer.current_offset + writer.cut \in Nat
        /\ writer.emitted_chunks + 1 \in Nat
        /\ writer.emitted_bytes + writer.cut \in Nat
    BY <1>0 DEF Writer
  <2> QED BY <1>0, <2>1, <2>2 DEF Writer
<1> QED BY <1>1, <1>2, <1>4, <1>5, <1>6, <1>7 DEF Producer

\* Every step of the producer keeps the types.
LEMMA ProducerTyped == TypeOK /\ Producer => TypeOK'
<1> SUFFICES ASSUME TypeOK, Producer PROVE TypeOK'
  OBVIOUS
<1> USE SizesAssumption
<1>0. inner \in Inner /\ writer \in Writer /\ spool \in [exists : BOOLEAN, len : Nat]
  BY DEF TypeOK
<1>1. writer' \in Writer
  BY WriterTyped
<1>2. inner' \in Inner
  <2>1. CASE RegisterChunk
    <3>1. [offset |-> writer.current_offset, len |-> writer.cut] \in Descriptor
      BY <1>0 DEF Descriptor, Writer
    <3>2. Append(Chunks, [offset |-> writer.current_offset, len |-> writer.cut]) \in Seq(Descriptor)
      BY <1>0, <3>1 DEF Inner, Chunks
    <3>3. inner' = [inner EXCEPT !.chunk_descriptors =
                      Append(Chunks, [offset |-> writer.current_offset, len |-> writer.cut])]
      BY <2>1 DEF RegisterChunk, Chunks
    <3> QED BY <1>0, <3>2, <3>3 DEF Inner
  <2>2. CASE Finish
    <3>1. [chunk_count |-> writer.emitted_chunks, total_bytes |-> writer.emitted_bytes] \in Metrics
      BY <1>0 DEF Metrics, Writer
    <3> QED BY <1>0, <2>2, <3>1 DEF Finish, Inner
  <2>3. CASE Fail
    BY <1>0, <2>3 DEF Fail, Inner
  <2>4. CASE ~(RegisterChunk \/ Finish \/ Fail)
    BY <1>0, <2>4 DEF Producer, CreateSpool, Write, EmitFullChunk, EmitRemaining, WriteFails,
                      QueryEnds, ProducerExits
  <2> QED BY <2>1, <2>2, <2>3, <2>4
<1>3. spool' \in [exists : BOOLEAN, len : Nat]
  <2>1. ASSUME NEW cut \in Nat, SpoolChunk(cut) PROVE spool' \in [exists : BOOLEAN, len : Nat]
    <3>1. spool.len + cut \in Nat
      BY <1>0
    <3> QED BY <1>0, <2>1, <3>1 DEF SpoolChunk
  <2>2. CASE EmitFullChunk
    BY <1>0, <2>1, <2>2 DEF EmitFullChunk
  <2>3. CASE EmitRemaining
    BY <1>0, <2>1, <2>3 DEF EmitRemaining, Writer
  <2>4. CASE WriteFails
    <3>1. PICK part \in 0 .. writer.pending - 1 : spool' = [spool EXCEPT !.len = @ + part]
      BY <2>4 DEF WriteFails
    <3>2. spool.len + part \in Nat
      BY <1>0
    <3> QED BY <1>0, <3>1, <3>2
  <2>5. CASE ProducerExits
    BY <1>0, <2>5 DEF ProducerExits, DropStream, Referenced
  <2>6. CASE CreateSpool
    <3>1. spool' = spool \/ spool' = [exists |-> TRUE, len |-> 0]
      BY <2>6 DEF CreateSpool
    <3>2. [exists |-> TRUE, len |-> 0] \in [exists : BOOLEAN, len : Nat]
      OBVIOUS
    <3> QED BY <1>0, <3>1, <3>2
  <2>7. CASE RegisterChunk \/ QueryEnds \/ Finish \/ Fail \/ \E n \in 1 .. MaxBytes : Write(n)
    BY <1>0, <2>7 DEF Write, RegisterChunk, QueryEnds, Finish, Fail
  <2> QED BY <2>2, <2>3, <2>4, <2>5, <2>6, <2>7 DEF Producer
<1>4. /\ readers' = readers /\ registered' = registered
      /\ sleeping' = sleeping \/ sleeping' = {}
  BY DEF Producer, CreateSpool, Write, EmitFullChunk, EmitRemaining, WriteFails, RegisterChunk,
         QueryEnds, Finish, Fail, ProducerExits
<1> QED BY <1>1, <1>2, <1>3, <1>4 DEF TypeOK

\* Every step of a reader keeps the types.
LEMMA ReaderTyped ==
    ASSUME NEW r \in Reader, TypeOK,
           \/ \E wish \in 0 .. MaxBytes + 1 : Ask(r, wish)
           \/ Progress(r)
           \/ WakeSpuriously(r)
    PROVE  TypeOK'
<1> USE SizesAssumption
<1>0. /\ readers \in [Reader -> ReaderState] /\ sleeping \subseteq Reader
      /\ spool \in [exists : BOOLEAN, len : Nat]
  BY DEF TypeOK
<1>1. ASSUME NEW wish \in 0 .. MaxBytes + 1, Ask(r, wish)
      PROVE  TypeOK'
  <2>1. [pc |-> "looking", wish |-> wish, got |-> "nothing", descriptor |-> NoDescriptor]
           \in ReaderState
    BY DEF ReaderState, Descriptor, NoDescriptor
  <2> QED BY <1>1, <2>1 DEF Ask, TypeOK
<1>2. ASSUME NEW got \in {"chunk", "metrics", "error", "out_of_bounds", "torn"}, Answer(r, got)
      PROVE  TypeOK'
  <2>1. readers' \in [Reader -> ReaderState]
    BY <1>0, <1>2 DEF Answer, ReaderState
  <2>2. spool' \in [exists : BOOLEAN, len : Nat]
    BY <1>0, <1>2 DEF Answer, DropStream, Referenced
  <2> QED BY <1>2, <2>1, <2>2 DEF Answer, TypeOK
<1>3. CASE FindChunk(r)
  <2>1. /\ Chunks \in Seq(Descriptor)
        /\ readers[r].wish \in 1 .. Len(Chunks)
    BY <1>0, <1>3 DEF FindChunk, Available, FinalMetrics, ReaderState, TypeOK, Inner, Chunks
  <2>2. Chunks[readers[r].wish] \in Descriptor
    BY <2>1
  <2>3. readers' \in [Reader -> ReaderState]
    BY <1>0, <1>3, <2>2 DEF FindChunk, ReaderState, Chunks
  <2> QED BY <1>3, <2>3 DEF FindChunk, TypeOK
<1>4. CASE Sleep(r)
  BY <1>4 DEF Sleep, TypeOK
<1>5. CASE WaitForMetrics(r)
  BY <1>2, <1>5 DEF WaitForMetrics
<1>6. CASE MissChunk(r)
  BY <1>2, <1>6 DEF MissChunk
<1>7. CASE ReadSpool(r)
  BY <1>2, <1>7 DEF ReadSpool
<1>8. CASE WakeSpuriously(r)
  BY <1>8 DEF WakeSpuriously, TypeOK
<1> QED BY <1>1, <1>3, <1>4, <1>5, <1>6, <1>7, <1>8 DEF Progress

\* The initial state has the types.
LEMMA TypeInit == Init => TypeOK
  BY DEF Init, TypeOK, Inner, Metrics, Descriptor, Writer, ReaderState, FinalMetrics, NoDescriptor

\* Every step keeps the types.
LEMMA TypeStep == TypeOK /\ [Next]_vars => TypeOK'
<1> SUFFICES ASSUME TypeOK, [Next]_vars PROVE TypeOK'
  OBVIOUS
<1>1. CASE Producer
  BY <1>1, ProducerTyped
<1>2. CASE Unregister
  BY <1>2 DEF Unregister, DropStream, Referenced, TypeOK
<1>3. CASE UNCHANGED vars
  BY <1>3 DEF vars, TypeOK
<1> QED BY <1>1, <1>2, <1>3, ReaderTyped DEF Next

-----------------------------------------------------------------------------
\* What registering a chunk does to the chunks and to where they end.
LEMMA ChunkAppended ==
    ASSUME TypeOK, WriterExact, RegisterChunk
    PROVE  /\ Chunks' = Append(Chunks, [offset |-> End(Chunks), len |-> writer.cut])
           /\ Chunks' # <<>>
           /\ Len(Chunks') = Len(Chunks) + 1
           /\ End(Chunks') = End(Chunks) + writer.cut
<1> DEFINE c == [offset |-> End(Chunks), len |-> writer.cut]
<1>1. /\ inner \in Inner /\ writer \in Writer /\ Chunks \in Seq(Descriptor)
  BY DEF TypeOK, Inner, Chunks
<1>2. End(Chunks) \in Nat /\ c \in Descriptor
  BY <1>1 DEF WriterExact, Writer, Descriptor
<1>3. Chunks' = Append(Chunks, c)
  BY <1>1 DEF RegisterChunk, WriterExact, Chunks, Inner
<1>4. /\ Len(Append(Chunks, c)) = Len(Chunks) + 1
      /\ Append(Chunks, c)[Len(Chunks) + 1] = c
      /\ Append(Chunks, c) # <<>>
  BY <1>1, <1>2
<1> QED BY <1>3, <1>4 DEF End

\* The chunks change only when one is registered.
LEMMA ChunksStay ==
    ASSUME TypeOK, Next, ~RegisterChunk
    PROVE  Chunks' = Chunks
  BY DEF Next, Producer, CreateSpool, Write, EmitFullChunk, EmitRemaining, WriteFails, QueryEnds,
         Finish, Fail, ProducerExits, Ask, Progress, WaitForMetrics, FindChunk, MissChunk, Sleep,
         ReadSpool, Answer, WakeSpuriously, Unregister, TypeOK, Inner, Chunks

\* The file does not shrink while it holds a chunk.
LEMMA SpoolGrows ==
    ASSUME TypeOK, WriterExact, SpoolKept, Next
    PROVE  /\ spool'.len \in Nat
           /\ spool'.len >= spool.len \/ writer.pc = "start"
  <1>1. TypeOK' /\ spool \in [exists : BOOLEAN, len : Nat] /\ writer \in Writer
    BY TypeStep DEF TypeOK
  <1>2. spool'.len \in Nat
    BY <1>1 DEF TypeOK
  <1>3. ASSUME NEW cut \in Nat, spool' = [spool EXCEPT !.len = @ + cut]
        PROVE  spool'.len >= spool.len
    BY <1>1, <1>3
  <1> SUFFICES spool'.len >= spool.len \/ writer.pc = "start"
    BY <1>2
  <1>4. ASSUME DropStream PROVE spool'.len = spool.len
    BY <1>1, <1>4 DEF DropStream
  <1>5. CASE Producer
    <2>1. CASE EmitFullChunk
      BY <1>1, <1>3, <2>1, SizesAssumption DEF EmitFullChunk, SpoolChunk
    <2>2. CASE EmitRemaining
      BY <1>1, <1>3, <2>2 DEF EmitRemaining, SpoolChunk, Writer
    <2>3. CASE WriteFails
      BY <1>1, <1>3, <2>3 DEF WriteFails
    <2>4. CASE ProducerExits
      BY <1>1, <1>4, <2>4 DEF ProducerExits
    <2>5. CASE ~(EmitFullChunk \/ EmitRemaining \/ WriteFails \/ ProducerExits)
      <3>1. spool' = spool \/ writer.pc = "start"
        BY <1>5, <2>5 DEF Producer, CreateSpool, Write, RegisterChunk, QueryEnds, Finish, Fail
      <3> QED BY <1>1, <3>1
    <2> QED BY <2>1, <2>2, <2>3, <2>4, <2>5
  <1>6. CASE ~Producer
    <2>1. DropStream \/ spool' = spool
      BY <1>6 DEF Next, Ask, Progress, WaitForMetrics, FindChunk, MissChunk, Sleep,
         ReadSpool, Answer, WakeSpuriously, Unregister
    <2> QED BY <1>1, <1>4, <2>1
  <1> QED BY <1>5, <1>6

-----------------------------------------------------------------------------
(* Each part of the invariant is kept by every step.                       *)

\* Registering appends where the last chunk ends; the file only grows.
LEMMA TileStep == StreamInv /\ Next => ChunksTile'
<1> SUFFICES ASSUME StreamInv, Next PROVE ChunksTile'
  OBVIOUS
<1>0. /\ TypeOK /\ ChunksTile /\ WriterExact /\ SpoolKept
      /\ Chunks \in Seq(Descriptor) /\ spool.len \in Nat /\ writer \in Writer
  BY DEF StreamInv, TypeOK, Inner, Chunks
<1>1. CASE RegisterChunk
  <2> DEFINE c == [offset |-> End(Chunks), len |-> writer.cut]
  <2>1. /\ Chunks' = Append(Chunks, c) /\ spool' = spool
        /\ c.len > 0 /\ c.offset + c.len <= spool.len /\ c \in Descriptor
    BY <1>0, <1>1, ChunkAppended DEF RegisterChunk, WriterExact, Writer, Descriptor
  <2> HIDE DEF c
  <2>2. /\ Len(Append(Chunks, c)) = Len(Chunks) + 1
        /\ \A i \in 1 .. Len(Chunks) : Append(Chunks, c)[i] = Chunks[i]
        /\ Append(Chunks, c)[Len(Chunks) + 1] = c
    BY <1>0, <2>1
  <2> SUFFICES ASSUME NEW i \in 1 .. Len(Chunks) + 1
               PROVE  /\ Append(Chunks, c)[i].len > 0
                      /\ Append(Chunks, c)[i].offset =
                           IF i = 1 THEN 0
                           ELSE Append(Chunks, c)[i - 1].offset + Append(Chunks, c)[i - 1].len
                      /\ Append(Chunks, c)[i].offset + Append(Chunks, c)[i].len <= spool.len
    BY <2>1, <2>2 DEF ChunksTile, Chunks
  <2>3. CASE i \in 1 .. Len(Chunks)
    BY <1>0, <2>2, <2>3 DEF ChunksTile, Chunks
  <2>4. CASE i = Len(Chunks) + 1
    <3>1. c.offset = IF Chunks = <<>> THEN 0 ELSE Chunks[Len(Chunks)].offset + Chunks[Len(Chunks)].len
      BY DEF c, End
    <3>2. i = 1 <=> Chunks = <<>>
      BY <1>0, <2>4
    <3> QED BY <1>0, <2>1, <2>2, <2>4, <3>1, <3>2
  <2> QED BY <1>0, <2>3, <2>4
<1>2. CASE ~RegisterChunk
  <2>1. Chunks' = Chunks
    BY <1>0, <1>2, ChunksStay
  <2>2. spool'.len \in Nat /\ (spool'.len >= spool.len \/ Chunks = <<>>)
    BY <1>0, SpoolGrows DEF SpoolKept
  <2>3. \A i \in 1 .. Len(Chunks) : Chunks[i] \in Descriptor
    BY <1>0
  <2>4. ASSUME NEW i \in 1 .. Len(Chunks) PROVE Chunks[i].offset + Chunks[i].len <= spool'.len
    <3>1. /\ Chunks[i].offset \in Nat /\ Chunks[i].len \in Nat
          /\ Chunks[i].offset + Chunks[i].len <= spool.len
          /\ Chunks # <<>>
      BY <1>0, <2>3 DEF ChunksTile, Chunks, Descriptor
    <3> QED BY <1>0, <2>2, <3>1
  <2> QED BY <1>0, <2>1, <2>4 DEF ChunksTile, Chunks
<1> QED BY <1>1, <1>2

\* The writer counts what it registers.
LEMMA WriterStep == StreamInv /\ Next => WriterExact'
<1> SUFFICES ASSUME StreamInv, Next PROVE WriterExact'
  OBVIOUS
<1>0. /\ TypeOK /\ WriterExact /\ SpoolKept
      /\ Chunks \in Seq(Descriptor) /\ spool.len \in Nat /\ writer \in Writer
      /\ End(Chunks) \in Nat /\ Len(Chunks) \in Nat
  BY DEF StreamInv, TypeOK, Inner, Chunks, WriterExact, Writer
<1>1. CASE RegisterChunk
  <2>1. /\ writer'.current_offset = writer.current_offset + writer.cut
        /\ writer'.emitted_chunks = writer.emitted_chunks + 1
        /\ writer'.emitted_bytes = writer.emitted_bytes + writer.cut
        /\ writer'.pc = "full" /\ spool' = spool /\ writer.pc = "written"
    BY <1>0, <1>1 DEF RegisterChunk, Writer
  <2>2. Len(Chunks') = Len(Chunks) + 1 /\ End(Chunks') = End(Chunks) + writer.cut
    BY <1>0, <1>1, ChunkAppended
  <2> QED BY <1>0, <2>1, <2>2 DEF WriterExact
<1>2. CASE ~RegisterChunk
  <2>1. Chunks' = Chunks
    BY <1>0, <1>2, ChunksStay
  <2>2. spool'.len \in Nat /\ End(Chunks) <= spool'.len
    BY <1>0, SpoolGrows DEF WriterExact, SpoolKept, End
  <2>3. /\ writer'.current_offset = writer.current_offset
        /\ writer'.emitted_chunks = writer.emitted_chunks
        /\ writer'.emitted_bytes = writer.emitted_bytes
    BY <1>0, <1>2 DEF Next, Producer, CreateSpool, Write, EmitFullChunk, EmitRemaining, SpoolChunk,
         WriteFails, QueryEnds, Finish, Fail, ProducerExits, Ask, Progress, WaitForMetrics,
         FindChunk, MissChunk, Sleep, ReadSpool, Answer, WakeSpuriously, Unregister, Writer
  <2>4. writer'.pc = "written" =>
          /\ writer'.cut > 0
          /\ writer'.current_offset + writer'.cut <= spool'.len
    <3>1. ASSUME NEW cut \in Nat, cut > 0, SpoolChunk(cut)
          PROVE  writer'.cut > 0 /\ writer'.current_offset + writer'.cut <= spool'.len
      <4>1. writer'.cut = cut /\ spool'.len = spool.len + cut
        BY <1>0, <3>1 DEF SpoolChunk, Writer, TypeOK
      <4> QED BY <1>0, <2>3, <3>1, <4>1 DEF WriterExact
    <3>2. CASE EmitFullChunk
      BY <1>0, <3>1, <3>2, SizesAssumption DEF EmitFullChunk, Writer
    <3>3. CASE EmitRemaining
      BY <1>0, <3>1, <3>3 DEF EmitRemaining, Writer
    <3>4. CASE ~(EmitFullChunk \/ EmitRemaining)
      <4>1. writer' = writer \/ writer'.pc # "written"
        BY <1>0, <1>2, <3>4 DEF Next, Producer, CreateSpool, Write,
             WriteFails, QueryEnds, Finish, Fail, ProducerExits, Ask, Progress, WaitForMetrics,
             FindChunk, MissChunk, Sleep, ReadSpool, Answer, WakeSpuriously, Unregister, Writer
      <4> QED BY <1>0, <2>2, <4>1, SpoolGrows DEF WriterExact, Writer
    <3> QED BY <3>2, <3>3, <3>4
  <2> QED BY <1>0, <2>1, <2>2, <2>3, <2>4 DEF WriterExact
<1> QED BY <1>1, <1>2

\* The result is published once, by the producer, from the writer's counters.
LEMMA ResultStep == StreamInv /\ Next => ResultExact'
<1> SUFFICES ASSUME StreamInv, Next PROVE ResultExact'
  OBVIOUS
<1>0. ResultExact /\ inner \in Inner /\ writer \in Writer
  BY DEF StreamInv, TypeOK
<1>1. CASE RegisterChunk
  BY <1>0, <1>1 DEF RegisterChunk, ResultExact, Published, Inner, Writer
<1>2. CASE Finish
  BY <1>0, <1>2 DEF Finish, ResultExact, Published, Inner, Writer
<1>3. CASE Fail
  BY <1>0, <1>3 DEF Fail, ResultExact, Published, Inner, Writer
<1>4. CASE QueryEnds
  BY <1>0, <1>4 DEF QueryEnds, ResultExact, Published, Inner, Writer
<1>5. CASE ProducerExits
  BY <1>0, <1>5 DEF ProducerExits, ResultExact, Published, Inner, Writer
<1>6. CASE Producer /\ ~(RegisterChunk \/ Finish \/ Fail \/ QueryEnds \/ ProducerExits)
  <2>1. /\ inner' = inner /\ ~Published
        /\ writer'.pc \in {"rows", "failed", "full", "written"}
    BY <1>0, <1>6 DEF Producer, CreateSpool, Write, EmitFullChunk, EmitRemaining, SpoolChunk,
                      WriteFails, Writer, Published
  <2> QED BY <1>0, <2>1 DEF ResultExact, Published
<1>7. CASE ~Producer
  <2>1. inner' = inner /\ writer' = writer
    BY <1>7 DEF Next, Ask, Progress, WaitForMetrics, FindChunk, MissChunk, Sleep, ReadSpool,
                Answer, WakeSpuriously, Unregister
  <2> QED BY <1>0, <2>1 DEF ResultExact, Published
<1> QED BY <1>1, <1>2, <1>3, <1>4, <1>5, <1>6, <1>7

\* Nobody but the producer, and a request while the stream is registered, brings
\* a reference back: while one is left the file stays.
LEMMA SpoolStep == StreamInv /\ Next => SpoolKept'
<1> SUFFICES ASSUME StreamInv, Next PROVE SpoolKept'
  OBVIOUS
<1>0. /\ TypeOK /\ WriterExact /\ SpoolKept /\ ReadersRight
      /\ inner \in Inner /\ writer \in Writer /\ Chunks \in Seq(Descriptor)
      /\ spool \in [exists : BOOLEAN, len : Nat] /\ readers \in [Reader -> ReaderState]
  BY DEF StreamInv, TypeOK, Inner, Chunks
<1>1. ASSUME DropStream PROVE spool'.exists = (spool.exists /\ Referenced')
  BY <1>0, <1>1 DEF DropStream
<1>2. CASE Producer
  <2>1. CASE CreateSpool
    <3>1. Chunks' = Chunks /\ Chunks = <<>> /\ writer'.pc \in {"rows", "failed"}
      BY <1>0, <2>1 DEF CreateSpool, SpoolKept, Writer, Chunks
    <3>2. writer'.pc = "rows" => spool'.exists
      BY <1>0, <2>1 DEF CreateSpool, Writer
    <3> QED BY <3>1, <3>2 DEF SpoolKept
  <2>2. CASE ProducerExits
    <3>1. /\ Chunks' = Chunks /\ writer'.pc = "gone" /\ writer.pc = "published"
          /\ spool'.exists = (spool.exists /\ Referenced')
      BY <1>0, <1>1, <2>2 DEF ProducerExits, Writer, Chunks
    <3> QED BY <1>0, <3>1 DEF SpoolKept, Referenced
  <2>3. CASE ~(CreateSpool \/ ProducerExits)
    <3>1. spool'.exists = spool.exists
      BY <1>0, <1>2, <2>3 DEF Producer, Write, EmitFullChunk, EmitRemaining, SpoolChunk, WriteFails,
                              RegisterChunk, QueryEnds, Finish, Fail
    <3>2. /\ writer.pc \in {"rows", "full", "written", "ended", "failed"}
          /\ writer'.pc \in {"rows", "full", "written", "ended", "failed", "published"}
          /\ writer'.pc \in {"rows", "full", "written", "ended"} =>
                writer.pc \in {"rows", "full", "written", "ended"}
      BY <1>0, <1>2, <2>3 DEF Producer, Write, EmitFullChunk, EmitRemaining, SpoolChunk, WriteFails,
                              RegisterChunk, QueryEnds, Finish, Fail, Writer
    <3>3. Referenced
      BY <3>2 DEF Referenced
    <3>4. Chunks' # <<>> => spool.exists
      <4>1. CASE RegisterChunk
        BY <1>0, <4>1 DEF RegisterChunk, SpoolKept
      <4>2. CASE ~RegisterChunk
        BY <1>0, <3>3, <4>2, ChunksStay DEF SpoolKept, Next
      <4> QED BY <4>1, <4>2
    <3> QED BY <1>0, <3>1, <3>2, <3>4 DEF SpoolKept
  <2> QED BY <2>1, <2>2, <2>3
<1>3. CASE ~Producer
  <2>1. writer' = writer /\ inner' = inner
    BY <1>3 DEF Next, Ask, Progress, WaitForMetrics, FindChunk, MissChunk, Sleep, ReadSpool,
                Answer, WakeSpuriously, Unregister
  <2>2. Referenced' => Referenced
    <3>1. CASE \E r \in Reader, wish \in 0 .. MaxBytes + 1 : Ask(r, wish)
      BY <3>1 DEF Ask, Referenced
    <3>2. CASE \E r \in Reader : FindChunk(r) \/ WaitForMetrics(r) \/ MissChunk(r) \/ ReadSpool(r)
      BY <3>2 DEF FindChunk, WaitForMetrics, MissChunk, ReadSpool, Looks, Referenced
    <3>3. CASE \E r \in Reader : Sleep(r) \/ WakeSpuriously(r)
      BY <2>1, <3>3 DEF Sleep, WakeSpuriously, Referenced
    <3>4. CASE Unregister
      BY <3>4 DEF Unregister, Referenced
    <3> QED BY <1>3, <3>1, <3>2, <3>3, <3>4 DEF Next, Progress
  <2>3. CASE spool' = spool
    BY <1>0, <2>1, <2>2, <2>3 DEF SpoolKept, Chunks
  <2>4. CASE DropStream
    <3>1. writer.pc # "gone" => Referenced'
      BY <2>1 DEF Referenced
    <3> QED BY <1>0, <1>1, <2>1, <2>2, <2>4, <3>1 DEF SpoolKept, Chunks
  <2>5. spool' = spool \/ DropStream
    BY <1>3 DEF Next, Ask, Progress, WaitForMetrics, FindChunk, MissChunk, Sleep, ReadSpool,
                Answer, WakeSpuriously, Unregister
  <2> QED BY <2>3, <2>4, <2>5
<1> QED BY <1>2, <1>3

\* The bytes of a chunk that a reader has found are in the file when it reads them:
\* it holds a reference, and the chunk lies inside the file.
LEMMA ReadIsWhole ==
    ASSUME StreamInv, NEW r \in Reader, readers[r].pc = "reading"
    PROVE  /\ spool.exists
           /\ readers[r].descriptor.offset + readers[r].descriptor.len <= spool.len
<1>1. /\ Available(r) /\ readers[r].descriptor = Chunks[readers[r].wish]
      /\ readers[r].wish \in Nat /\ Chunks \in Seq(Descriptor)
  BY DEF StreamInv, ReadersRight, TypeOK, ReaderState, Inner, Chunks
<1>2. readers[r].wish \in 1 .. Len(Chunks) /\ Chunks # <<>>
  BY <1>1 DEF Available, FinalMetrics, Chunks
<1>3. readers[r].descriptor.offset + readers[r].descriptor.len <= spool.len
  BY <1>1, <1>2 DEF StreamInv, ChunksTile, Chunks
<1>4. spool.exists
  BY <1>2 DEF StreamInv, SpoolKept, Referenced
<1> QED BY <1>3, <1>4

\* What is there for a reader stays there: chunks are only appended.
LEMMA AvailableStays ==
    ASSUME StreamInv, Next, NEW r \in Reader, Available(r),
           readers'[r].wish = readers[r].wish
    PROVE  Available(r)' /\ Chunks'[readers[r].wish] = Chunks[readers[r].wish]
<1>0. /\ TypeOK /\ WriterExact /\ Chunks \in Seq(Descriptor) /\ writer \in Writer
      /\ readers[r].wish \in Nat
  BY DEF StreamInv, TypeOK, Inner, Chunks, ReaderState
<1>1. CASE RegisterChunk
  <2>1. /\ Chunks' = Append(Chunks, [offset |-> End(Chunks), len |-> writer.cut])
        /\ Len(Chunks') = Len(Chunks) + 1
    BY <1>0, <1>1, ChunkAppended
  <2>2. [offset |-> End(Chunks), len |-> writer.cut] \in Descriptor
    BY <1>0 DEF WriterExact, Writer, Descriptor
  <2>3. readers[r].wish \in 1 .. Len(Chunks)
    BY <1>0 DEF Available, FinalMetrics, Chunks
  <2>4. Chunks'[readers[r].wish] = Chunks[readers[r].wish]
    BY <1>0, <2>1, <2>2, <2>3
  <2> QED BY <1>0, <2>1, <2>3, <2>4 DEF Available, FinalMetrics, Chunks
<1>2. CASE ~RegisterChunk
  BY <1>0, <1>2, ChunksStay DEF Available, Chunks
<1> QED BY <1>1, <1>2

\* A reader that reads holds a reference, so its file is there; a reader that is
\* refused has seen the result.
LEMMA ReadersStep == StreamInv /\ Next => ReadersRight'
<1> SUFFICES ASSUME StreamInv, Next PROVE ReadersRight'
  OBVIOUS
<1> DEFINE Right(q) ==
      /\ readers[q].pc = "reading" =>
            Available(q) /\ readers[q].descriptor = Chunks[readers[q].wish]
      /\ readers[q].pc # "idle" => readers[q].got = "nothing"
      /\ readers[q].got # "torn"
      /\ readers[q].got = "out_of_bounds" =>
            /\ inner.complete /\ ~inner.error
            /\ readers[q].wish > Len(Chunks)
<1>0. /\ TypeOK /\ ChunksTile /\ WriterExact /\ ResultExact /\ SpoolKept /\ ReadersRight
      /\ inner \in Inner /\ writer \in Writer /\ Chunks \in Seq(Descriptor)
      /\ spool.len \in Nat /\ readers \in [Reader -> ReaderState]
  BY DEF StreamInv, TypeOK, Inner, Chunks
<1>00. ASSUME NEW q \in Reader, readers'[q] = readers[q], inner' = inner \/ ~inner.complete
       PROVE  Right(q)'
  <2>1. Right(q)
    BY <1>0 DEF ReadersRight
  <2>2. Available(q) => Available(q)' /\ Chunks'[readers[q].wish] = Chunks[readers[q].wish]
    BY <1>00, AvailableStays
  <2>3. inner' = inner => Chunks' = Chunks
    BY DEF Chunks
  <2> QED BY <1>00, <2>1, <2>2, <2>3
<1>1. CASE Producer
  <2>1. readers' = readers
    BY <1>1 DEF Producer, CreateSpool, Write, EmitFullChunk, EmitRemaining, WriteFails, RegisterChunk,
         QueryEnds, Finish, Fail, ProducerExits
  <2>2. inner' = inner \/ ~inner.complete
    BY <1>0, <1>1 DEF Producer, CreateSpool, Write, EmitFullChunk, EmitRemaining, RegisterChunk,
         WriteFails, QueryEnds, Finish, Fail, ProducerExits, ResultExact, Published
  <2> QED BY <1>00, <2>1, <2>2 DEF ReadersRight
<1>2. CASE ~Producer
  <2>1. writer' = writer /\ inner' = inner /\ Chunks' = Chunks
    BY <1>2 DEF Next, Ask, Progress, WaitForMetrics, FindChunk, MissChunk, Sleep, ReadSpool,
                Answer, WakeSpuriously, Unregister, Chunks
  <2>2. ASSUME NEW r \in Reader, Right(r)', \A q \in Reader \ {r} : readers'[q] = readers[q]
        PROVE  ReadersRight'
    BY <1>00, <2>1, <2>2 DEF ReadersRight
  <2>3. ASSUME NEW r \in Reader, NEW wish \in 0 .. MaxBytes + 1, Ask(r, wish)
        PROVE  ReadersRight'
    <3>1. /\ readers'[r].pc = "looking" /\ readers'[r].got = "nothing"
          /\ \A q \in Reader \ {r} : readers'[q] = readers[q]
      BY <1>0, <2>3 DEF Ask
    <3> QED BY <2>2, <3>1
  <2>4. ASSUME NEW r \in Reader, NEW got, Answer(r, got), got # "torn",
               got = "out_of_bounds" =>
                  /\ inner.complete /\ ~inner.error
                  /\ readers[r].wish > Len(Chunks)
        PROVE  ReadersRight'
    <3>1. /\ readers'[r].pc = "idle" /\ readers'[r].got = got /\ readers'[r].wish = readers[r].wish
          /\ \A q \in Reader \ {r} : readers'[q] = readers[q]
      BY <1>0, <2>4 DEF Answer, ReaderState
    <3> QED BY <2>1, <2>2, <2>4, <3>1
  <2>5. ASSUME NEW r \in Reader, WaitForMetrics(r)
        PROVE  ReadersRight'
    BY <2>4, <2>5 DEF WaitForMetrics
  <2>6. ASSUME NEW r \in Reader, MissChunk(r)
        PROVE  ReadersRight'
    <3>1. readers[r].wish > Len(Chunks)
      BY <1>0, <2>6 DEF MissChunk, Available, Chunks, ReaderState
    <3> QED BY <2>4, <2>6, <3>1 DEF MissChunk
  <2>7. ASSUME NEW r \in Reader, ReadSpool(r)
        PROVE  ReadersRight'
    BY <2>4, <2>7, ReadIsWhole DEF ReadSpool
  <2>8. ASSUME NEW r \in Reader, FindChunk(r)
        PROVE  ReadersRight'
    <3>1. /\ readers'[r].descriptor = Chunks[readers[r].wish]
          /\ readers'[r].got = readers[r].got /\ readers'[r].wish = readers[r].wish
          /\ readers[r].got = "nothing" /\ Available(r)
          /\ \A q \in Reader \ {r} : readers'[q] = readers[q]
      BY <1>0, <2>8 DEF FindChunk, Looks, ReaderState, Chunks, ReadersRight
    <3>2. Available(r)'
      BY <3>1, AvailableStays
    <3>3. Right(r)'
      BY <2>1, <3>1, <3>2
    <3> QED BY <2>2, <3>1, <3>3
  <2>9. ASSUME readers' = readers
        PROVE  ReadersRight'
    BY <1>00, <2>1, <2>9 DEF ReadersRight
  <2> QED BY <1>2, <2>3, <2>5, <2>6, <2>7, <2>8, <2>9
          DEF Next, Progress, Sleep, WakeSpuriously, Unregister
<1> QED BY <1>1, <1>2

\* What is delivered is pending, then cut, then registered.
LEMMA BoundStep == StreamInv /\ Next => OutputBounded'
<1> SUFFICES ASSUME StreamInv, Next PROVE OutputBounded'
  OBVIOUS
<1> USE SizesAssumption
<1>0. OutputBounded /\ writer \in Writer
  BY DEF StreamInv, TypeOK
<1>1. CASE UNCHANGED writer
  BY <1>0, <1>1 DEF OutputBounded
<1>2. ASSUME NEW n \in 1 .. MaxBytes, Write(n) PROVE OutputBounded'
  <2>1. /\ writer.pc = "rows" /\ writer.emitted_bytes + writer.pending + n <= MaxBytes
        /\ writer' = [writer EXCEPT !.pc = "full", !.pending = @ + n]
    BY <1>2 DEF Write, Produced
  <2>2. /\ writer'.pc = "full" /\ writer'.cut = 0 /\ writer'.emitted_bytes = writer.emitted_bytes
        /\ writer'.pending = writer.pending + n
    BY <1>0, <2>1 DEF OutputBounded, Writer
  <2> QED BY <1>0, <2>1, <2>2 DEF OutputBounded, Writer
<1>3. ASSUME NEW cut \in Nat, cut <= writer.pending, writer.pc # "written", SpoolChunk(cut)
      PROVE  OutputBounded'
  <2>1. /\ writer'.pc = "written" /\ writer'.cut = cut /\ writer'.pending = writer.pending - cut
        /\ writer'.emitted_bytes = writer.emitted_bytes /\ writer.cut = 0
    BY <1>0, <1>3 DEF SpoolChunk, OutputBounded, Writer
  <2> QED BY <1>0, <1>3, <2>1 DEF OutputBounded, Writer
<1>4. CASE EmitFullChunk
  <2>1. CASE writer.pending >= ChunkSize
    BY <1>0, <1>3, <1>4, <2>1 DEF EmitFullChunk, Writer
  <2>2. CASE ~(writer.pending >= ChunkSize)
    BY <1>0, <1>4, <2>2 DEF EmitFullChunk, OutputBounded, Writer
  <2> QED BY <2>1, <2>2
<1>5. CASE EmitRemaining
  BY <1>0, <1>3, <1>5 DEF EmitRemaining, Writer
<1>6. CASE CreateSpool \/ WriteFails \/ QueryEnds \/ Finish \/ Fail \/ ProducerExits
  <2>1. /\ writer.pc # "written" /\ writer'.pc # "written"
        /\ writer'.cut = writer.cut /\ writer'.pending = writer.pending
        /\ writer'.emitted_bytes = writer.emitted_bytes
    BY <1>0, <1>6 DEF CreateSpool, WriteFails, QueryEnds, Finish, Fail, ProducerExits, Writer
  <2> QED BY <1>0, <2>1 DEF OutputBounded
<1>7. CASE RegisterChunk
  <2>1. /\ writer'.pc = "full" /\ writer'.cut = 0 /\ writer'.pending = writer.pending
        /\ writer'.emitted_bytes = writer.emitted_bytes + writer.cut
    BY <1>0, <1>7 DEF RegisterChunk, Writer
  <2> QED BY <1>0, <2>1 DEF OutputBounded, Writer
<1>8. CASE ~Producer
  BY <1>1, <1>8 DEF Next, Ask, Progress, WaitForMetrics, FindChunk, MissChunk, Sleep, ReadSpool,
                Answer, WakeSpuriously, Unregister
<1> QED BY <1>2, <1>4, <1>5, <1>6, <1>7, <1>8 DEF Producer

\* Whatever there is to see is announced: who registers a chunk or publishes the
\* result wakes everybody, and nobody goes to sleep but on a look that found nothing.
LEMMA SleepStep == StreamInv /\ Next => SleepersWait'
<1> SUFFICES ASSUME StreamInv, Next PROVE SleepersWait'
  OBVIOUS
<1>0. /\ SleepersWait /\ sleeping \subseteq Reader /\ readers \in [Reader -> ReaderState]
  BY DEF StreamInv, TypeOK
<1>1. CASE sleeping' = {}
  BY <1>1 DEF SleepersWait
<1>2. ASSUME inner' = inner, sleeping' \subseteq sleeping,
             \A r \in sleeping : readers'[r] = readers[r]
      PROVE  SleepersWait'
  BY <1>0, <1>2 DEF SleepersWait, Available
<1>3. CASE RegisterChunk \/ Finish \/ Fail
  BY <1>1, <1>3 DEF RegisterChunk, Finish, Fail
<1>4. CASE Producer /\ ~(RegisterChunk \/ Finish \/ Fail)
  BY <1>2, <1>4 DEF Producer, CreateSpool, Write, EmitFullChunk, EmitRemaining, WriteFails,
                    QueryEnds, ProducerExits
<1>5. ASSUME NEW r \in Reader, r \notin sleeping, sleeping' = sleeping, inner' = inner,
             NEW to, readers' = [readers EXCEPT ![r] = to]
      PROVE  SleepersWait'
  BY <1>0, <1>2, <1>5
<1>6. ASSUME NEW r \in Reader, NEW wish \in 0 .. MaxBytes + 1, Ask(r, wish) PROVE SleepersWait'
  <2>1. r \notin sleeping
    BY <1>0, <1>6 DEF Ask, SleepersWait
  <2> QED BY <1>5, <1>6, <2>1 DEF Ask
<1>7. ASSUME NEW r \in Reader, NEW got, r \notin sleeping, Answer(r, got) PROVE SleepersWait'
  BY <1>0, <1>2, <1>7 DEF Answer
<1>8. ASSUME NEW r \in Reader, WaitForMetrics(r) \/ MissChunk(r) PROVE SleepersWait'
  BY <1>7, <1>8 DEF WaitForMetrics, MissChunk, Looks
<1>9. ASSUME NEW r \in Reader, ReadSpool(r) PROVE SleepersWait'
  <2>1. r \notin sleeping
    BY <1>0, <1>9 DEF ReadSpool, SleepersWait
  <2> QED BY <1>7, <1>9, <2>1 DEF ReadSpool
<1>10. ASSUME NEW r \in Reader, FindChunk(r) PROVE SleepersWait'
  BY <1>0, <1>2, <1>10 DEF FindChunk, Looks
<1>11. ASSUME NEW r \in Reader, Sleep(r) PROVE SleepersWait'
  BY <1>0, <1>11 DEF Sleep, Looks, SleepersWait, Available
<1>12. ASSUME NEW r \in Reader, WakeSpuriously(r) PROVE SleepersWait'
  BY <1>2, <1>12 DEF WakeSpuriously
<1>13. CASE Unregister
  BY <1>2, <1>13 DEF Unregister
<1> QED BY <1>3, <1>4, <1>6, <1>8, <1>9, <1>10, <1>11, <1>12, <1>13 DEF Next, Progress

\* Whoever gives up the last reference removes the file, and only the producer,
\* which holds one, makes it.
LEMMA NoSpoolStep == StreamInv /\ Next => NoSpoolLeft'
<1> SUFFICES ASSUME StreamInv, Next PROVE NoSpoolLeft'
  OBVIOUS
<1>0. /\ NoSpoolLeft /\ writer \in Writer /\ readers \in [Reader -> ReaderState]
      /\ spool \in [exists : BOOLEAN, len : Nat]
  BY DEF StreamInv, TypeOK
<1>1. CASE DropStream
  BY <1>0, <1>1 DEF DropStream, NoSpoolLeft
<1>2. CASE writer'.pc # "gone"
  BY <1>2 DEF NoSpoolLeft, Referenced
<1>3. CASE Producer
  <2>1. CASE ProducerExits
    BY <1>1, <2>1 DEF ProducerExits
  <2>2. CASE ~ProducerExits
    BY <1>0, <1>2, <1>3, <2>2 DEF Producer, CreateSpool, Write, EmitFullChunk, EmitRemaining,
         SpoolChunk, WriteFails, RegisterChunk, QueryEnds, Finish, Fail, Writer
  <2> QED BY <2>1, <2>2
<1>4. ASSUME NEW r \in Reader, NEW wish \in 0 .. MaxBytes + 1, Ask(r, wish) PROVE NoSpoolLeft'
  BY <1>4 DEF Ask, NoSpoolLeft, Referenced
<1>5. ASSUME NEW r \in Reader, FindChunk(r) PROVE NoSpoolLeft'
  <2>1. readers'[r].pc = "reading"
    BY <1>0, <1>5 DEF FindChunk, ReaderState
  <2> QED BY <2>1 DEF NoSpoolLeft, Referenced
<1>6. ASSUME NEW r \in Reader, WaitForMetrics(r) \/ MissChunk(r) \/ ReadSpool(r) PROVE NoSpoolLeft'
  BY <1>1, <1>6 DEF WaitForMetrics, MissChunk, ReadSpool, Answer
<1>7. ASSUME NEW r \in Reader, Sleep(r) \/ WakeSpuriously(r) PROVE NoSpoolLeft'
  BY <1>0, <1>7 DEF Sleep, WakeSpuriously, NoSpoolLeft, Referenced
<1>8. CASE Unregister
  BY <1>1, <1>8 DEF Unregister
<1> QED BY <1>3, <1>4, <1>5, <1>6, <1>7, <1>8 DEF Next, Progress

\* The invariant holds in every reachable state.
LEMMA StreamInvHolds == Spec => []StreamInv
<1>1. Init => StreamInv
  BY TypeInit, SizesAssumption DEF Init, StreamInv, ChunksTile, WriterExact, ResultExact, SpoolKept, ReadersRight,
     Chunks, End, Published, OutputBounded, SleepersWait, NoSpoolLeft
<1>2. StreamInv /\ [Next]_vars => StreamInv'
  <2>1. StreamInv /\ Next => StreamInv'
    BY TypeStep, TileStep, WriterStep, ResultStep, SpoolStep, ReadersStep, BoundStep, SleepStep,
       NoSpoolStep DEF StreamInv
  <2>2. StreamInv /\ UNCHANGED vars => StreamInv'
    BY TypeStep DEF StreamInv, vars, ChunksTile, WriterExact, ResultExact, SpoolKept, ReadersRight,
       Chunks, End, Published, Referenced, Available, OutputBounded, SleepersWait, NoSpoolLeft
  <2> QED BY <2>1, <2>2
<1> QED BY <1>1, <1>2, PTL DEF Spec

-----------------------------------------------------------------------------
\* The shared state, the writer and the readers have their types: among others
\* the writer never cuts more than is pending (emit_full_chunks, emit_remaining).
THEOREM StreamTypes == Spec => []TypeOK
  BY StreamInvHolds, PTL DEF StreamInv

\* In every reachable state the registered chunks lie in the file one behind
\* the other, without a gap, an overlap or an empty chunk (write_chunk).
THEOREM ChunksAlwaysTile == Spec => []ChunksTile
  BY StreamInvHolds, PTL DEF StreamInv

\* No reader that found a chunk misses its bytes in the file, whatever closes
\* the stream meanwhile (read_chunk opens the file after the unlock; Drop).
THEOREM ReadsNeverTorn == Spec => []NoTornRead
<1>1. StreamInv => NoTornRead
  BY DEF StreamInv, ReadersRight, NoTornRead
<1> QED BY StreamInvHolds, <1>1, PTL

\* The metrics of a stream that finished are those of its chunks and of the
\* output (SpoolWriter::finalize and finish).
THEOREM MetricsAlwaysExact == Spec => []MetricsExact
<1>1. StreamInv => MetricsExact
  <2> SUFFICES ASSUME StreamInv, inner.complete, ~inner.error
               PROVE  /\ inner.metrics.chunk_count = Len(Chunks)
                      /\ inner.metrics.total_bytes = End(Chunks)
                      /\ inner.metrics.total_bytes = Produced
    BY DEF MetricsExact, Chunks, End
  <2>1. /\ inner.metrics = [chunk_count |-> writer.emitted_chunks,
                            total_bytes |-> writer.emitted_bytes]
        /\ writer.pending = 0
        /\ writer.emitted_chunks = Len(Chunks) /\ writer.emitted_bytes = End(Chunks)
        /\ writer.emitted_bytes \in Nat
    BY DEF StreamInv, ResultExact, WriterExact, TypeOK, Writer
  <2> QED BY <2>1 DEF Produced
<1> QED BY StreamInvHolds, <1>1, PTL

\* A chunk that read_chunk refused as out of bounds is never registered.
THEOREM RefusalsFinal == Spec => []OutOfBoundsFinal
<1>1. StreamInv => OutOfBoundsFinal
  BY DEF StreamInv, ReadersRight, OutOfBoundsFinal, Chunks
<1> QED BY StreamInvHolds, <1>1, PTL

\* No wake-up is lost: a reader is asleep only while the chunk it wants is not there
\* and the stream is not complete (notify_all in write_chunk, finish and fail; the
\* look and the wait of read_chunk and wait_for_metrics under one lock).
THEOREM NoWakeUpLost == Spec => []SleepersWait
  BY StreamInvHolds, PTL DEF StreamInv

\* No spool file is left behind: it goes with the last reference (Drop).
THEOREM NoSpoolLeftBehind == Spec => []NoSpoolLeft
  BY StreamInvHolds, PTL DEF StreamInv

-----------------------------------------------------------------------------
(* The stream implements ChunkedResult.                                    *)

\* The end of the chunks is the same, seen from both sides.
LEMMA SameEnd == Result!End = End(Chunks)
  BY DEF Result!End, End, Chunks

\* What is asked, answered and given is unchanged where the readers are.
LEMMA ReadersSeen ==
    ASSUME readers' = readers
    PROVE  Waiting' = Waiting /\ Wishes' = Wishes /\ Answers' = Answers /\ Pieces' = Pieces
  BY DEF Waiting, Wishes, Answers, Pieces

\* Every step of the producer extends the output, gives its verdict, lets go of the
\* database, or is not seen.
LEMMA ProducerImplements == StreamInv /\ Producer => [Result!Next]_(Result!vars)
<1> SUFFICES ASSUME StreamInv, Producer PROVE [Result!Next]_(Result!vars)
  OBVIOUS
<1> USE SizesAssumption
<1>0. /\ TypeOK /\ WriterExact /\ ResultExact /\ OutputBounded
      /\ inner \in Inner /\ writer \in Writer
  BY DEF StreamInv, TypeOK
<1>1. /\ readers' = readers /\ registered' = registered
  BY DEF Producer, CreateSpool, Write, EmitFullChunk, EmitRemaining, WriteFails, RegisterChunk,
         QueryEnds, Finish, Fail, ProducerExits
<1>2. Waiting' = Waiting /\ Wishes' = Wishes /\ Answers' = Answers /\ Pieces' = Pieces
  BY <1>1, ReadersSeen
<1>3. CASE RegisterChunk
  <2>1. /\ Chunks' = Append(Chunks, [offset |-> End(Chunks), len |-> writer.cut])
        /\ writer.cut \in 1 .. MaxBytes
    BY <1>0, <1>3, ChunkAppended DEF RegisterChunk, WriterExact, OutputBounded, Writer
  <2>2. /\ Verdict = "running" /\ Verdict' = "running"
        /\ inner'.metrics = inner.metrics
        /\ (writer'.pc # "gone") = (writer.pc # "gone")
    BY <1>0, <1>3 DEF RegisterChunk, Verdict, ResultExact, Published, Inner, Writer
  <2>3. Result!Extend
    BY <1>1, <1>2, <2>1, <2>2, SameEnd DEF Result!Extend, Chunks
  <2> QED BY <2>3 DEF Result!Next
<1>4. CASE Finish
  <2>1. /\ Verdict = "running" /\ Verdict' = "succeeded"
        /\ Chunks' = Chunks
        /\ inner'.metrics = [chunk_count |-> Len(Chunks), total_bytes |-> End(Chunks)]
        /\ (writer'.pc # "gone") = (writer.pc # "gone")
    BY <1>0, <1>4 DEF Finish, Verdict, ResultExact, Published, Inner, Writer, WriterExact, Chunks
  <2>2. Result!Succeed
    BY <1>1, <1>2, <2>1, SameEnd DEF Result!Succeed, Chunks
  <2> QED BY <2>2 DEF Result!Next
<1>5. CASE Fail
  <2>1. /\ Verdict = "running" /\ Verdict' = "failed"
        /\ Chunks' = Chunks /\ inner'.metrics = inner.metrics
        /\ (writer'.pc # "gone") = (writer.pc # "gone")
    BY <1>0, <1>5 DEF Fail, Verdict, ResultExact, Published, Inner, Writer, Chunks
  <2>2. Result!GiveUp
    BY <1>1, <1>2, <2>1 DEF Result!GiveUp, Chunks
  <2> QED BY <2>2 DEF Result!Next
<1>6. CASE ProducerExits
  <2>1. /\ Verdict # "running" /\ inner' = inner /\ Verdict' = Verdict
        /\ (writer.pc # "gone") /\ (writer'.pc # "gone") = FALSE
    BY <1>0, <1>6 DEF ProducerExits, Verdict, ResultExact, Published, Writer
  <2>2. Result!LetGo
    BY <1>1, <1>2, <2>1 DEF Result!LetGo
  <2> QED BY <2>2 DEF Result!Next
<1>7. CASE ~(RegisterChunk \/ Finish \/ Fail \/ ProducerExits)
  <2>1. inner' = inner /\ (writer'.pc # "gone") = (writer.pc # "gone")
    BY <1>0, <1>7 DEF Producer, CreateSpool, Write, EmitFullChunk, EmitRemaining, SpoolChunk,
         WriteFails, QueryEnds, Writer
  <2>2. Verdict' = Verdict
    BY <2>1 DEF Verdict
  <2> QED BY <1>1, <1>2, <2>1, <2>2 DEF Result!vars
<1> QED BY <1>3, <1>4, <1>5, <1>6, <1>7

\* An answer of the implementation is one the promise allows.
LEMMA AnswerImplements ==
    ASSUME StreamInv, NEW r \in Reader, NEW got, Answer(r, got), readers[r].pc # "idle",
           \/ /\ got = "chunk" /\ readers[r].wish \in 1 .. Len(Chunks)
              /\ readers[r].descriptor = Chunks[readers[r].wish]
           \/ got = "metrics" /\ readers[r].wish = 0 /\ Verdict = "succeeded"
           \/ got = "out_of_bounds" /\ readers[r].wish > Len(Chunks) /\ Verdict = "succeeded"
           \/ got = "error" /\ readers[r].wish \notin 1 .. Len(Chunks) /\ Verdict = "failed"
    PROVE  Result!Next
<1> DEFINE given == IF got = "chunk" THEN readers[r].descriptor ELSE NoDescriptor
<1>0. readers \in [Reader -> ReaderState]
  BY DEF StreamInv, TypeOK
<1>1. /\ readers'[r].pc = "idle" /\ readers'[r].got = got
      /\ readers'[r].wish = readers[r].wish /\ readers'[r].descriptor = readers[r].descriptor
      /\ \A q \in Reader \ {r} : readers'[q] = readers[q]
      /\ inner' = inner /\ writer' = writer /\ registered' = registered
  BY <1>0 DEF Answer, ReaderState
<1>2. /\ r \in Waiting /\ Waiting' = Waiting \ {r}
      /\ Wishes' = Wishes
      /\ Answers' = [Answers EXCEPT ![r] = got]
      /\ Pieces' = [Pieces EXCEPT ![r] = given]
  BY <1>1 DEF Waiting, Wishes, Answers, Pieces
<1>3. Verdict' = Verdict
  BY <1>1 DEF Verdict
<1>4. Result!Reply(r, got, given)
  BY <1>1, <1>2, <1>3 DEF Result!Reply
<1>5. Wishes[r] = readers[r].wish /\ NoDescriptor = Result!NoPiece
  BY DEF Wishes, NoDescriptor, Result!NoPiece
<1>6. \/ Result!GiveChunk(r) \/ Result!GiveTotals(r) \/ Result!Refuse(r) \/ Result!Report(r)
  BY <1>4, <1>5 DEF Result!GiveChunk, Result!GiveTotals, Result!Refuse, Result!Report, Chunks
<1> QED BY <1>6 DEF Result!Next

\* Every step of a reader is a question, an answer, or is not seen.
LEMMA ReaderImplements ==
    ASSUME StreamInv, NEW r \in Reader,
           \/ \E wish \in 0 .. MaxBytes + 1 : Ask(r, wish)
           \/ Progress(r)
           \/ WakeSpuriously(r)
    PROVE  [Result!Next]_(Result!vars)
<1>0. /\ ReadersRight /\ ResultExact /\ readers \in [Reader -> ReaderState]
      /\ Chunks \in Seq(Descriptor) /\ inner \in Inner
  BY DEF StreamInv, TypeOK, Inner, Chunks
<1>1. ASSUME NEW w \in 0 .. MaxBytes + 1, Ask(r, w) PROVE Result!Next
  <2>1. /\ readers[r].pc = "idle" /\ readers'[r].pc = "looking" /\ readers'[r].wish = w
        /\ readers'[r].got = "nothing"
        /\ \A q \in Reader \ {r} : readers'[q] = readers[q]
        /\ registered /\ registered' = registered /\ inner' = inner /\ writer' = writer
    BY <1>0, <1>1 DEF Ask
  <2>2. /\ r \notin Waiting /\ Waiting' = Waiting \cup {r}
        /\ Wishes' = [Wishes EXCEPT ![r] = w]
        /\ Answers' = [Answers EXCEPT ![r] = "nothing"]
        /\ Pieces' = [Pieces EXCEPT ![r] = NoDescriptor]
    BY <2>1 DEF Waiting, Wishes, Answers, Pieces
  <2>3. Verdict' = Verdict /\ NoDescriptor = Result!NoPiece
    BY <2>1 DEF Verdict, NoDescriptor, Result!NoPiece
  <2>4. Result!Ask(r, w)
    BY <2>1, <2>2, <2>3 DEF Result!Ask
  <2> QED BY <2>4 DEF Result!Next
<1>2. CASE WaitForMetrics(r)
  <2>1. /\ readers[r].pc # "idle" /\ readers[r].wish = 0 /\ inner.complete
        /\ Answer(r, IF inner.error THEN "error" ELSE "metrics")
    BY <1>2 DEF WaitForMetrics, Looks, FinalMetrics
  <2> QED BY <1>0, <2>1, AnswerImplements DEF Verdict
<1>3. CASE MissChunk(r)
  <2>1. /\ readers[r].pc # "idle" /\ readers[r].wish > Len(Chunks) /\ inner.complete
        /\ Answer(r, IF inner.error THEN "error" ELSE "out_of_bounds")
    BY <1>0, <1>3 DEF MissChunk, Looks, FinalMetrics, Available, ReaderState, Chunks
  <2> QED BY <1>0, <2>1, AnswerImplements DEF Verdict, ReaderState
<1>4. CASE ReadSpool(r)
  <2>1. /\ readers[r].pc = "reading" /\ Answer(r, "chunk")
    BY <1>4, ReadIsWhole DEF ReadSpool
  <2>2. /\ readers[r].wish \in 1 .. Len(Chunks)
        /\ readers[r].descriptor = Chunks[readers[r].wish]
    BY <1>0, <2>1 DEF ReadersRight, Available, FinalMetrics, ReaderState, Chunks
  <2> QED BY <2>1, <2>2, AnswerImplements
<1>5. CASE FindChunk(r)
  <2>1. /\ readers[r].pc = "looking" /\ readers'[r].pc = "reading"
        /\ readers[r].got = "nothing" /\ readers'[r].got = "nothing"
        /\ readers'[r].wish = readers[r].wish
        /\ \A q \in Reader \ {r} : readers'[q] = readers[q]
        /\ registered' = registered /\ inner' = inner /\ writer' = writer
    BY <1>0, <1>5 DEF FindChunk, Looks, ReadersRight, ReaderState
  <2>2. Waiting' = Waiting /\ Wishes' = Wishes /\ Answers' = Answers /\ Pieces' = Pieces
    BY <2>1 DEF Waiting, Wishes, Answers, Pieces
  <2> QED BY <2>1, <2>2 DEF Result!vars, Verdict
<1>6. CASE Sleep(r) \/ WakeSpuriously(r)
  BY <1>6, ReadersSeen DEF Sleep, WakeSpuriously, Result!vars, Verdict
<1> QED BY <1>1, <1>2, <1>3, <1>4, <1>5, <1>6 DEF Progress

\* A stream keeps the promise of ChunkedResult, for any readers and any output: what
\* ControllerRuntime and the hosts use of a stream is what they are told it is
\* (ControllerSqliteQueryStreamHandle, ControllerStreamingTempFileWriter).
THEOREM KeepsPromise == Spec => ImplementsResult
<1>1. Init => Result!Init
  BY DEF Init, Result!Init, Verdict, Waiting, Wishes, Answers, Pieces, FinalMetrics,
         NoDescriptor, Result!NoPiece
<1>2. StreamInv /\ [Next]_vars => [Result!Next]_(Result!vars)
  <2> SUFFICES ASSUME StreamInv, [Next]_vars PROVE [Result!Next]_(Result!vars)
    OBVIOUS
  <2>1. CASE Producer
    BY <2>1, ProducerImplements
  <2>2. CASE Unregister
    <3>1. Result!Close
      BY <2>2, ReadersSeen DEF Unregister, Result!Close, Verdict
    <3> QED BY <3>1 DEF Result!Next
  <2>3. CASE UNCHANGED vars
    BY <2>3, ReadersSeen DEF vars, Result!vars, Verdict
  <2> QED BY <2>1, <2>2, <2>3, ReaderImplements DEF Next
<1> QED BY <1>1, <1>2, StreamInvHolds, PTL DEF Spec, ImplementsResult, Result!Spec
=============================================================================
