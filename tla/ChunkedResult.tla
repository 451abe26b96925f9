---------------------------- MODULE ChunkedResult ----------------------------
(***************************************************************************)
(* What a query stream promises to the hosts that read it, without the     *)
(* threads, the wait set and the file behind it: an output that is handed  *)
(* out piece by piece while it is still growing, and a verdict at its end. *)
(* A chunk, once it is there, is there for good; every answer is right at  *)
(* the moment it is given and stays right; who asks while the stream is    *)
(* listed is served even after it has been closed; and the producer lets   *)
(* go of its database only when the verdict is out.                        *)
(***************************************************************************)
EXTENDS Naturals, Sequences

CONSTANTS
    Reader,     \* those who ask
    Size,       \* how long a chunk may be
    Wish        \* what may be asked for: a chunk, from 1, or 0 for the totals

VARIABLES
    chunks,     \* the pieces of the output so far, in order
    verdict,    \* "running", "succeeded" or "failed"
    metrics,    \* the totals of an output that has succeeded
    listed,     \* the stream can be looked up
    producing,  \* the producer holds its database
    waiting,    \* readers that have asked and have no answer yet
    wish,       \* what each asked for last
    answer,     \* what each was answered last
    piece       \* the piece that came with the answer

vars == <<chunks, verdict, metrics, listed, producing, waiting, wish, answer, piece>>

NoPiece == [offset |-> 0, len |-> 0]

\* Where the output ends so far.
End == IF chunks = <<>> THEN 0 ELSE chunks[Len(chunks)].offset + chunks[Len(chunks)].len

Init ==
    /\ chunks = <<>>
    /\ verdict = "running"
    /\ metrics = [chunk_count |-> 0, total_bytes |-> 0]
    /\ listed = TRUE
    /\ producing = TRUE
    /\ waiting = {}
    /\ wish = [r \in Reader |-> 0]
    /\ answer = [r \in Reader |-> "nothing"]
    /\ piece = [r \in Reader |-> NoPiece]

-----------------------------------------------------------------------------
(* The producer.                                                           *)

Extend ==
    /\ verdict = "running"
    /\ \E n \in Size : chunks' = Append(chunks, [offset |-> End, len |-> n])
    /\ UNCHANGED <<verdict, metrics, listed, producing, waiting, wish, answer, piece>>

Succeed ==
    /\ verdict = "running"
    /\ verdict' = "succeeded"
    /\ metrics' = [chunk_count |-> Len(chunks), total_bytes |-> End]
    /\ UNCHANGED <<chunks, listed, producing, waiting, wish, answer, piece>>

GiveUp ==
    /\ verdict = "running"
    /\ verdict' = "failed"
    /\ UNCHANGED <<chunks, metrics, listed, producing, waiting, wish, answer, piece>>

LetGo ==
    /\ producing
    /\ verdict # "running"
    /\ producing' = FALSE
    /\ UNCHANGED <<chunks, verdict, metrics, listed, waiting, wish, answer, piece>>

-----------------------------------------------------------------------------
(* The readers.                                                            *)

Ask(r, w) ==
    /\ listed
    /\ r \notin waiting
    /\ waiting' = waiting \cup {r}
    /\ wish' = [wish EXCEPT ![r] = w]
    /\ answer' = [answer EXCEPT ![r] = "nothing"]
    /\ piece' = [piece EXCEPT ![r] = NoPiece]
    /\ UNCHANGED <<chunks, verdict, metrics, listed, producing>>

Reply(r, what, which) ==
    /\ r \in waiting
    /\ waiting' = waiting \ {r}
    /\ answer' = [answer EXCEPT ![r] = what]
    /\ piece' = [piece EXCEPT ![r] = which]
    /\ UNCHANGED <<chunks, verdict, metrics, listed, producing, wish>>

GiveChunk(r) ==
    /\ wish[r] \in 1 .. Len(chunks)
    /\ Reply(r, "chunk", chunks[wish[r]])

GiveTotals(r) ==
    /\ wish[r] = 0
    /\ verdict = "succeeded"
    /\ Reply(r, "metrics", NoPiece)

\* No such chunk, and there never will be.
Refuse(r) ==
    /\ wish[r] > Len(chunks)
    /\ verdict = "succeeded"
    /\ Reply(r, "out_of_bounds", NoPiece)

\* A chunk that is there is given even when the query has failed later.
Report(r) ==
    /\ wish[r] \notin 1 .. Len(chunks)
    /\ verdict = "failed"
    /\ Reply(r, "error", NoPiece)

Close ==
    /\ listed
    /\ listed' = FALSE
    /\ UNCHANGED <<chunks, verdict, metrics, producing, waiting, wish, answer, piece>>

Next ==
    \/ Extend \/ Succeed \/ GiveUp \/ LetGo
    \/ \E r \in Reader :
          \/ \E w \in Wish : Ask(r, w)
          \/ GiveChunk(r) \/ GiveTotals(r) \/ Refuse(r) \/ Report(r)
    \/ Close

Spec == Init /\ [][Next]_vars
=============================================================================
