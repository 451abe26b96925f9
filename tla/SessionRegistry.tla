--------------------------- MODULE SessionRegistry ---------------------------
(***************************************************************************)
(* What the controller promises its hosts about ownership, without         *)
(* saying how it keeps its books: a session joins spaces, claims bindings  *)
(* inside the spaces it has joined, nobody else can take or release them,  *)
(* and when a session ends everything it holds is given back at once.      *)
(*                                                                         *)
(* The controller ends sessions whose lease is over whenever a request     *)
(* comes in, so every operation may first end any set "ended" of sessions. *)
(***************************************************************************)
CONSTANTS
    Session,        \* session identifiers
    Space,          \* spaces that can be joined
    Slot,           \* what can be claimed
    SpaceOf,        \* SpaceOf[x]: the space slot x belongs to
    Nobody          \* the owner of an unclaimed slot

VARIABLES
    alive,    \* the sessions that have begun and not ended
    past,     \* the sessions that have ended: they never come back
    joined,   \* joined[s]: the spaces session s has joined
    owner     \* owner[x]: the session that claimed slot x, or Nobody

vars == <<alive, past, joined, owner>>

TypeOK ==
    /\ alive \subseteq Session
    /\ past \subseteq Session
    /\ joined \in [Session -> SUBSET Space]
    /\ owner \in [Slot -> Session \cup {Nobody}]

Init ==
    /\ alive = {}
    /\ past = {}
    /\ joined = [s \in Session |-> {}]
    /\ owner = [x \in Slot |-> Nobody]

\* What is left of joined and owner once the sessions of "ended" are gone.
JoinedAfter(ended) == [s \in Session |-> IF s \in ended THEN {} ELSE joined[s]]
OwnerAfter(ended)  == [x \in Slot |-> IF owner[x] \in ended THEN Nobody ELSE owner[x]]

End(ended) ==
    /\ alive' = alive \ ended
    /\ past' = past \cup ended
    /\ joined' = JoinedAfter(ended)
    /\ owner' = OwnerAfter(ended)

Begin(s, ended) ==
    /\ s \notin alive \cup past
    /\ alive' = (alive \ ended) \cup {s}
    /\ past' = past \cup ended
    /\ joined' = JoinedAfter(ended)
    /\ owner' = OwnerAfter(ended)

Join(s, sp, ended) ==
    /\ s \in alive \ ended
    /\ alive' = alive \ ended
    /\ past' = past \cup ended
    /\ joined' = [JoinedAfter(ended) EXCEPT ![s] = @ \cup {sp}]
    /\ owner' = OwnerAfter(ended)

\* A session leaves a space only after it released all its slots there.
Leave(s, sp, ended) ==
    /\ s \in alive \ ended
    /\ \A x \in Slot : owner[x] = s => SpaceOf[x] # sp
    /\ alive' = alive \ ended
    /\ past' = past \cup ended
    /\ joined' = [JoinedAfter(ended) EXCEPT ![s] = @ \ {sp}]
    /\ owner' = OwnerAfter(ended)

Claim(s, x) ==
    /\ s \in alive
    /\ SpaceOf[x] \in joined[s]
    /\ owner[x] \in {Nobody, s}
    /\ owner' = [owner EXCEPT ![x] = s]
    /\ UNCHANGED <<alive, past, joined>>

Release(s, x) ==
    /\ s \in alive
    /\ owner[x] = s
    /\ owner' = [owner EXCEPT ![x] = Nobody]
    /\ UNCHANGED <<alive, past, joined>>

Next ==
    \/ \E ended \in SUBSET alive :
          \/ End(ended)
          \/ \E s \in Session :
                \/ Begin(s, ended)
                \/ \E sp \in Space : Join(s, sp, ended) \/ Leave(s, sp, ended)
    \/ \E s \in Session, x \in Slot : Claim(s, x) \/ Release(s, x)

Spec == Init /\ [][Next]_vars

=============================================================================
