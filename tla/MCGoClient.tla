----------------------------- MODULE MCGoClient -----------------------------
(* Instances of GoClient for TLC.                                           *)
EXTENDS GoClient, TLC

\* Only equality is asked of the elements of these sets.
Symmetry == Permutations(Goroutine) \cup Permutations(Connection)
=============================================================================
