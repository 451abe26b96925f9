------------------------ MODULE MCManagedController ------------------------
(* Instances of ManagedController for TLC.                                  *)
EXTENDS ManagedController, TLC

\* Only equality is asked of the elements of these sets.
Symmetry == Permutations(Handle) \cup Permutations(Task)
=============================================================================
