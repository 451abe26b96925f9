------------------------- MODULE MCControllerRuntime -------------------------
(* Instances of ControllerRuntime for TLC.                                  *)
EXTENDS ControllerRuntime, TLC

\* Only equality is asked of the elements of these sets.
Symmetry ==
    Permutations(Session) \cup Permutations(Space) \cup Permutations(Identity)
    \cup Permutations(Binding) \cup Permutations(SqliteResource)
    \cup Permutations(Handle) \cup Permutations(Task)
=============================================================================
