------------------------ MODULE MCProjectLifecycle ------------------------
(* Small instances of ProjectLifecycle for TLC. *)
EXTENDS ProjectLifecycle, TLC

MCSymmetry == Permutations(Owners) \cup Permutations(Writers)

=============================================================================
