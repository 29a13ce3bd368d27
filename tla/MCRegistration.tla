--------------------------- MODULE MCRegistration ---------------------------
(* Model values for TLC: three racing handlers over two install ids. *)
EXTENDS Registration, TLC

MCSymmetry == Permutations(Requests) \cup Permutations(Installs) \cup Permutations(Credentials)

=============================================================================
