------------------------------ MODULE MCIngest ------------------------------
(* Small instances of Ingest for TLC. *)
EXTENDS Ingest, TLC

CONSTANTS i1, i2, e1, e2, e3, e4

\* Two clients; names a and b meet in both.
OwnerTwo == (e1 :> i1) @@ (e2 :> i1) @@ (e3 :> i2)
NameTwo == (e1 :> "a") @@ (e2 :> "b") @@ (e3 :> "a")
TimeTwo == (e1 :> 2) @@ (e2 :> 1) @@ (e3 :> 1)

\* One client with a product event and a system event.
OwnerOne == (e1 :> i1) @@ (e2 :> i1)
NameOne == (e1 :> "a") @@ (e2 :> "sys")
TimeOne == (e1 :> 2) @@ (e2 :> 1)

\* Two clients whose batches can write the same two names in opposite orders.
OwnerCross == (e1 :> i1) @@ (e2 :> i1) @@ (e3 :> i2) @@ (e4 :> i2)
NameCross == (e1 :> "a") @@ (e2 :> "b") @@ (e3 :> "b") @@ (e4 :> "a")
TimeCross == (e1 :> 1) @@ (e2 :> 1) @@ (e3 :> 1) @@ (e4 :> 1)

MCSymmetry == Permutations(Handlers)

=============================================================================
