---------------------------- MODULE MCCompactor ----------------------------
(* Model-checking instances of Compactor. *)
EXTENDS Compactor, TLC

CONSTANTS b1, b2, b3

\* The last two batches share a row.
Rows == (b1 :> {"p"}) @@ (b2 :> {"q"}) @@ (b3 :> {"q", "r"})
=============================================================================
