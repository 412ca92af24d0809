--------------------------- MODULE MCRssPipeline ---------------------------
(* Model-checking instances of RssPipeline. *)
EXTENDS RssPipeline, TLC

CONSTANTS r1, r2, u1, u2

\* Two addresses of the same text.
Texts == (u1 :> "a") @@ (u2 :> "a")
Addresses == (u1 :> "x") @@ (u2 :> "y")
Stories == (u1 :> "s") @@ (u2 :> "s")

RunSymmetry == Permutations(Runs)
=============================================================================
