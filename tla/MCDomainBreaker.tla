-------------------------- MODULE MCDomainBreaker --------------------------
(* Model-checking instances of DomainBreaker. *)
EXTENDS DomainBreaker, TLC

CONSTANTS t1, t2, t3, r1, r2

TwoRuns == (t1 :> r1) @@ (t2 :> r2) @@ (t3 :> r2)
=============================================================================
