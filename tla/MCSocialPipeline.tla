-------------------------- MODULE MCSocialPipeline --------------------------
(* Model-checking instance of SocialPipeline. *)
EXTENDS SocialPipeline, TLC

CONSTANTS r1, h1, h2, p1, p2, p3

\* Two posts of one handle, so that a request may not give both; an item of
\* the other handle that does not parse.
Handle == (p1 :> h1) @@ (p2 :> h1) @@ (p3 :> h2)
Shape == (p1 :> "post") @@ (p2 :> "post") @@ (p3 :> "drift")
=============================================================================
