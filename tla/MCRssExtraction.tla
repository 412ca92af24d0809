-------------------------- MODULE MCRssExtraction --------------------------
(* Model-checking instances of RssExtraction. *)
EXTENDS RssExtraction, TLC

CONSTANT BackfillRun   \* the run started by "make rss-backfill", if any

\* Cloud Run gives the rss job 1800 s, the timeout of reset_stale_in_progress;
\* the Makefile gives a backfill 3600 s.
Timeouts ==
  [w \in Runs |-> IF w = BackfillRun THEN 2 * StaleTimeout ELSE StaleTimeout]

\* Runs differ in nothing, unless one is a backfill.
RunSymmetry == Permutations(Runs)
=============================================================================
