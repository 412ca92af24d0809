--------------------------- MODULE RssExtraction ---------------------------
(***************************************************************************)
(* Discovery and extraction of the RSS pipeline: concurrent executions of  *)
(* run_pipeline (Cloud Run jobs, the backfill job, the Airflow DAG) that   *)
(* share one URL frontier.  A run is a process; each of its database calls *)
(* is one step, so the calls of two runs interleave in every order.  A run *)
(* may die between any two of them; the platform kills a run that reaches  *)
(* its task timeout.                                                       *)
(***************************************************************************)
EXTENDS UrlFrontier

CONSTANTS
  Runs,        \* the executions that may overlap
  RunTimeout   \* task timeout of each run, in ticks

ASSUME RunAssumption == RunTimeout \in [Runs -> Nat]

VARIABLES
  pc,          \* the next step of each run
  runAge,      \* time since the run started
  discovered,  \* the URLs its feeds list, then those they returned
  retrying,    \* the run is in stage 2b
  held,        \* URLs the run claimed and has not settled
  ok,          \* ... of which the scraper returned an article under this URL
  bad,         \* ... of which it returned none, and which it did not defer
  uolActive    \* feed_sources.is_active of the UOL feed

runVars == <<pc, runAge, discovered, retrying, held, ok, bad, uolActive>>
vars == <<frontierVars, runVars>>

Stages == {"idle", "deactivate", "reset", "purge", "add", "pending", "recirculate",
           "pendingAgain", "scrape", "markCompleted", "markFailed",
           "markDeferred", "retry", "extracted"}

Goto(w, stage) == pc' = [pc EXCEPT ![w] = stage]

Live(w) == pc[w] # "idle"

-----------------------------------------------------------------------------
(* The run reads the active feeds, and only then deactivates the UOL feed  *)
(* and fails its queued URLs: this run still fetches it.                   *)
Start(w) ==
  /\ pc[w] = "idle"
  /\ Goto(w, "deactivate")
  /\ runAge' = [runAge EXCEPT ![w] = 0]
  /\ discovered' = [discovered EXCEPT ![w] =
                      IF uolActive THEN Urls ELSE Urls \ UolUrls]
  /\ UNCHANGED <<frontierVars, retrying, held, ok, bad, uolActive>>

Deactivate(w) ==
  /\ pc[w] = "deactivate"
  /\ Goto(w, "reset")
  /\ uolActive' = FALSE
  /\ DeactivateUol
  /\ UNCHANGED <<pubAge, runAge, discovered, retrying, held, ok, bad>>

ResetStale(w) ==
  /\ pc[w] = "reset"
  /\ Goto(w, "purge")
  /\ ResetStaleInProgress
  /\ UNCHANGED <<pubAge, runAge, discovered, retrying, held, ok, bad,
                 uolActive>>

Purge(w) ==
  /\ pc[w] = "purge"
  /\ Goto(w, "add")
  /\ PurgeOldPending
  /\ UNCHANGED <<pubAge, runAge, discovered, retrying, held, ok, bad,
                 uolActive>>

\* What the feeds (and, in a backfill, the sitemaps) returned.
Add(w) ==
  /\ pc[w] = "add"
  /\ Goto(w, "pending")
  /\ \E found \in SUBSET discovered[w] :
       /\ AddUrls(found)
       /\ discovered' = [discovered EXCEPT ![w] = found]
  /\ UNCHANGED <<pubAge, runAge, retrying, held, ok, bad, uolActive>>

\* With nothing pending the run ends, retries included, unless discovery
\* returned something: then it tries recirculation once.
AfterPending(w, S) ==
  IF S # {} THEN "scrape"
  ELSE IF pc[w] = "pending" /\ discovered[w] # {} THEN "recirculate"
  ELSE "extracted"

Pending(w) ==
  /\ pc[w] \in {"pending", "pendingAgain"}
  /\ \E S \in SUBSET Urls :
       /\ GetPending(S)
       /\ held' = [held EXCEPT ![w] = S]
       /\ Goto(w, AfterPending(w, S))
  /\ discovered' = [discovered EXCEPT ![w] = {}]
  /\ UNCHANGED <<pubAge, runAge, retrying, ok, bad, uolActive>>

Recirculate(w) ==
  /\ pc[w] = "recirculate"
  /\ \E S \in SUBSET Urls :
       /\ RecirculateStale(S)
       /\ Goto(w, IF S = {} THEN "extracted" ELSE "pendingAgain")
  /\ UNCHANGED <<pubAge, runAge, discovered, retrying, held, ok, bad,
                 uolActive>>

\* scrape_batch gives each URL one fate.  A URL whose article came back under
\* a redirect target has no article under its own name: it is bad.
Scrape(w) ==
  /\ pc[w] = "scrape"
  /\ Goto(w, "markCompleted")
  /\ \E good \in SUBSET held[w] :
       \E lost \in SUBSET (held[w] \ good) :
         /\ ok' = [ok EXCEPT ![w] = good]
         /\ bad' = [bad EXCEPT ![w] = lost]
  /\ UNCHANGED <<frontierVars, runAge, discovered, retrying, held, uolActive>>

MarkCompleted(w) ==
  /\ pc[w] = "markCompleted"
  /\ Goto(w, "markFailed")
  /\ MarkCompletedBatch(ok[w])
  /\ held' = [held EXCEPT ![w] = @ \ ok[w]]
  /\ ok' = [ok EXCEPT ![w] = {}]
  /\ UNCHANGED <<pubAge, runAge, discovered, retrying, bad, uolActive>>

MarkFailed(w) ==
  /\ pc[w] = "markFailed"
  /\ Goto(w, "markDeferred")
  /\ MarkFailedBatch(bad[w])
  /\ held' = [held EXCEPT ![w] = @ \ bad[w]]
  /\ bad' = [bad EXCEPT ![w] = {}]
  /\ UNCHANGED <<pubAge, runAge, discovered, retrying, ok, uolActive>>

MarkDeferred(w) ==
  /\ pc[w] = "markDeferred"
  /\ Goto(w, IF retrying[w] THEN "extracted" ELSE "retry")
  /\ MarkDeferredBatch(held[w])
  /\ held' = [held EXCEPT ![w] = {}]
  /\ UNCHANGED <<pubAge, runAge, discovered, retrying, ok, bad, uolActive>>

\* Stage 2b, in the same run: what just failed may be claimed at once.
Retry(w) ==
  /\ pc[w] = "retry"
  /\ \E S \in SUBSET Urls :
       /\ GetRetryable(S)
       /\ held' = [held EXCEPT ![w] = S]
       /\ Goto(w, IF S = {} THEN "extracted" ELSE "scrape")
  /\ retrying' = [retrying EXCEPT ![w] = TRUE]
  /\ UNCHANGED <<pubAge, runAge, discovered, ok, bad, uolActive>>

Forget(w) ==
  /\ Goto(w, "idle")
  /\ runAge' = [runAge EXCEPT ![w] = 0]
  /\ discovered' = [discovered EXCEPT ![w] = {}]
  /\ retrying' = [retrying EXCEPT ![w] = FALSE]
  /\ held' = [held EXCEPT ![w] = {}]
  /\ ok' = [ok EXCEPT ![w] = {}]
  /\ bad' = [bad EXCEPT ![w] = {}]
  /\ UNCHANGED <<frontierVars, uolActive>>

\* What follows extraction does not touch the frontier: RssPipeline has it.
Finish(w) == pc[w] = "extracted" /\ Forget(w)

\* To be killed after the last of these steps is to finish.
Kill(w) == Live(w) /\ pc[w] # "extracted" /\ Forget(w)

\* No run outlives its task timeout: time waits until it ended or was killed.
Tick ==
  /\ \A w \in Runs : Live(w) => runAge[w] < RunTimeout[w]
  /\ Grow
  /\ runAge' = [w \in Runs |-> IF Live(w) THEN runAge[w] + 1 ELSE 0]
  /\ UNCHANGED <<pc, discovered, retrying, held, ok, bad, uolActive>>

Init ==
  /\ FrontierInit
  /\ pc = [w \in Runs |-> "idle"]
  /\ runAge = [w \in Runs |-> 0]
  /\ discovered = [w \in Runs |-> {}]
  /\ retrying = [w \in Runs |-> FALSE]
  /\ held = [w \in Runs |-> {}]
  /\ ok = [w \in Runs |-> {}]
  /\ bad = [w \in Runs |-> {}]
  /\ uolActive = TRUE

\* One step of a run that nothing interrupts.
Step(w) ==
  \/ Start(w) \/ Deactivate(w) \/ ResetStale(w) \/ Purge(w) \/ Add(w)
  \/ Pending(w) \/ Recirculate(w)
  \/ Scrape(w) \/ MarkCompleted(w) \/ MarkFailed(w) \/ MarkDeferred(w)
  \/ Retry(w) \/ Finish(w)

Next == Tick \/ \E w \in Runs : Step(w) \/ Kill(w)

Spec == Init /\ [][Next]_vars

(* The scheduler keeps starting runs, a live run keeps going, time passes, *)
(* and from some time on runs end before they are killed.  (If every run   *)
(* may die before its first transaction, nothing is ever guaranteed.)      *)
Fairness ==
  /\ WF_vars(Tick)
  /\ \A w \in Runs : WF_vars(Step(w))
  /\ <>[][\A w \in Runs : ~ Kill(w)]_vars

FairSpec == Spec /\ Fairness

TypeOK ==
  /\ FrontierTypeOK
  /\ pc \in [Runs -> Stages]
  /\ runAge \in [Runs -> Nat]
  /\ \A w \in Runs : runAge[w] <= RunTimeout[w]
  /\ discovered \in [Runs -> SUBSET Urls]
  /\ retrying \in [Runs -> BOOLEAN]
  /\ held \in [Runs -> SUBSET Urls]
  /\ ok \in [Runs -> SUBSET Urls]
  /\ bad \in [Runs -> SUBSET Urls]
  /\ uolActive \in BOOLEAN

-----------------------------------------------------------------------------
(* Two live runs never work on the same URL: what FOR UPDATE SKIP LOCKED   *)
(* is there for ("safe concurrent access", get_pending).  The lock only    *)
(* covers the claim.  Afterwards it is the 30-minute age of the claim      *)
(* against the run's own lifetime that keeps reset_stale_in_progress from  *)
(* handing a live run's URLs to another.  UOL URLs are left out:           *)
(* _deactivate_uol_feed fails them under whoever holds them.               *)
NoDoubleScrape ==
  \A w1, w2 \in Runs : w1 # w2 => (held[w1] \cap held[w2]) \subseteq UolUrls

(* A completed URL leaves "completed" only through recirculate_stale: the  *)
(* mark_failed_batch and mark_deferred_batch of a slower run never undo a  *)
(* faster run's success, although mark_failed_batch does not look at the   *)
(* status it overwrites.                                                   *)
CompletedIsFinal ==
  [][\A u \in Urls \ UolUrls :
       rows[u].status = "completed" =>
         \/ rows'[u].status = "completed"
         \/ rows'[u].status = "pending" /\ OlderThan(rows[u].updateAge, RecircTtl)]_vars

(* A URL is recorded as failed at most MaxRetries times between successes, *)
(* however runs crash, defer, reset stale claims and retry in between:     *)
(* every failure has an attempt_count of its own that no deferral gives    *)
(* back.                                                                   *)
FailureBudget == \A u \in Urls \ UolUrls : fails[u] <= MaxRetries

(* recirculated_at never runs ahead of updated_at, so an old updated_at    *)
(* means that the last recirculation is as old: the one-shot guard of      *)
(* recirculate_stale can never be what holds a URL back, and no URL is     *)
(* recirculated twice within the TTL.                                      *)
RecirculationIsAnUpdate ==
  \A u \in Urls :
    rows[u].recircAge # NULL => rows[u].recircAge >= rows[u].updateAge

(* The frontier as the queue of leases its callers see.                    *)
ItemState(u) ==
  CASE rows[u].status = "absent" -> "none"
    [] rows[u].status = "pending" \/ Retryable(rows[u]) -> "waiting"
    [] rows[u].status = "in_progress" -> "leased"
    [] rows[u].status = "completed" -> "done"
    [] rows[u].status = "failed" /\ ~ Retryable(rows[u]) -> "dead"

Lease == INSTANCE LeaseQueue
  WITH Items <- Urls, BannedItems <- UolUrls, item <- [u \in Urls |-> ItemState(u)]

(* RssExtraction implements LeaseQueue: no call of any run, in any         *)
(* interleaving, hands out a finished or given-up URL, finishes a URL      *)
(* nobody holds, or takes a held one from the table.                       *)
LeaseSpec == Lease!Spec

(* No claim is lost: a URL in_progress does not stay so for ever, whatever *)
(* became of the run that claimed it.                                      *)
ClaimReleased ==
  \A u \in Urls : rows[u].status = "in_progress" ~> rows[u].status # "in_progress"

(* A dated URL does not wait for ever, pending or failed with budget left: *)
(* if newer URLs keep overtaking it under the LIMIT, or every run finds    *)
(* nothing pending and so never reaches stage 2b, purge_old_pending ends   *)
(* its wait.                                                               *)
Waiting(u) == rows[u].status = "pending" \/ Retryable(rows[u])
DatedUrlServed == \A u \in Urls \ Undated : Waiting(u) ~> ~ Waiting(u)
=============================================================================
