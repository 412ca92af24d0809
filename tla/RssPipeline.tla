---------------------------- MODULE RssPipeline ----------------------------
(***************************************************************************)
(* What an RSS run does with the articles it extracted: run_pipeline from  *)
(* the claim to the exit code.  The frontier is seen as the LeaseQueue     *)
(* that RssExtraction implements.  Runs report a URL as completed first and*)
(* persist its article afterwards, layer by layer (raw, silver, gold), each*)
(* layer behind a quality gate, first to the lake and then to the          *)
(* warehouse, and then, without a gate, what a candidate classifier makes  *)
(* of the gold articles (shadow); a run may die between any two steps.     *)
(***************************************************************************)
EXTENDS Naturals, FiniteSets

CONSTANTS
  Runs,      \* executions that may overlap
  Urls,
  HashOf,    \* content_hash of the article at each URL
  CanonOf,   \* canonicalize_url of each URL
  StoryOf,   \* joins URLs that agree on either, directly or through others
  Relevant,  \* URLs of articles with is_rn_relevant
  Scored     \* a candidate classifier is configured (shadow_scorer)

ASSUME StoryAssumption ==
  \A u, v \in Urls :
    HashOf[u] = HashOf[v] \/ CanonOf[u] = CanonOf[v] => StoryOf[u] = StoryOf[v]
ASSUME RelevantAssumption == Relevant \subseteq Urls /\ Scored \in BOOLEAN

Layers == {"raw", "silver", "gold", "shadow"}
Tables == {"silver", "gold", "shadow"}

VARIABLES
  item,       \* the frontier: waiting, leased or done (a URL that was given up
              \* waits, and no run is obliged to claim it)
  run,        \* the state of each run
  lake,       \* articles in the silver layer of the lake, by their URL
  warehouse,  \* articles in the silver, gold and shadow tables (the raw
              \* layer, and the lake's others, are written and not read here)
  dropped     \* history: articles a run still had to write to silver when it
              \* died or a gate stopped it

vars == <<item, run, lake, warehouse, dropped>>

Hashes(S) == {HashOf[u] : u \in S}
OnePerHash(S) ==
  {T \in SUBSET S : /\ Hashes(T) = Hashes(S)
                    /\ \A u, v \in T : u # v => HashOf[u] # HashOf[v]}
Done == {u \in Urls : item[u] = "done"}

(* known: what Deduplicator loaded.  failed: failed_loads.  exit, saved:   *)
(* how the last execution of this process ended.                           *)
NotRunning(exit, failed, saved, articles) ==
  [stage |-> "idle", layer |-> "raw", batch |-> {}, articles |-> articles,
   known |-> {}, failed |-> failed, exit |-> exit, saved |-> saved]

Idle == NotRunning(0, {}, FALSE, {})

Live(w) == run[w].stage # "idle"

Become(w, r) == run' = [run EXCEPT ![w] = r]

\* The end of an execution.  An exception and a kill exit with 1.
End(w, exit, saved) ==
  Become(w, NotRunning(exit, run[w].failed, saved,
                       IF saved THEN run[w].articles ELSE {}))

\* The run reported URLs as completed and has not written their articles.
BeforeSilver(w) ==
  \/ run[w].layer = "raw" /\ run[w].stage \in {"retry", "gate", "write", "load", "dedup"}
  \/ run[w].layer = "silver" /\ run[w].stage \in {"gate", "write"}

\* What w was still to write is lost, unless it is recirculated one day.
Drop(w) == dropped' = IF BeforeSilver(w) THEN dropped \cup run[w].articles ELSE dropped

-----------------------------------------------------------------------------
\* "No pending URLs" (those that failed before may be waiting): a success.
NothingPending(w) ==
  /\ ~ Live(w)
  /\ Become(w, NotRunning(0, {}, TRUE, {}))
  /\ UNCHANGED <<item, lake, warehouse, dropped>>

Claim(w) ==
  /\ ~ Live(w)
  /\ \E S \in SUBSET {u \in Urls : item[u] = "waiting"} :
       /\ S # {}
       /\ item' = [u \in Urls |-> IF u \in S THEN "leased" ELSE item[u]]
       /\ Become(w, [Idle EXCEPT !.stage = "scrape", !.batch = S])
  /\ UNCHANGED <<lake, warehouse, dropped>>

\* scrape_batch, and then Deduplicator.load_existing_*: before this run
\* reports anything.
Scrape(w) ==
  /\ run[w].stage = "scrape"
  /\ \E scraped \in SUBSET run[w].batch :
       Become(w, [run[w] EXCEPT !.stage = "report", !.articles = scraped, !.known = Done])
  /\ UNCHANGED <<item, lake, warehouse, dropped>>

\* An article that came back under a redirect target does not complete its
\* URL, but is persisted all the same.
Report(w) ==
  /\ run[w].stage = "report"
  /\ \E done \in SUBSET run[w].articles :
       item' = [u \in Urls |-> IF u \in done THEN "done"
                               ELSE IF u \in run[w].batch THEN "waiting" ELSE item[u]]
  /\ Become(w, [run[w] EXCEPT !.stage = "retry", !.batch = {}])
  /\ UNCHANGED <<lake, warehouse, dropped>>

\* Stage 2b claims, scrapes and reports failed URLs; those it gets an article
\* for are "again".  What is known stays what was loaded before.  Then one
\* article per content hash is kept, and a run without articles ends here.
Retry(w) ==
  /\ run[w].stage = "retry"
  /\ \E again \in SUBSET {u \in Urls : item[u] = "waiting"} :
     \E done \in SUBSET again :
     \E kept \in OnePerHash(run[w].articles \cup again) :
       /\ item' = [u \in Urls |-> IF u \in done THEN "done" ELSE item[u]]
       /\ IF kept = {} THEN End(w, 0, TRUE)
          ELSE Become(w, [run[w] EXCEPT !.stage = "gate", !.articles = kept])
  /\ UNCHANGED <<lake, warehouse, dropped>>

\* What the present layer is to hold.
Rows(w) ==
  IF run[w].layer \in {"gold", "shadow"} THEN run[w].articles \cap Relevant
  ELSE run[w].articles

Passed(r) == [r EXCEPT !.stage = "write"]

AfterLayer(r) ==
  CASE r.layer = "raw" -> [r EXCEPT !.stage = "dedup"]
    [] r.layer = "silver" -> [r EXCEPT !.stage = "gate", !.layer = "gold"]
    [] r.layer = "gold" /\ Scored -> [r EXCEPT !.stage = "write", !.layer = "shadow"]
    [] OTHER -> [r EXCEPT !.stage = "finish"]

\* Without rows a layer is left out, and there is nothing to compare.
Skipped(r) ==
  IF r.layer = "gold" THEN [r EXCEPT !.stage = "finish"] ELSE AfterLayer(r)

\* validate_raw, validate_silver, validate_gold.
Gate(w) ==
  /\ run[w].stage = "gate"
  /\ Become(w, IF Rows(w) = {} THEN Skipped(run[w]) ELSE Passed(run[w]))
  /\ UNCHANGED <<item, lake, warehouse, dropped>>

GateFailsLogged(w) ==
  /\ run[w].stage = "gate" /\ Rows(w) # {}
  /\ Become(w, AfterLayer(run[w]))
  /\ UNCHANGED <<item, lake, warehouse, dropped>>

\* A failed raw or silver gate returns from run_pipeline, past the exit code
\* for failed loads; a failed gold gate is only logged.
GateFails(w) ==
  /\ run[w].stage = "gate" /\ Rows(w) # {}
  /\ IF run[w].layer = "gold"
     THEN Become(w, AfterLayer(run[w])) /\ UNCHANGED dropped
     ELSE End(w, 0, FALSE) /\ Drop(w)
  /\ UNCHANGED <<item, lake, warehouse>>

Write(w) ==
  /\ run[w].stage = "write"
  /\ lake' = IF run[w].layer = "silver" THEN lake \cup Rows(w) ELSE lake
  /\ Become(w, [run[w] EXCEPT !.stage = "load"])
  /\ UNCHANGED <<item, warehouse, dropped>>

\* With a merge key the rows go through a staging table: one row of each key
\* replaces the row of that key.
Merged(table, rows) == {u \in table : HashOf[u] \notin Hashes(rows)} \cup rows
Appended(table, rows) == table \cup rows

Loaded(w) ==
  \E rows \in OnePerHash(Rows(w)) :
    warehouse' = [l \in Tables |->
      IF l # run[w].layer THEN warehouse[l]
      ELSE IF l = "shadow" THEN Appended(warehouse[l], Rows(w))
      ELSE Merged(warehouse[l], rows)]

LoadSucceeds(w) ==
  /\ run[w].stage = "load"
  /\ Loaded(w)
  /\ Become(w, AfterLayer(run[w]))
  /\ UNCHANGED <<item, lake, dropped>>

\* _load_to_warehouse catches everything and notes the table, although what
\* failed may only be the removal of the staging table after the merge.
LoadFails(w) ==
  /\ run[w].stage = "load"
  /\ UNCHANGED warehouse \/ (run[w].layer # "shadow" /\ Loaded(w))
  /\ Become(w, AfterLayer([run[w] EXCEPT !.failed = @ \cup {run[w].layer}]))
  /\ UNCHANGED <<item, lake, dropped>>

KnownNow(w) == Done
KnownTo(w) == run[w].known

Duplicates(u, v) == HashOf[u] = HashOf[v] \/ CanonOf[u] = CanonOf[v]

\* deduplicate keeps, in some order, each article that duplicates neither a
\* completed URL nor one kept before.
Dedup(w) ==
  /\ run[w].stage = "dedup"
  /\ \E kept \in SUBSET run[w].articles :
       /\ \A u \in kept : \A v \in (kept \ {u}) \cup KnownTo(w) : ~ Duplicates(u, v)
       /\ \A u \in run[w].articles \ kept : \E v \in kept \cup KnownTo(w) : Duplicates(u, v)
       /\ Become(w, [run[w] EXCEPT !.stage = "gate", !.layer = "silver", !.articles = kept,
                                      !.known = {}])
  /\ UNCHANGED <<item, lake, warehouse, dropped>>

SavedRegardless(r) == TRUE
SavedAtEnd(r) == r.failed = {}

CountedExit(r) == Cardinality(r.failed)
ExitCode(r) == IF r.failed = {} THEN 0 ELSE 2

\* The watermark is saved in the finally block, the exit code comes after it.
Finish(w) ==
  /\ run[w].stage = "finish"
  /\ End(w, ExitCode(run[w]), SavedAtEnd(run[w]))
  /\ UNCHANGED <<item, lake, warehouse, dropped>>

\* Killed, or an exception that nothing catches.
Abort(w) ==
  /\ Live(w)
  /\ End(w, 1, FALSE)
  /\ Drop(w)
  /\ UNCHANGED <<item, lake, warehouse>>

\* The frontier by itself: discovery, expiry of a dead run's claims, and
\* recirculation.
Wait(u) ==
  /\ \/ item[u] = "leased" /\ \A w \in Runs : u \notin run[w].batch
     \/ item[u] = "done"
  /\ item' = [item EXCEPT ![u] = "waiting"]
  /\ UNCHANGED <<run, lake, warehouse, dropped>>

Init ==
  /\ item = [u \in Urls |-> "waiting"]
  /\ run = [w \in Runs |-> Idle]
  /\ lake = {}
  /\ warehouse = [t \in Tables |-> {}]
  /\ dropped = {}

Step(w) ==
  \/ NothingPending(w) \/ Claim(w) \/ Scrape(w) \/ Report(w) \/ Retry(w)
  \/ Gate(w) \/ GateFails(w) \/ Write(w) \/ LoadSucceeds(w) \/ LoadFails(w)
  \/ Dedup(w) \/ Finish(w) \/ Abort(w)

Next == (\E w \in Runs : Step(w)) \/ (\E u \in Urls : Wait(u))

Spec == Init /\ [][Next]_vars

TypeOK ==
  /\ item \in [Urls -> {"waiting", "leased", "done"}]
  /\ run \in [Runs -> [stage : {"idle", "scrape", "report", "retry", "gate", "write",
                                "load", "dedup", "finish"},
                       layer : Layers, batch : SUBSET Urls, articles : SUBSET Urls,
                       known : SUBSET Urls, failed : SUBSET Layers,
                       exit : 0 .. 2, saved : BOOLEAN]]
  /\ lake \subseteq Urls
  /\ warehouse \in [Tables -> SUBSET Urls]
  /\ dropped \subseteq Urls
-----------------------------------------------------------------------------
(* No completed URL is silently lost: its story is in the silver layer, or *)
(* in the hands of a run that has yet to write it, or was with a run that  *)
(* died or was stopped by a gate.  In particular two runs never discard    *)
(* their articles as duplicates of each other, which is what loading the   *)
(* known hashes before reporting is for.                                   *)
NoSilentLoss ==
  \A u \in Done : \E v \in Urls :
    /\ StoryOf[v] = StoryOf[u]
    /\ \/ v \in lake \cup dropped
       \/ \E w \in Runs : BeforeSilver(w) /\ v \in run[w].articles

Ended(w) == run[w].stage = "idle"

(* A run that saves the watermark has the texts of its silver articles in  *)
(* the warehouse, whatever other runs merge over them.                     *)
WatermarkAfterSilver ==
  \A w \in Runs :
    Ended(w) /\ run[w].saved => Hashes(run[w].articles) \subseteq Hashes(warehouse["silver"])

(* The gold and shadow tables hold nothing that is not in the silver layer *)
(* of the lake, although a failed gold gate does not stop a run and the    *)
(* loads of the tables fail independently.                                 *)
GoldIsBacked == warehouse["gold"] \cup warehouse["shadow"] \subseteq lake
=============================================================================
