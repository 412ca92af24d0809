-------------------------- MODULE RssPipeline_proof --------------------------
(***************************************************************************)
(* Proofs about RssPipeline: that no completed URL is silently lost, that  *)
(* the watermark is saved only with the silver articles in the warehouse,  *)
(* and that gold and shadow rows are backed by the silver layer of the     *)
(* lake, for any number of runs and URLs.                                  *)
(***************************************************************************)
EXTENDS RssPipeline, TLAPS

Stages == {"idle", "scrape", "report", "retry", "gate", "write", "load", "dedup", "finish"}
Run == [stage : Stages, layer : Layers, batch : SUBSET Urls, articles : SUBSET Urls,
        known : SUBSET Urls, failed : SUBSET Layers, exit : 0 .. 2, saved : BOOLEAN]

(* What is true of one run r by itself, in front of the silver layer of    *)
(* the lake and the silver table.                                          *)
StagedByLayer(r) ==
  /\ r.stage \in {"idle", "scrape", "report", "retry", "dedup"} => r.layer = "raw"
  /\ r.stage = "finish" => r.layer \in {"gold", "shadow"}

PastLake(r) == r.layer \in {"gold", "shadow"} \/ (r.layer = "silver" /\ r.stage = "load")

InTable(r, silver) == Hashes(r.articles) \subseteq Hashes(silver)

RunOK(r, silverLake, silver) ==
  /\ StagedByLayer(r)
  /\ PastLake(r) => r.articles \subseteq silverLake
  /\ r.layer \in {"gold", "shadow"} /\ "silver" \notin r.failed => InTable(r, silver)
  /\ r.stage = "idle" /\ r.saved => InTable(r, silver)

(* The articles that r has still to write to the silver layer.             *)
Held(r) ==
  {u \in r.articles :
     \/ r.layer = "raw" /\ r.stage \in {"retry", "gate", "write", "load", "dedup"}
     \/ r.layer = "silver" /\ r.stage \in {"gate", "write"}}

(* The story of u is in one of the places, or held by a run of S.          *)
Covered(u, places, runs, S) ==
  \E v \in Urls : /\ StoryOf[v] = StoryOf[u]
                  /\ v \in places \/ \E w \in S : v \in Held(runs[w])

StrictOrder(R) ==
  /\ \A x \in Runs : <<x, x>> \notin R
  /\ \A x, y, z \in Runs : <<x, y>> \in R /\ <<y, z>> \in R => <<x, z>> \in R
Before(R, w) == {x \in Runs : <<x, w>> \in R}

(* The runs can be put in an order in which each one's known URLs are      *)
(* covered by runs before it: then no two runs can each discard their      *)
(* articles as duplicates of what only the other one holds.                *)
KnownAreCovered(R) ==
  /\ StrictOrder(R)
  /\ \A w \in Runs : \A k \in run[w].known : Covered(k, lake \cup dropped, run, Before(R, w))

PipelineInv ==
  /\ TypeOK
  /\ \A w \in Runs : RunOK(run[w], lake, warehouse["silver"])
  /\ GoldIsBacked
  /\ NoSilentLoss
  /\ \E R \in SUBSET (Runs \X Runs) : KnownAreCovered(R)

-----------------------------------------------------------------------------
(* Records with one field set; several are set one after the other.        *)
WithStage(r, s) == [r EXCEPT !.stage = s]
WithLayer(r, l) == [r EXCEPT !.layer = l]
WithArticles(r, S) == [r EXCEPT !.articles = S]
WithBatch(r, S) == [r EXCEPT !.batch = S]
WithKnown(r, S) == [r EXCEPT !.known = S]
WithFailed(r, S) == [r EXCEPT !.failed = S]

LEMMA StageSet ==
  ASSUME NEW r \in Run, NEW s \in Stages
  PROVE  /\ WithStage(r, s) \in Run /\ WithStage(r, s).stage = s
         /\ WithStage(r, s).layer = r.layer /\ WithStage(r, s).articles = r.articles
         /\ WithStage(r, s).known = r.known /\ WithStage(r, s).failed = r.failed
         /\ WithStage(r, s).batch = r.batch /\ WithStage(r, s).saved = r.saved
<1> QED BY DEF WithStage, Run

LEMMA LayerSet ==
  ASSUME NEW r \in Run, NEW l \in Layers
  PROVE  /\ WithLayer(r, l) \in Run /\ WithLayer(r, l).layer = l
         /\ WithLayer(r, l).stage = r.stage /\ WithLayer(r, l).articles = r.articles
         /\ WithLayer(r, l).known = r.known /\ WithLayer(r, l).failed = r.failed
         /\ WithLayer(r, l).batch = r.batch /\ WithLayer(r, l).saved = r.saved
<1> QED BY DEF WithLayer, Run

LEMMA ArticlesSet ==
  ASSUME NEW r \in Run, NEW S \in SUBSET Urls
  PROVE  /\ WithArticles(r, S) \in Run /\ WithArticles(r, S).articles = S
         /\ WithArticles(r, S).stage = r.stage /\ WithArticles(r, S).layer = r.layer
         /\ WithArticles(r, S).known = r.known /\ WithArticles(r, S).failed = r.failed
<1> QED BY DEF WithArticles, Run

LEMMA KnownSet ==
  ASSUME NEW r \in Run, NEW S \in SUBSET Urls
  PROVE  /\ WithKnown(r, S) \in Run /\ WithKnown(r, S).known = S
         /\ WithKnown(r, S).stage = r.stage /\ WithKnown(r, S).layer = r.layer
         /\ WithKnown(r, S).articles = r.articles /\ WithKnown(r, S).failed = r.failed
<1> QED BY DEF WithKnown, Run

LEMMA BatchSet ==
  ASSUME NEW r \in Run, NEW S \in SUBSET Urls
  PROVE  /\ WithBatch(r, S) \in Run
         /\ WithBatch(r, S).stage = r.stage /\ WithBatch(r, S).layer = r.layer
         /\ WithBatch(r, S).articles = r.articles /\ WithBatch(r, S).failed = r.failed
         /\ WithBatch(r, S).known = r.known
<1> QED BY DEF WithBatch, Run

LEMMA FailedSet ==
  ASSUME NEW r \in Run, NEW S \in SUBSET Layers
  PROVE  /\ WithFailed(r, S) \in Run /\ WithFailed(r, S).failed = S
         /\ WithFailed(r, S).stage = r.stage /\ WithFailed(r, S).layer = r.layer
         /\ WithFailed(r, S).articles = r.articles /\ WithFailed(r, S).known = r.known
<1> QED BY DEF WithFailed, Run

(* Where a run goes on after a layer.                                      *)
LEMMA AfterLayerIs ==
  ASSUME NEW r \in Run
  PROVE  /\ r.layer = "raw" => AfterLayer(r) = WithStage(r, "dedup")
         /\ r.layer = "silver" => AfterLayer(r) = WithLayer(WithStage(r, "gate"), "gold")
         /\ r.layer = "gold" /\ Scored => AfterLayer(r) = WithLayer(WithStage(r, "write"), "shadow")
         /\ r.layer = "gold" /\ ~Scored => AfterLayer(r) = WithStage(r, "finish")
         /\ r.layer = "shadow" => AfterLayer(r) = WithStage(r, "finish")
<1>1. ASSUME r.layer = "raw" PROVE AfterLayer(r) = WithStage(r, "dedup")
  BY <1>1 DEF AfterLayer, WithStage
<1>2. ASSUME r.layer = "silver" PROVE AfterLayer(r) = WithLayer(WithStage(r, "gate"), "gold")
  BY <1>2 DEF AfterLayer, WithStage, WithLayer
<1>3. ASSUME r.layer = "gold", Scored
      PROVE  AfterLayer(r) = WithLayer(WithStage(r, "write"), "shadow")
  BY <1>3 DEF AfterLayer, WithStage, WithLayer
<1>4. ASSUME r.layer = "gold", ~Scored PROVE AfterLayer(r) = WithStage(r, "finish")
  BY <1>4 DEF AfterLayer, WithStage
<1>5. ASSUME r.layer = "shadow" PROVE AfterLayer(r) = WithStage(r, "finish")
  BY <1>5 DEF AfterLayer, WithStage
<1> QED BY <1>1, <1>2, <1>3, <1>4, <1>5

LEMMA AfterLayerKeeps ==
  ASSUME NEW r \in Run
  PROVE  /\ AfterLayer(r) \in Run
         /\ AfterLayer(r).articles = r.articles /\ AfterLayer(r).failed = r.failed
         /\ AfterLayer(r).known = r.known
         /\ r.layer = "raw" => AfterLayer(r).layer = "raw" /\ AfterLayer(r).stage = "dedup"
         /\ r.layer = "silver" => AfterLayer(r).layer = "gold" /\ AfterLayer(r).stage = "gate"
         /\ r.layer \in {"gold", "shadow"} =>
              /\ AfterLayer(r).layer \in {"gold", "shadow"}
              /\ AfterLayer(r).stage \in {"write", "finish"}
<1>1. {"dedup", "gate", "write", "finish"} \subseteq Stages /\ {"gold", "shadow"} \subseteq Layers
  BY DEF Stages, Layers
<1>2. r.layer \in Layers
  BY DEF Run
<1>3. CASE r.layer = "raw"
  <2> DEFINE q == WithStage(r, "dedup")
  <2>1. /\ q \in Run /\ q.stage = "dedup" /\ q.articles = r.articles
        /\ q.failed = r.failed /\ q.known = r.known /\ q.layer = r.layer
    BY <1>1, StageSet
  <2>2. AfterLayer(r) = q
    BY <1>3, AfterLayerIs
  <2> HIDE DEF q
  <2> QED BY <1>3, <2>1, <2>2
<1>4. CASE r.layer = "silver"
  <2> DEFINE q == WithStage(r, "gate")
  <2>1. /\ q \in Run /\ q.stage = "gate" /\ q.articles = r.articles
        /\ q.failed = r.failed /\ q.known = r.known
    BY <1>1, StageSet
  <2>2. AfterLayer(r) = WithLayer(q, "gold")
    BY <1>4, AfterLayerIs
  <2> HIDE DEF q
  <2>3. /\ WithLayer(q, "gold") \in Run /\ WithLayer(q, "gold").stage = q.stage
        /\ WithLayer(q, "gold").layer = "gold" /\ WithLayer(q, "gold").articles = q.articles
        /\ WithLayer(q, "gold").failed = q.failed /\ WithLayer(q, "gold").known = q.known
    BY <1>1, <2>1, LayerSet
  <2> QED BY <1>4, <2>1, <2>2, <2>3
<1>5. CASE r.layer = "gold" /\ Scored
  <2> DEFINE q == WithStage(r, "write")
  <2>1. /\ q \in Run /\ q.stage = "write" /\ q.articles = r.articles
        /\ q.failed = r.failed /\ q.known = r.known
    BY <1>1, StageSet
  <2>2. AfterLayer(r) = WithLayer(q, "shadow")
    BY <1>5, AfterLayerIs
  <2> HIDE DEF q
  <2>3. /\ WithLayer(q, "shadow") \in Run /\ WithLayer(q, "shadow").stage = q.stage
        /\ WithLayer(q, "shadow").layer = "shadow" /\ WithLayer(q, "shadow").articles = q.articles
        /\ WithLayer(q, "shadow").failed = q.failed /\ WithLayer(q, "shadow").known = q.known
    BY <1>1, <2>1, LayerSet
  <2> QED BY <1>5, <2>1, <2>2, <2>3
<1>6. CASE (r.layer = "gold" /\ ~Scored) \/ r.layer = "shadow"
  <2> DEFINE q == WithStage(r, "finish")
  <2>1. /\ q \in Run /\ q.stage = "finish" /\ q.articles = r.articles
        /\ q.failed = r.failed /\ q.known = r.known /\ q.layer = r.layer
    BY <1>1, StageSet
  <2>2. AfterLayer(r) = q
    BY <1>6, AfterLayerIs
  <2> HIDE DEF q
  <2> QED BY <1>6, <2>1, <2>2
<1> QED BY <1>2, <1>3, <1>4, <1>5, <1>6 DEF Layers

-----------------------------------------------------------------------------
(* What a step of w that leaves its record as r does to the rest.          *)
StoryIn(u, places) == \E v \in places : v \in Urls /\ StoryOf[v] = StoryOf[u]

Effect(w, r) ==
  /\ run' = [run EXCEPT ![w] = r]
  /\ item' \in [Urls -> {"waiting", "leased", "done"}]
  /\ lake \subseteq lake' /\ lake' \subseteq Urls
  /\ dropped \subseteq dropped' /\ dropped' \subseteq Urls
  /\ warehouse' \in [Tables -> SUBSET Urls]
  /\ Hashes(warehouse["silver"]) \subseteq Hashes(warehouse'["silver"])
  /\ RunOK(r, lake', warehouse'["silver"])
  /\ GoldIsBacked'
  /\ \A z \in Held(run[w]) : StoryIn(z, lake' \cup dropped' \cup Held(r) \cup run[w].known)
  /\ \A u \in Done' \ Done : StoryIn(u, Held(r))
  /\ \/ r.known = {} \/ r.known = run[w].known
     \/ r.known = Done /\ Held(run[w]) = {} /\ Done' = Done

(* What the invariant says of w's record.                                  *)
LEMMA Records ==
  ASSUME PipelineInv, NEW w \in Runs
  PROVE  /\ run[w] \in Run /\ run \in [Runs -> Run]
         /\ RunOK(run[w], lake, warehouse["silver"])
         /\ Held(run[w]) \subseteq run[w].articles
         /\ run[w].articles \subseteq Urls /\ run[w].known \subseteq Urls
<1>1. run \in [Runs -> Run]
  BY DEF PipelineInv, TypeOK, Run, Stages
<1>2. run[w] \in Run
  BY <1>1
<1> QED BY <1>1, <1>2 DEF PipelineInv, Held, Run

LEMMA QuietEffect ==
  ASSUME PipelineInv, NEW w \in Runs, NEW r \in Run,
         UNCHANGED <<item, lake, warehouse, dropped>>,
         run' = [run EXCEPT ![w] = r],
         RunOK(r, lake, warehouse["silver"]),
         \A z \in Held(run[w]) : StoryIn(z, lake \cup dropped \cup Held(r) \cup run[w].known),
         \/ r.known = {} \/ r.known = run[w].known
         \/ r.known = Done /\ Held(run[w]) = {}
  PROVE  Effect(w, r)
<1>1. Done' = Done
  BY DEF Done
<1>2. GoldIsBacked'
  BY DEF PipelineInv, GoldIsBacked
<1>3. /\ item' \in [Urls -> {"waiting", "leased", "done"}]
      /\ lake' \subseteq Urls /\ dropped' \subseteq Urls
      /\ warehouse' \in [Tables -> SUBSET Urls]
  BY DEF PipelineInv, TypeOK
<1> QED BY <1>1, <1>2, <1>3 DEF Effect

(* Who is in a place has a story there.                                    *)
LEMMA OwnStory ==
  ASSUME NEW S \in SUBSET Urls, NEW P, S \subseteq P
  PROVE  \A z \in S : StoryIn(z, P)
<1> QED BY DEF StoryIn

(* One article per hash keeps every story.                                 *)
LEMMA OnePerHashKeepsStories ==
  ASSUME NEW S \in SUBSET Urls, NEW T \in OnePerHash(S)
  PROVE  /\ T \subseteq S /\ Hashes(T) = Hashes(S)
         /\ \A z \in S : StoryIn(z, T)
         /\ T = {} => S = {}
<1>1. T \in SUBSET S /\ Hashes(T) = Hashes(S)
  BY DEF OnePerHash
<1>2. ASSUME NEW z \in S PROVE \E v \in T : HashOf[v] = HashOf[z]
  BY <1>1 DEF Hashes
<1>3. ASSUME NEW z \in S PROVE StoryIn(z, T)
  BY <1>1, <1>2, StoryAssumption DEF StoryIn
<1> QED BY <1>1, <1>2, <1>3

-----------------------------------------------------------------------------
LEMMA EndsQuietly ==
  ASSUME PipelineInv, NEW w \in Runs, NEW e \in 0 .. 2, NEW F \in SUBSET Layers,
         NEW b \in BOOLEAN, NEW S \in SUBSET Urls,
         b => InTable(NotRunning(e, F, b, S), warehouse["silver"])
  PROVE  /\ NotRunning(e, F, b, S) \in Run
         /\ RunOK(NotRunning(e, F, b, S), lake, warehouse["silver"])
         /\ NotRunning(e, F, b, S).known = {} /\ Held(NotRunning(e, F, b, S)) = {}
<1> DEFINE r == NotRunning(e, F, b, S)
<1>1. /\ r \in Run /\ r.stage = "idle" /\ r.layer = "raw"
      /\ r.known = {} /\ r.articles = S /\ r.saved = b
  BY DEF NotRunning, Run, Stages, Layers
<1>2. b => InTable(r, warehouse["silver"])
  OBVIOUS
<1> HIDE DEF r
<1>3. RunOK(r, lake, warehouse["silver"]) /\ Held(r) = {}
  BY <1>1, <1>2 DEF RunOK, StagedByLayer, PastLake, Held
<1> QED BY <1>1, <1>3 DEF r

LEMMA NothingPendingEffect ==
  ASSUME PipelineInv, NEW w \in Runs, NothingPending(w)
  PROVE  \E r \in Run : Effect(w, r)
<1> DEFINE r == NotRunning(0, {}, TRUE, {})
<1>1. r.articles = {} /\ 0 \in 0 .. 2 /\ {} \in SUBSET Layers /\ TRUE \in BOOLEAN
  BY DEF NotRunning
<1>2. InTable(r, warehouse["silver"])
  BY <1>1 DEF InTable, Hashes
<1>3. r \in Run /\ RunOK(r, lake, warehouse["silver"]) /\ r.known = {} /\ Held(r) = {}
  BY <1>1, <1>2, EndsQuietly
<1>4. Held(run[w]) = {}
  <2>1. run[w].stage = "idle"
    BY DEF NothingPending, Live
  <2> QED BY <2>1, Records DEF RunOK, StagedByLayer, Held
<1>5. run' = [run EXCEPT ![w] = r] /\ UNCHANGED <<item, lake, warehouse, dropped>>
  BY DEF NothingPending, Become
<1> HIDE DEF r
<1> QED BY <1>3, <1>4, <1>5, QuietEffect

LEMMA ClaimEffect ==
  ASSUME PipelineInv, NEW w \in Runs, Claim(w)
  PROVE  \E r \in Run : Effect(w, r)
<1>1. PICK S \in SUBSET {u \in Urls : item[u] = "waiting"} :
        /\ item' = [u \in Urls |-> IF u \in S THEN "leased" ELSE item[u]]
        /\ Become(w, [Idle EXCEPT !.stage = "scrape", !.batch = S])
  BY DEF Claim
<1> DEFINE i == WithStage(Idle, "scrape")
           r == WithBatch(i, S)
<1>2. /\ Idle \in Run /\ Idle.layer = "raw" /\ Idle.known = {}
  BY DEF Idle, NotRunning, Run, Stages, Layers
<1>3. i \in Run /\ i.stage = "scrape" /\ i.layer = "raw" /\ i.known = {}
  <2>1. "scrape" \in Stages
    BY DEF Stages
  <2> QED BY <1>2, <2>1, StageSet
<1>4. run' = [run EXCEPT ![w] = r]
  BY <1>1 DEF Become, WithStage, WithBatch
<1> HIDE DEF i
<1>5. r \in Run /\ r.stage = "scrape" /\ r.layer = "raw" /\ r.known = {}
  BY <1>3, BatchSet
<1> HIDE DEF r
<1>6. RunOK(r, lake, warehouse["silver"]) /\ Held(r) = {}
  BY <1>5 DEF RunOK, StagedByLayer, PastLake, Held
<1>7. Held(run[w]) = {}
  <2>1. run[w].stage = "idle"
    BY DEF Claim, Live
  <2> QED BY <2>1, Records DEF RunOK, StagedByLayer, Held
<1>8. item' \in [Urls -> {"waiting", "leased", "done"}] /\ Done' \subseteq Done
  BY <1>1 DEF PipelineInv, TypeOK, Done
<1>9. /\ UNCHANGED <<lake, warehouse, dropped>>
      /\ lake \subseteq Urls /\ dropped \subseteq Urls /\ warehouse \in [Tables -> SUBSET Urls]
      /\ GoldIsBacked'
  BY DEF Claim, PipelineInv, TypeOK, GoldIsBacked
<1> QED BY <1>4, <1>5, <1>6, <1>7, <1>8, <1>9 DEF Effect

LEMMA ScrapeEffect ==
  ASSUME PipelineInv, NEW w \in Runs, Scrape(w)
  PROVE  \E r \in Run : Effect(w, r)
<1>1. PICK S \in SUBSET run[w].batch :
        Become(w, [run[w] EXCEPT !.stage = "report", !.articles = S, !.known = Done])
  BY DEF Scrape
<1> DEFINE i == WithStage(run[w], "report")
           j == WithArticles(i, S)
           r == WithKnown(j, Done)
<1>2. run[w] \in Run /\ S \in SUBSET Urls /\ Done \in SUBSET Urls
  BY Records DEF Run, Done
<1>3. i \in Run /\ i.stage = "report" /\ i.layer = run[w].layer
  <2>1. "report" \in Stages
    BY DEF Stages
  <2> QED BY <1>2, <2>1, StageSet
<1>4. run' = [run EXCEPT ![w] = r]
  BY <1>1 DEF Become, WithStage, WithArticles, WithKnown
<1> HIDE DEF i
<1>5. j \in Run /\ j.stage = "report" /\ j.layer = run[w].layer
  BY <1>2, <1>3, ArticlesSet
<1> HIDE DEF j
<1>6. r \in Run /\ r.stage = "report" /\ r.layer = run[w].layer /\ r.known = Done
  BY <1>2, <1>5, KnownSet
<1> HIDE DEF r
<1>7. run[w].stage = "scrape" /\ run[w].layer = "raw" /\ Held(run[w]) = {}
  BY Records DEF Scrape, RunOK, StagedByLayer, Held
<1>8. RunOK(r, lake, warehouse["silver"])
  BY <1>6, <1>7 DEF RunOK, StagedByLayer, PastLake
<1>9. UNCHANGED <<item, lake, warehouse, dropped>>
  BY DEF Scrape
<1> QED BY <1>4, <1>6, <1>7, <1>8, <1>9, QuietEffect

LEMMA ReportEffect ==
  ASSUME PipelineInv, NEW w \in Runs, Report(w)
  PROVE  \E r \in Run : Effect(w, r)
<1>1. PICK done \in SUBSET run[w].articles :
        item' = [u \in Urls |-> IF u \in done THEN "done"
                                ELSE IF u \in run[w].batch THEN "waiting" ELSE item[u]]
  BY DEF Report
<1> DEFINE i == WithStage(run[w], "retry")
           r == WithBatch(i, {})
<1>2. /\ i \in Run /\ i.stage = "retry" /\ i.layer = run[w].layer
      /\ i.articles = run[w].articles /\ i.known = run[w].known
  <2>1. "retry" \in Stages
    BY DEF Stages
  <2> QED BY <2>1, Records, StageSet
<1>3. run' = [run EXCEPT ![w] = r]
  BY DEF Report, Become, WithStage, WithBatch
<1> HIDE DEF i
<1>4. /\ r \in Run /\ r.stage = "retry" /\ r.layer = run[w].layer
      /\ r.articles = run[w].articles /\ r.known = run[w].known
  BY <1>2, BatchSet
<1> HIDE DEF r
<1>5. run[w].stage = "report" /\ run[w].layer = "raw" /\ Held(run[w]) = {}
  BY Records DEF Report, RunOK, StagedByLayer, Held
<1>6. RunOK(r, lake, warehouse["silver"]) /\ Held(r) = run[w].articles
  BY <1>4, <1>5 DEF RunOK, StagedByLayer, PastLake, Held
<1>7. item' \in [Urls -> {"waiting", "leased", "done"}] /\ Done' \subseteq Done \cup done
  BY <1>1 DEF PipelineInv, TypeOK, Done
<1>8. \A u \in Done' \ Done : StoryIn(u, Held(r))
  <2>1. done \subseteq Held(r) /\ done \in SUBSET Urls
    BY <1>6, Records
  <2> QED BY <1>7, <2>1, OwnStory
<1>9. /\ UNCHANGED <<lake, warehouse, dropped>>
      /\ lake \subseteq Urls /\ dropped \subseteq Urls /\ warehouse \in [Tables -> SUBSET Urls]
      /\ GoldIsBacked'
  BY DEF Report, PipelineInv, TypeOK, GoldIsBacked
<1> QED BY <1>3, <1>4, <1>5, <1>6, <1>7, <1>8, <1>9 DEF Effect

LEMMA RetryEffect ==
  ASSUME PipelineInv, NEW w \in Runs, Retry(w)
  PROVE  \E r \in Run : Effect(w, r)
<1>1. PICK again \in SUBSET {u \in Urls : item[u] = "waiting"} :
        \E done \in SUBSET again : \E kept \in OnePerHash(run[w].articles \cup again) :
          /\ item' = [u \in Urls |-> IF u \in done THEN "done" ELSE item[u]]
          /\ IF kept = {} THEN End(w, 0, TRUE)
             ELSE Become(w, [run[w] EXCEPT !.stage = "gate", !.articles = kept])
  BY DEF Retry
<1>2. PICK done \in SUBSET again : \E kept \in OnePerHash(run[w].articles \cup again) :
        /\ item' = [u \in Urls |-> IF u \in done THEN "done" ELSE item[u]]
        /\ IF kept = {} THEN End(w, 0, TRUE)
           ELSE Become(w, [run[w] EXCEPT !.stage = "gate", !.articles = kept])
  BY <1>1
<1>3. PICK kept \in OnePerHash(run[w].articles \cup again) :
        /\ item' = [u \in Urls |-> IF u \in done THEN "done" ELSE item[u]]
        /\ IF kept = {} THEN End(w, 0, TRUE)
           ELSE Become(w, [run[w] EXCEPT !.stage = "gate", !.articles = kept])
  BY <1>2
<1>4. /\ kept \in SUBSET Urls /\ run[w].articles \cup again \in SUBSET Urls
      /\ \A z \in run[w].articles \cup again : StoryIn(z, kept)
      /\ kept = {} => run[w].articles = {} /\ done = {}
  <2>1. run[w].articles \cup again \in SUBSET Urls
    BY Records
  <2> QED BY <2>1, OnePerHashKeepsStories
<1>5. item' \in [Urls -> {"waiting", "leased", "done"}] /\ Done' \subseteq Done \cup done
  BY <1>3 DEF PipelineInv, TypeOK, Done
<1>6. run[w].layer = "raw" /\ run[w] \in Run /\ Held(run[w]) \subseteq run[w].articles
  BY Records DEF Retry, RunOK, StagedByLayer
<1>7. /\ UNCHANGED <<lake, warehouse, dropped>>
      /\ lake \subseteq Urls /\ dropped \subseteq Urls /\ warehouse \in [Tables -> SUBSET Urls]
      /\ GoldIsBacked'
  BY DEF Retry, PipelineInv, TypeOK, GoldIsBacked
<1>8. CASE kept = {}
  <2> DEFINE r == NotRunning(0, run[w].failed, TRUE, run[w].articles)
  <2>1. /\ 0 \in 0 .. 2 /\ run[w].failed \in SUBSET Layers /\ TRUE \in BOOLEAN
        /\ run[w].articles \in SUBSET Urls
    BY <1>6 DEF Run
  <2>2. InTable(r, warehouse["silver"])
    <3>1. r.articles = {}
      BY <1>4, <1>8 DEF NotRunning
    <3> QED BY <3>1 DEF InTable, Hashes
  <2>3. /\ r \in Run /\ RunOK(r, lake, warehouse["silver"]) /\ r.known = {} /\ Held(r) = {}
    BY <2>1, <2>2, EndsQuietly
  <2>4. run' = [run EXCEPT ![w] = r]
    BY <1>3, <1>8 DEF End, Become
  <2>5. Held(run[w]) = {} /\ Done' \subseteq Done
    BY <1>4, <1>5, <1>6, <1>8
  <2> HIDE DEF r
  <2> QED BY <1>5, <1>7, <2>3, <2>4, <2>5 DEF Effect
<1>9. CASE kept # {}
  <2> DEFINE i == WithStage(run[w], "gate")
             r == WithArticles(i, kept)
  <2>1. i \in Run /\ i.stage = "gate" /\ i.layer = "raw" /\ i.known = run[w].known
    <3>1. "gate" \in Stages
      BY DEF Stages
    <3> QED BY <1>6, <3>1, StageSet
  <2>2. run' = [run EXCEPT ![w] = r]
    BY <1>3, <1>9 DEF Become, WithStage, WithArticles
  <2> HIDE DEF i
  <2>3. /\ r \in Run /\ r.stage = "gate" /\ r.layer = "raw"
        /\ r.articles = kept /\ r.known = run[w].known
    BY <1>4, <2>1, ArticlesSet
  <2> HIDE DEF r
  <2>4. RunOK(r, lake, warehouse["silver"]) /\ Held(r) = kept
    BY <2>3 DEF RunOK, StagedByLayer, PastLake, Held
  <2>5. \A z \in run[w].articles \cup again : StoryIn(z, Held(r))
    BY <1>4, <2>4
  <2>6. \A z \in Held(run[w]) : StoryIn(z, lake' \cup dropped' \cup Held(r) \cup run[w].known)
    BY <1>6, <2>5 DEF StoryIn
  <2>7. \A u \in Done' \ Done : StoryIn(u, Held(r))
    BY <1>5, <2>5
  <2> QED BY <1>5, <1>7, <2>2, <2>3, <2>4, <2>6, <2>7 DEF Effect
<1> QED BY <1>8, <1>9

-----------------------------------------------------------------------------
(* Going on after the present layer, whatever was skipped or failed, when  *)
(* the layer's rows are where they are to be.                              *)
LEMMA GoesOn ==
  ASSUME PipelineInv, NEW w \in Runs, NEW q \in Run, NEW silver,
         q.layer = run[w].layer, q.articles = run[w].articles, q.known = run[w].known,
         q.layer = "silver" => q.articles \subseteq lake,
         q.layer = "silver" /\ "silver" \notin q.failed => InTable(q, silver),
         q.layer \in {"gold", "shadow"} /\ "silver" \notin q.failed => InTable(q, silver),
         run[w].stage \in {"gate", "write", "load"}
  PROVE  /\ AfterLayer(q) \in Run /\ RunOK(AfterLayer(q), lake, silver)
         /\ AfterLayer(q).known = run[w].known
         /\ \A z \in Held(run[w]) : StoryIn(z, lake \cup dropped \cup Held(AfterLayer(q)))
<1> DEFINE r == AfterLayer(q)
<1>1. /\ r \in Run /\ r.articles = q.articles /\ r.failed = q.failed /\ r.known = q.known
      /\ q.layer = "raw" => r.layer = "raw" /\ r.stage = "dedup"
      /\ q.layer = "silver" => r.layer = "gold" /\ r.stage = "gate"
      /\ q.layer \in {"gold", "shadow"} => /\ r.layer \in {"gold", "shadow"}
                                           /\ r.stage \in {"write", "finish"}
  BY AfterLayerKeeps
<1>2. q.layer \in {"raw", "silver", "gold", "shadow"}
  BY DEF Run, Layers
<1> HIDE DEF r
<1>3. q.layer \in {"gold", "shadow"} => q.articles \subseteq lake
  BY Records DEF RunOK, PastLake
<1>4. RunOK(r, lake, silver)
  BY <1>1, <1>2, <1>3 DEF RunOK, StagedByLayer, PastLake, InTable
<1>5. Held(run[w]) \subseteq lake \cup Held(r) /\ Held(run[w]) \in SUBSET Urls
  BY <1>1, <1>2, <1>3, Records DEF Held
<1>6. \A z \in Held(run[w]) : StoryIn(z, lake \cup dropped \cup Held(r))
  BY <1>5, OwnStory
<1> QED BY <1>1, <1>4, <1>6 DEF r

LEMMA GateEffect ==
  ASSUME PipelineInv, NEW w \in Runs, Gate(w)
  PROVE  \E r \in Run : Effect(w, r)
<1>1. /\ run[w].stage = "gate" /\ UNCHANGED <<item, lake, warehouse, dropped>>
      /\ run[w] \in Run /\ RunOK(run[w], lake, warehouse["silver"])
      /\ Held(run[w]) \in SUBSET Urls
  BY Records DEF Gate
<1>2. CASE Rows(w) # {}
  <2> DEFINE r == WithStage(run[w], "write")
  <2>1. /\ r \in Run /\ r.stage = "write" /\ r.layer = run[w].layer
        /\ r.articles = run[w].articles /\ r.known = run[w].known /\ r.failed = run[w].failed
    <3>1. "write" \in Stages
      BY DEF Stages
    <3> QED BY <1>1, <3>1, StageSet
  <2>2. run' = [run EXCEPT ![w] = r]
    BY <1>2 DEF Gate, Become, Passed, WithStage
  <2> HIDE DEF r
  <2>3. RunOK(r, lake, warehouse["silver"]) /\ Held(r) = Held(run[w])
    BY <1>1, <2>1 DEF RunOK, StagedByLayer, PastLake, InTable, Held
  <2>4. \A z \in Held(run[w]) : StoryIn(z, lake \cup dropped \cup Held(r) \cup run[w].known)
    BY <1>1, <2>3, OwnStory
  <2> QED BY <1>1, <2>1, <2>2, <2>3, <2>4, QuietEffect
<1>3. CASE Rows(w) = {} /\ run[w].layer # "gold"
  <2> DEFINE r == AfterLayer(run[w])
  <2>1. run' = [run EXCEPT ![w] = r]
    BY <1>3 DEF Gate, Become, Skipped
  <2>2. run[w].layer \in {"raw", "silver"} => run[w].articles = {}
    BY <1>3 DEF Rows
  <2>3. /\ run[w].layer = "silver" => run[w].articles \subseteq lake
        /\ run[w].layer = "silver" => InTable(run[w], warehouse["silver"])
        /\ run[w].layer \in {"gold", "shadow"} /\ "silver" \notin run[w].failed
             => InTable(run[w], warehouse["silver"])
    BY <1>1, <2>2 DEF RunOK, InTable, Hashes
  <2>4. /\ r \in Run /\ RunOK(r, lake, warehouse["silver"]) /\ r.known = run[w].known
        /\ \A z \in Held(run[w]) : StoryIn(z, lake \cup dropped \cup Held(r))
    BY <1>1, <2>3, GoesOn
  <2> HIDE DEF r
  <2>5. \A z \in Held(run[w]) : StoryIn(z, lake \cup dropped \cup Held(r) \cup run[w].known)
    BY <2>4 DEF StoryIn
  <2> QED BY <1>1, <2>1, <2>4, <2>5, QuietEffect
<1>4. CASE Rows(w) = {} /\ run[w].layer = "gold"
  <2> DEFINE r == WithStage(run[w], "finish")
  <2>1. /\ r \in Run /\ r.stage = "finish" /\ r.layer = "gold"
        /\ r.articles = run[w].articles /\ r.known = run[w].known /\ r.failed = run[w].failed
    <3>1. "finish" \in Stages
      BY DEF Stages
    <3> QED BY <1>1, <1>4, <3>1, StageSet
  <2>2. run' = [run EXCEPT ![w] = r]
    BY <1>4 DEF Gate, Become, Skipped, WithStage
  <2> HIDE DEF r
  <2>3. RunOK(r, lake, warehouse["silver"]) /\ Held(run[w]) = {}
    BY <1>1, <1>4, <2>1 DEF RunOK, StagedByLayer, PastLake, InTable, Held
  <2> QED BY <1>1, <2>1, <2>2, <2>3, QuietEffect
<1> QED BY <1>2, <1>3, <1>4

-----------------------------------------------------------------------------
(* An execution that is cut short notes what it still held.                *)
LEMMA CutShort ==
  ASSUME PipelineInv, NEW w \in Runs, NEW e \in 0 .. 2,
         End(w, e, FALSE), Drop(w), UNCHANGED <<item, lake, warehouse>>
  PROVE  \E r \in Run : Effect(w, r)
<1> DEFINE r == NotRunning(e, run[w].failed, FALSE, {})
<1>1. run[w] \in Run /\ run[w].failed \in SUBSET Layers /\ run[w].articles \subseteq Urls
  BY Records DEF Run
<1>2. /\ r \in Run /\ RunOK(r, lake, warehouse["silver"]) /\ r.known = {} /\ Held(r) = {}
  <2>1. FALSE \in BOOLEAN /\ {} \in SUBSET Urls
    OBVIOUS
  <2> QED BY <1>1, <2>1, EndsQuietly
<1>3. run' = [run EXCEPT ![w] = r]
  BY DEF End, Become
<1>4. dropped \subseteq dropped' /\ dropped' \subseteq Urls /\ Held(run[w]) \subseteq dropped'
  BY <1>1 DEF Drop, BeforeSilver, Held, PipelineInv, TypeOK
<1>5. Held(run[w]) \in SUBSET Urls
  BY Records
<1>6. \A z \in Held(run[w]) : StoryIn(z, lake' \cup dropped' \cup Held(r) \cup run[w].known)
  BY <1>4, <1>5, OwnStory
<1>7. /\ item' \in [Urls -> {"waiting", "leased", "done"}] /\ Done' = Done
      /\ lake \subseteq Urls /\ warehouse \in [Tables -> SUBSET Urls] /\ GoldIsBacked'
  BY DEF PipelineInv, TypeOK, GoldIsBacked, Done
<1> HIDE DEF r
<1> QED BY <1>2, <1>3, <1>4, <1>6, <1>7 DEF Effect

LEMMA AbortEffect ==
  ASSUME PipelineInv, NEW w \in Runs, Abort(w)
  PROVE  \E r \in Run : Effect(w, r)
<1>1. End(w, 1, FALSE) /\ Drop(w) /\ UNCHANGED <<item, lake, warehouse>>
  BY DEF Abort
<1>2. 1 \in 0 .. 2
  OBVIOUS
<1> QED BY <1>1, <1>2, CutShort

LEMMA GateFailsEffect ==
  ASSUME PipelineInv, NEW w \in Runs, GateFails(w)
  PROVE  \E r \in Run : Effect(w, r)
<1>1. CASE run[w].layer # "gold"
  <2>1. End(w, 0, FALSE) /\ Drop(w) /\ UNCHANGED <<item, lake, warehouse>>
    BY <1>1 DEF GateFails
  <2>2. 0 \in 0 .. 2
    OBVIOUS
  <2> QED BY <2>1, <2>2, CutShort
<1>2. CASE run[w].layer = "gold"
  <2> DEFINE r == AfterLayer(run[w])
  <2>1. /\ run' = [run EXCEPT ![w] = r] /\ UNCHANGED <<item, lake, warehouse, dropped>>
        /\ run[w].stage = "gate"
    BY <1>2 DEF GateFails, Become
  <2>2. run[w] \in Run /\ RunOK(run[w], lake, warehouse["silver"])
    BY Records
  <2>3. /\ r \in Run /\ RunOK(r, lake, warehouse["silver"]) /\ r.known = run[w].known
        /\ \A z \in Held(run[w]) : StoryIn(z, lake \cup dropped \cup Held(r))
    BY <1>2, <2>1, <2>2, GoesOn DEF RunOK
  <2> HIDE DEF r
  <2>4. \A z \in Held(run[w]) : StoryIn(z, lake \cup dropped \cup Held(r) \cup run[w].known)
    BY <2>3 DEF StoryIn
  <2> QED BY <2>1, <2>3, <2>4, QuietEffect
<1> QED BY <1>1, <1>2

LEMMA WriteEffect ==
  ASSUME PipelineInv, NEW w \in Runs, Write(w)
  PROVE  \E r \in Run : Effect(w, r)
<1> DEFINE r == WithStage(run[w], "load")
<1>1. /\ run[w] \in Run /\ RunOK(run[w], lake, warehouse["silver"]) /\ run[w].stage = "write"
      /\ Held(run[w]) \in SUBSET Urls /\ run[w].articles \subseteq Urls
  BY Records DEF Write
<1>2. /\ r \in Run /\ r.stage = "load" /\ r.layer = run[w].layer
      /\ r.articles = run[w].articles /\ r.known = run[w].known /\ r.failed = run[w].failed
  <2>1. "load" \in Stages
    BY DEF Stages
  <2> QED BY <1>1, <2>1, StageSet
<1>3. run' = [run EXCEPT ![w] = r] /\ UNCHANGED <<item, warehouse, dropped>>
  BY DEF Write, Become, WithStage
<1> HIDE DEF r
<1>4. /\ lake \subseteq lake' /\ lake' \subseteq Urls
      /\ run[w].layer = "silver" => run[w].articles \subseteq lake'
  BY <1>1 DEF Write, Rows, PipelineInv, TypeOK
<1>5. RunOK(r, lake', warehouse'["silver"])
  BY <1>1, <1>2, <1>3, <1>4 DEF RunOK, StagedByLayer, PastLake, InTable
<1>6. Held(run[w]) \subseteq lake' \cup Held(r)
  BY <1>1, <1>2, <1>4 DEF Held
<1>7. \A z \in Held(run[w]) : StoryIn(z, lake' \cup dropped' \cup Held(r) \cup run[w].known)
  BY <1>1, <1>6, OwnStory
<1>8. /\ item' \in [Urls -> {"waiting", "leased", "done"}] /\ Done' = Done
      /\ dropped \subseteq Urls /\ warehouse' \in [Tables -> SUBSET Urls] /\ GoldIsBacked'
  BY <1>3, <1>4 DEF PipelineInv, TypeOK, GoldIsBacked, Done
<1> QED BY <1>2, <1>3, <1>4, <1>5, <1>7, <1>8 DEF Effect

-----------------------------------------------------------------------------
(* A merge takes no hash out of a table, and puts those of the rows in.    *)
LEMMA MergeKeepsHashes ==
  ASSUME NEW table \in SUBSET Urls, NEW rows \in SUBSET Urls
  PROVE  /\ Hashes(table) \subseteq Hashes(Merged(table, rows))
         /\ Hashes(rows) \subseteq Hashes(Merged(table, rows))
         /\ Merged(table, rows) \subseteq table \cup rows
<1> QED BY DEF Merged, Hashes

(* What a load, also one that is noted as failed, does to the tables.      *)
LEMMA LoadedTables ==
  ASSUME PipelineInv, NEW w \in Runs, run[w].stage = "load", Loaded(w), UNCHANGED lake
  PROVE  /\ warehouse' \in [Tables -> SUBSET Urls]
         /\ Hashes(warehouse["silver"]) \subseteq Hashes(warehouse'["silver"])
         /\ run[w].layer = "silver" => InTable(run[w], warehouse'["silver"])
         /\ GoldIsBacked'
<1>1. PICK rows \in OnePerHash(Rows(w)) :
        warehouse' = [l \in Tables |->
          IF l # run[w].layer THEN warehouse[l]
          ELSE IF l = "shadow" THEN Appended(warehouse[l], Rows(w))
          ELSE Merged(warehouse[l], rows)]
  BY DEF Loaded
<1>2. /\ rows \subseteq Rows(w) /\ Hashes(rows) = Hashes(Rows(w))
      /\ Rows(w) \subseteq run[w].articles /\ run[w].articles \subseteq Urls
      /\ run[w].layer = "silver" => Rows(w) = run[w].articles
  <2>1. rows \in SUBSET Rows(w) /\ Hashes(rows) = Hashes(Rows(w))
    BY DEF OnePerHash
  <2> QED BY <2>1, Records DEF Rows
<1>3. /\ warehouse \in [Tables -> SUBSET Urls]
      /\ warehouse["silver"] \subseteq Urls
      /\ warehouse["gold"] \cup warehouse["shadow"] \subseteq lake
      /\ {"silver", "gold", "shadow"} = Tables
  BY DEF PipelineInv, TypeOK, GoldIsBacked, Tables
<1>4. \A l \in Tables : Merged(warehouse[l], rows) \subseteq warehouse[l] \cup run[w].articles
  BY <1>2, <1>3, MergeKeepsHashes
<1>5. \A l \in Tables : /\ warehouse'[l] \subseteq warehouse[l] \cup run[w].articles
                        /\ l # run[w].layer => warehouse'[l] = warehouse[l]
  BY <1>1, <1>2, <1>4 DEF Appended
<1>6. warehouse' \in [Tables -> SUBSET Urls]
  <2>1. \A l \in Tables : warehouse'[l] \in SUBSET Urls
    BY <1>2, <1>3, <1>5
  <2> QED BY <1>1, <2>1
<1>7. /\ Hashes(warehouse["silver"]) \subseteq Hashes(warehouse'["silver"])
      /\ run[w].layer = "silver" => Hashes(run[w].articles) \subseteq Hashes(warehouse'["silver"])
  <2>1. CASE run[w].layer = "silver"
    <3>1. warehouse'["silver"] = Merged(warehouse["silver"], rows)
      BY <1>1, <1>3, <2>1
    <3> QED BY <1>2, <1>3, <2>1, <3>1, MergeKeepsHashes
  <2>2. CASE run[w].layer # "silver"
    BY <1>3, <1>5, <2>2
  <2> QED BY <2>1, <2>2
<1>8. GoldIsBacked'
  <2>1. CASE run[w].layer \in {"gold", "shadow"}
    <3>1. run[w].articles \subseteq lake
      BY <2>1, Records DEF RunOK, PastLake
    <3> QED BY <1>3, <1>5, <3>1 DEF GoldIsBacked
  <2>2. CASE run[w].layer \notin {"gold", "shadow"}
    BY <1>3, <1>5, <2>2 DEF GoldIsBacked
  <2> QED BY <2>1, <2>2
<1> QED BY <1>6, <1>7, <1>8 DEF InTable

(* Both loads, as what follows from the tables and from the record that    *)
(* goes on.                                                                *)
LEMMA LoadEffect ==
  ASSUME PipelineInv, NEW w \in Runs, run[w].stage = "load",
         Loaded(w) \/ UNCHANGED warehouse, UNCHANGED <<item, lake, dropped>>,
         NEW q \in Run, q.layer = run[w].layer, q.articles = run[w].articles,
         q.known = run[w].known, run[w].failed \subseteq q.failed,
         "silver" \notin q.failed => Loaded(w) \/ run[w].layer # "silver",
         run' = [run EXCEPT ![w] = AfterLayer(q)]
  PROVE  \E r \in Run : Effect(w, r)
<1>1. /\ warehouse' \in [Tables -> SUBSET Urls]
      /\ Hashes(warehouse["silver"]) \subseteq Hashes(warehouse'["silver"])
      /\ GoldIsBacked'
  <2>1. CASE Loaded(w)
    BY <2>1, LoadedTables
  <2>2. CASE UNCHANGED warehouse
    BY <2>2 DEF PipelineInv, TypeOK, GoldIsBacked
  <2> QED BY <2>1, <2>2
<1>2. RunOK(run[w], lake, warehouse["silver"])
  BY Records
<1>3. /\ q.layer = "silver" => q.articles \subseteq lake
      /\ q.layer = "silver" /\ "silver" \notin q.failed => InTable(q, warehouse'["silver"])
      /\ q.layer \in {"gold", "shadow"} /\ "silver" \notin q.failed
           => InTable(q, warehouse'["silver"])
  <2>1. q.layer = "silver" => q.articles \subseteq lake
    BY <1>2 DEF RunOK, PastLake
  <2>2. ASSUME q.layer = "silver", "silver" \notin q.failed
        PROVE  InTable(q, warehouse'["silver"])
    BY <2>2, LoadedTables DEF InTable
  <2>3. ASSUME q.layer \in {"gold", "shadow"}, "silver" \notin q.failed
        PROVE  InTable(q, warehouse'["silver"])
    BY <1>1, <1>2, <2>3 DEF RunOK, InTable
  <2> QED BY <2>1, <2>2, <2>3
<1> DEFINE r == AfterLayer(q)
<1>4. /\ r \in Run /\ RunOK(r, lake, warehouse'["silver"]) /\ r.known = run[w].known
      /\ \A z \in Held(run[w]) : StoryIn(z, lake \cup dropped \cup Held(r))
  BY <1>3, GoesOn
<1> HIDE DEF r
<1>5. \A z \in Held(run[w]) : StoryIn(z, lake' \cup dropped' \cup Held(r) \cup run[w].known)
  BY <1>4 DEF StoryIn
<1>6. /\ item' \in [Urls -> {"waiting", "leased", "done"}] /\ Done' = Done
      /\ lake \subseteq Urls /\ dropped \subseteq Urls
  BY DEF PipelineInv, TypeOK, Done
<1>7. run' = [run EXCEPT ![w] = r]
  BY DEF r
<1> QED BY <1>1, <1>4, <1>5, <1>6, <1>7 DEF Effect

LEMMA LoadSucceedsEffect ==
  ASSUME PipelineInv, NEW w \in Runs, LoadSucceeds(w)
  PROVE  \E r \in Run : Effect(w, r)
<1>1. /\ run[w].stage = "load" /\ Loaded(w) /\ UNCHANGED <<item, lake, dropped>>
      /\ run' = [run EXCEPT ![w] = AfterLayer(run[w])] /\ run[w] \in Run
  BY Records DEF LoadSucceeds, Become
<1> QED BY <1>1, LoadEffect

LEMMA LoadFailsEffect ==
  ASSUME PipelineInv, NEW w \in Runs, LoadFails(w)
  PROVE  \E r \in Run : Effect(w, r)
<1> DEFINE q == WithFailed(run[w], run[w].failed \cup {run[w].layer})
<1>1. run[w] \in Run /\ run[w].failed \cup {run[w].layer} \in SUBSET Layers
  BY Records DEF Run
<1>2. /\ q \in Run /\ q.layer = run[w].layer /\ q.articles = run[w].articles
      /\ q.known = run[w].known /\ q.failed = run[w].failed \cup {run[w].layer}
  BY <1>1, FailedSet
<1>3. /\ run[w].stage = "load"
      /\ Loaded(w) \/ UNCHANGED warehouse
      /\ UNCHANGED <<item, lake, dropped>>
  BY DEF LoadFails
<1>4. run' = [run EXCEPT ![w] = AfterLayer(q)]
  BY DEF LoadFails, Become, WithFailed
<1> HIDE DEF q
<1>5. run[w].failed \subseteq q.failed /\ ("silver" \notin q.failed => run[w].layer # "silver")
  BY <1>2
<1> QED BY <1>2, <1>3, <1>4, <1>5, LoadEffect

-----------------------------------------------------------------------------
LEMMA FinishEffect ==
  ASSUME PipelineInv, NEW w \in Runs, Finish(w)
  PROVE  \E r \in Run : Effect(w, r)
<1> DEFINE e == IF run[w].failed = {} THEN 0 ELSE 2
           b == run[w].failed = {}
           S == IF run[w].failed = {} THEN run[w].articles ELSE {}
           r == NotRunning(e, run[w].failed, b, S)
<1>1. /\ run[w] \in Run /\ RunOK(run[w], lake, warehouse["silver"])
      /\ run[w].stage = "finish" /\ UNCHANGED <<item, lake, warehouse, dropped>>
  BY Records DEF Finish
<1>2. run' = [run EXCEPT ![w] = r]
  BY DEF Finish, End, Become, ExitCode, SavedAtEnd
<1>3. /\ e \in 0 .. 2 /\ run[w].failed \in SUBSET Layers /\ b \in BOOLEAN
      /\ S \in SUBSET Urls
  BY <1>1 DEF Run
<1>4. r.articles = S
  BY DEF NotRunning
<1>5. b => InTable(r, warehouse["silver"])
  <2>1. ASSUME run[w].failed = {} PROVE InTable(run[w], warehouse["silver"])
    BY <1>1, <2>1 DEF RunOK, StagedByLayer
  <2> QED BY <1>4, <2>1 DEF InTable
<1>6. /\ r \in Run /\ RunOK(r, lake, warehouse["silver"]) /\ r.known = {}
  BY <1>3, <1>5, EndsQuietly
<1>7. Held(run[w]) = {}
  BY <1>1 DEF Held
<1> HIDE DEF r
<1> QED BY <1>1, <1>2, <1>6, <1>7, QuietEffect

(* An article that is not kept duplicates one that is, or a known URL.     *)
LEMMA DedupEffect ==
  ASSUME PipelineInv, NEW w \in Runs, Dedup(w)
  PROVE  \E r \in Run : Effect(w, r)
<1>1. PICK kept \in SUBSET run[w].articles :
        /\ \A u \in run[w].articles \ kept :
             \E v \in kept \cup KnownTo(w) : Duplicates(u, v)
        /\ Become(w, [run[w] EXCEPT !.stage = "gate", !.layer = "silver",
                                    !.articles = kept, !.known = {}])
  BY DEF Dedup
<1> DEFINE i == WithStage(run[w], "gate")
           j == WithLayer(i, "silver")
           k == WithArticles(j, kept)
           r == WithKnown(k, {})
<1>2. /\ run[w] \in Run /\ kept \in SUBSET Urls /\ run[w].known \in SUBSET Urls
      /\ run[w].articles \subseteq Urls /\ Held(run[w]) \subseteq run[w].articles
  BY Records
<1>3. run' = [run EXCEPT ![w] = r]
  BY <1>1 DEF Become, WithStage, WithLayer, WithArticles, WithKnown
<1>4. i \in Run /\ i.stage = "gate"
  <2>1. "gate" \in Stages
    BY DEF Stages
  <2> QED BY <1>2, <2>1, StageSet
<1> HIDE DEF i
<1>5. j \in Run /\ j.stage = "gate" /\ j.layer = "silver"
  <2>1. "silver" \in Layers
    BY DEF Layers
  <2> QED BY <1>4, <2>1, LayerSet
<1> HIDE DEF j
<1>6. k \in Run /\ k.stage = "gate" /\ k.layer = "silver" /\ k.articles = kept
  BY <1>2, <1>5, ArticlesSet
<1> HIDE DEF k
<1>7. /\ r \in Run /\ r.stage = "gate" /\ r.layer = "silver" /\ r.articles = kept
      /\ r.known = {}
  BY <1>6, KnownSet
<1> HIDE DEF r
<1>8. RunOK(r, lake, warehouse["silver"]) /\ Held(r) = kept
  BY <1>7 DEF RunOK, StagedByLayer, PastLake, Held
<1>9. ASSUME NEW z \in run[w].articles
      PROVE  StoryIn(z, lake \cup dropped \cup Held(r) \cup run[w].known)
  <2>1. CASE z \in kept
    BY <1>2, <1>8, <2>1 DEF StoryIn
  <2>2. CASE z \notin kept
    <3>1. PICK v \in kept \cup run[w].known : Duplicates(z, v)
      BY <1>1, <2>2 DEF KnownTo
    <3>2. StoryOf[v] = StoryOf[z] /\ v \in Urls
      BY <1>2, <3>1, StoryAssumption DEF Duplicates
    <3> QED BY <1>8, <3>2 DEF StoryIn
  <2> QED BY <2>1, <2>2
<1>10. UNCHANGED <<item, lake, warehouse, dropped>>
  BY DEF Dedup
<1> QED BY <1>2, <1>3, <1>7, <1>8, <1>9, <1>10, QuietEffect

LEMMA StepEffect ==
  ASSUME PipelineInv, NEW w \in Runs, Step(w)
  PROVE  \E r \in Run : Effect(w, r)
<1> QED BY NothingPendingEffect, ClaimEffect, ScrapeEffect, ReportEffect, RetryEffect,
           GateEffect, GateFailsEffect, WriteEffect, LoadSucceedsEffect, LoadFailsEffect,
           DedupEffect, FinishEffect, AbortEffect DEF Step

-----------------------------------------------------------------------------
LEMMA CoveredRuns ==
  NoSilentLoss <=> \A u \in Done : Covered(u, lake \cup dropped, run, Runs)
<1>1. \A w \in Runs, v \in Urls : v \in Held(run[w]) <=> BeforeSilver(w) /\ v \in run[w].articles
  BY DEF Held, BeforeSilver
<1> QED BY <1>1 DEF NoSilentLoss, Covered

(* A step of w keeps every story in the hands of the same runs, or puts it *)
(* in the lake or among the dropped: what w discards as known, the runs    *)
(* before w hold.                                                          *)
LEMMA CoverageKept ==
  ASSUME PipelineInv, NEW w \in Runs, NEW r \in Run, Effect(w, r),
         NEW R \in SUBSET (Runs \X Runs), KnownAreCovered(R),
         NEW S \in SUBSET Runs, w \in S => Before(R, w) \subseteq S,
         NEW u, Covered(u, lake \cup dropped, run, S)
  PROVE  Covered(u, lake' \cup dropped', run', S)
<1>1. /\ run' = [run EXCEPT ![w] = r] /\ run \in [Runs -> Run]
      /\ lake \cup dropped \subseteq lake' \cup dropped'
  BY Records DEF Effect
<1>2. run'[w] = r /\ \A x \in Runs \ {w} : run'[x] = run[x]
  BY <1>1
<1>3. PICK v \in Urls : /\ StoryOf[v] = StoryOf[u]
                        /\ v \in lake \cup dropped \/ \E x \in S : v \in Held(run[x])
  BY DEF Covered
<1>4. CASE v \in lake \cup dropped
  BY <1>1, <1>3, <1>4 DEF Covered
<1>5. ASSUME NEW x \in S, x # w, v \in Held(run[x])
      PROVE  Covered(u, lake' \cup dropped', run', S)
  BY <1>2, <1>3, <1>5 DEF Covered
<1>6. CASE w \in S /\ v \in Held(run[w])
  <2>1. StoryIn(v, lake' \cup dropped' \cup Held(r) \cup run[w].known)
    BY <1>6 DEF Effect
  <2>2. PICK t \in lake' \cup dropped' \cup Held(r) \cup run[w].known :
          t \in Urls /\ StoryOf[t] = StoryOf[u]
    BY <1>3, <2>1 DEF StoryIn
  <2>3. CASE t \in lake' \cup dropped' \cup Held(r)
    BY <1>2, <1>6, <2>2, <2>3 DEF Covered
  <2>4. CASE t \in run[w].known
    <3>1. Covered(t, lake \cup dropped, run, Before(R, w)) /\ w \notin Before(R, w)
      BY <2>4 DEF KnownAreCovered, StrictOrder, Before
    <3>2. PICK s \in Urls :
            /\ StoryOf[s] = StoryOf[t]
            /\ s \in lake \cup dropped \/ \E y \in Before(R, w) : s \in Held(run[y])
      BY <3>1 DEF Covered
    <3>3. \A y \in Before(R, w) : y \in S /\ y \in Runs \ {w}
      BY <1>6, <3>1 DEF Before
    <3> QED BY <1>1, <1>2, <2>2, <3>2, <3>3 DEF Covered
  <2> QED BY <2>2, <2>3, <2>4
<1> QED BY <1>3, <1>4, <1>5, <1>6

(* A run that loads what is known comes last in the order: the others held *)
(* the stories of the completed URLs before it reported any.               *)
LastBut(R, w) == {p \in R : p[1] # w /\ p[2] # w} \cup ((Runs \ {w}) \X {w})

LEMMA LastIsOrder ==
  ASSUME NEW R \in SUBSET (Runs \X Runs), StrictOrder(R), NEW w \in Runs
  PROVE  /\ LastBut(R, w) \in SUBSET (Runs \X Runs) /\ StrictOrder(LastBut(R, w))
         /\ Before(LastBut(R, w), w) = Runs \ {w}
         /\ \A x \in Runs \ {w} : Before(LastBut(R, w), x) = Before(R, x) \ {w}
<1>1. \A x, y \in Runs : <<x, y>> \in LastBut(R, w) <=>
        x # w /\ (y = w \/ <<x, y>> \in R)
  BY DEF LastBut
<1>2. LastBut(R, w) \in SUBSET (Runs \X Runs)
  BY DEF LastBut
<1>3. StrictOrder(LastBut(R, w))
  BY <1>1 DEF StrictOrder
<1> QED BY <1>1, <1>2, <1>3 DEF Before

LEMMA OrderKept ==
  ASSUME PipelineInv, NEW w \in Runs, NEW r \in Run, Effect(w, r)
  PROVE  \E R \in SUBSET (Runs \X Runs) : KnownAreCovered(R)'
<1>1. PICK R \in SUBSET (Runs \X Runs) : KnownAreCovered(R)
  BY DEF PipelineInv
<1>2. /\ run' = [run EXCEPT ![w] = r] /\ run \in [Runs -> Run]
      /\ lake \cup dropped \subseteq lake' \cup dropped'
  BY Records DEF Effect
<1>3. run'[w] = r /\ \A x \in Runs \ {w} : run'[x] = run[x]
  BY <1>2
<1>4. CASE r.known = {} \/ r.known = run[w].known
  <2>1. ASSUME NEW x \in Runs, NEW k \in run'[x].known
        PROVE  Covered(k, lake' \cup dropped', run', Before(R, x))
    <3>1. k \in run[x].known
      BY <1>3, <1>4, <2>1
    <3>2. Covered(k, lake \cup dropped, run, Before(R, x))
      BY <1>1, <3>1 DEF KnownAreCovered
    <3>3. /\ Before(R, x) \in SUBSET Runs
          /\ w \in Before(R, x) => Before(R, w) \subseteq Before(R, x)
      BY <1>1 DEF KnownAreCovered, StrictOrder, Before
    <3> QED BY <1>1, <3>2, <3>3, CoverageKept
  <2>2. KnownAreCovered(R)'
    BY <1>1, <2>1 DEF KnownAreCovered
  <2> QED BY <2>2
<1>5. CASE r.known = Done /\ Held(run[w]) = {} /\ Done' = Done
  <2> DEFINE L == LastBut(R, w)
  <2>1. /\ L \in SUBSET (Runs \X Runs) /\ StrictOrder(L) /\ Before(L, w) = Runs \ {w}
        /\ \A x \in Runs \ {w} : Before(L, x) = Before(R, x) \ {w}
    BY <1>1, LastIsOrder DEF KnownAreCovered
  <2> HIDE DEF L
  <2>2. ASSUME NEW k, NEW S \in SUBSET Runs, Covered(k, lake \cup dropped, run, S)
        PROVE  Covered(k, lake' \cup dropped', run', S \ {w})
    BY <1>2, <1>3, <1>5, <2>2 DEF Covered
  <2>3. ASSUME NEW k \in run'[w].known
        PROVE  Covered(k, lake' \cup dropped', run', Before(L, w))
    <3>1. Covered(k, lake \cup dropped, run, Runs)
      BY <1>3, <1>5, <2>3, CoveredRuns DEF PipelineInv
    <3> QED BY <2>1, <2>2, <3>1
  <2>4. ASSUME NEW x \in Runs \ {w}, NEW k \in run'[x].known
        PROVE  Covered(k, lake' \cup dropped', run', Before(L, x))
    <3>1. Covered(k, lake \cup dropped, run, Before(R, x)) /\ Before(R, x) \in SUBSET Runs
      BY <1>1, <1>3, <2>4 DEF KnownAreCovered, Before
    <3> QED BY <2>1, <2>2, <3>1
  <2>5. KnownAreCovered(L)'
    BY <2>1, <2>3, <2>4 DEF KnownAreCovered
  <2> QED BY <2>1, <2>5
<1> QED BY <1>4, <1>5 DEF Effect

LEMMA NothingLost ==
  ASSUME PipelineInv, NEW w \in Runs, NEW r \in Run, Effect(w, r)
  PROVE  NoSilentLoss'
<1>1. PICK R \in SUBSET (Runs \X Runs) : KnownAreCovered(R)
  BY DEF PipelineInv
<1>2. ASSUME NEW u \in Done' PROVE Covered(u, lake' \cup dropped', run', Runs)
  <2>1. CASE u \in Done
    <3>1. Covered(u, lake \cup dropped, run, Runs)
      BY <2>1, CoveredRuns DEF PipelineInv
    <3>2. Before(R, w) \subseteq Runs
      BY DEF Before
    <3> QED BY <1>1, <3>1, <3>2, CoverageKept
  <2>2. CASE u \notin Done
    <3>1. StoryIn(u, Held(r)) /\ run'[w] = r
      BY <1>2, <2>2, Records DEF Effect
    <3> QED BY <3>1 DEF StoryIn, Covered
  <2> QED BY <2>1, <2>2
<1>3. (\A u \in Done : Covered(u, lake \cup dropped, run, Runs))'
  BY <1>2
<1>4. (NoSilentLoss <=> \A u \in Done : Covered(u, lake \cup dropped, run, Runs))'
  <2>1. (\A x \in Runs, v \in Urls :
           v \in Held(run[x]) <=> BeforeSilver(x) /\ v \in run[x].articles)'
    BY DEF Held, BeforeSilver
  <2> QED BY <2>1 DEF NoSilentLoss, Covered
<1> QED BY <1>3, <1>4

-----------------------------------------------------------------------------
LEMMA PipelineInit == Init => PipelineInv
<1> SUFFICES ASSUME Init PROVE PipelineInv
  OBVIOUS
<1>1. \A w \in Runs : run[w] = Idle
  BY DEF Init
<1>2. /\ Idle \in Run /\ Idle.stage = "idle" /\ Idle.layer = "raw" /\ Idle.known = {}
      /\ Idle.saved = FALSE
  BY DEF Idle, NotRunning, Run, Stages, Layers
<1>3. run \in [Runs -> Run]
  BY <1>2 DEF Init
<1>4. Done = {}
  BY DEF Init, Done
<1>5. TypeOK
  <2>1. /\ item \in [Urls -> {"waiting", "leased", "done"}] /\ lake \subseteq Urls
        /\ warehouse \in [Tables -> SUBSET Urls] /\ dropped \subseteq Urls
    BY DEF Init
  <2> QED BY <1>3, <2>1 DEF TypeOK, Run, Stages
<1>6. \A w \in Runs : RunOK(run[w], lake, warehouse["silver"])
  BY <1>1, <1>2 DEF RunOK, StagedByLayer, PastLake
<1>7. GoldIsBacked /\ NoSilentLoss
  BY <1>4 DEF Init, GoldIsBacked, NoSilentLoss, Tables
<1>8. KnownAreCovered({})
  BY <1>1, <1>2 DEF KnownAreCovered, StrictOrder
<1> QED BY <1>5, <1>6, <1>7, <1>8 DEF PipelineInv

LEMMA PipelineStep == PipelineInv /\ [Next]_vars => PipelineInv'
<1> SUFFICES ASSUME PipelineInv, [Next]_vars PROVE PipelineInv'
  OBVIOUS
<1>1. ASSUME NEW w \in Runs, Step(w) PROVE PipelineInv'
  <2>1. PICK r \in Run : Effect(w, r)
    BY <1>1, StepEffect
  <2>2. /\ run' = [run EXCEPT ![w] = r] /\ run \in [Runs -> Run]
        /\ \A x \in Runs : RunOK(run[x], lake, warehouse["silver"])
    BY <2>1, Records DEF Effect
  <2>3. run' \in [Runs -> Run]
    BY <2>2
  <2>4. TypeOK'
    BY <2>1, <2>3 DEF Effect, TypeOK, Run, Stages
  <2>5. \A x \in Runs : RunOK(run[x], lake', warehouse'["silver"])
    BY <2>1, <2>2 DEF Effect, RunOK, InTable
  <2>6. \A x \in Runs : RunOK(run'[x], lake', warehouse'["silver"])
    BY <2>1, <2>2, <2>5 DEF Effect
  <2>7. GoldIsBacked' /\ NoSilentLoss'
    BY <2>1, NothingLost DEF Effect
  <2>8. (\E R \in SUBSET (Runs \X Runs) : KnownAreCovered(R))'
    BY <2>1, OrderKept
  <2> QED BY <2>4, <2>6, <2>7, <2>8 DEF PipelineInv
<1>2. ASSUME NEW u \in Urls, Wait(u) PROVE PipelineInv'
  <2>1. /\ item' \in [Urls -> {"waiting", "leased", "done"}] /\ Done' \subseteq Done
        /\ UNCHANGED <<run, lake, warehouse, dropped>>
    BY <1>2 DEF Wait, PipelineInv, TypeOK, Done
  <2>2. TypeOK' /\ GoldIsBacked' /\ \A x \in Runs : RunOK(run'[x], lake', warehouse'["silver"])
    BY <2>1 DEF PipelineInv, TypeOK, GoldIsBacked
  <2>3. \A w \in Runs : BeforeSilver(w)' <=> BeforeSilver(w)
    BY <2>1 DEF BeforeSilver
  <2>4. NoSilentLoss'
    BY <2>1, <2>3 DEF PipelineInv, NoSilentLoss
  <2>5. \A R \in SUBSET (Runs \X Runs) : KnownAreCovered(R)' <=> KnownAreCovered(R)
    BY <2>1 DEF KnownAreCovered
  <2> QED BY <2>2, <2>4, <2>5 DEF PipelineInv
<1>3. CASE UNCHANGED vars
  <2>1. UNCHANGED <<item, run, lake, warehouse, dropped>>
    BY <1>3 DEF vars
  <2>2. TypeOK' /\ GoldIsBacked' /\ \A x \in Runs : RunOK(run'[x], lake', warehouse'["silver"])
    BY <2>1 DEF PipelineInv, TypeOK, GoldIsBacked
  <2>3. Done' = Done /\ \A w \in Runs : BeforeSilver(w)' <=> BeforeSilver(w)
    BY <2>1 DEF BeforeSilver, Done
  <2>4. NoSilentLoss'
    BY <2>1, <2>3 DEF PipelineInv, NoSilentLoss
  <2>5. \A R \in SUBSET (Runs \X Runs) : KnownAreCovered(R)' <=> KnownAreCovered(R)
    BY <2>1 DEF KnownAreCovered
  <2> QED BY <2>2, <2>4, <2>5 DEF PipelineInv
<1> QED BY <1>1, <1>2, <1>3 DEF Next

LEMMA PipelineInvariant == Spec => []PipelineInv
<1> QED BY PipelineInit, PipelineStep, PTL DEF Spec

-----------------------------------------------------------------------------
(* The state keeps its types: every run is at one of run_pipeline's stages *)
(* with a layer, and only URLs of the frontier are in the tables.          *)
THEOREM PipelineTypeCorrect == Spec => []TypeOK
<1>1. PipelineInv => TypeOK
  BY DEF PipelineInv
<1> QED BY <1>1, PipelineInvariant, PTL

(* No completed URL is silently lost, however many runs of run_pipeline    *)
(* overlap, report and deduplicate their articles in whatever order, and   *)
(* die: loading the known hashes before reporting keeps two runs from      *)
(* discarding their articles as duplicates of each other's.                *)
THEOREM CompletedIsNotLost == Spec => []NoSilentLoss
<1>1. PipelineInv => NoSilentLoss
  BY DEF PipelineInv
<1> QED BY <1>1, PipelineInvariant, PTL

(* A run that saves the watermark has its silver texts in the warehouse,   *)
(* through any merges of other runs and failed loads of other tables.      *)
THEOREM WatermarkFollowsSilver == Spec => []WatermarkAfterSilver
<1>1. PipelineInv => WatermarkAfterSilver
  BY DEF PipelineInv, WatermarkAfterSilver, Ended, RunOK, InTable
<1> QED BY <1>1, PipelineInvariant, PTL

(* Gold and shadow rows are backed by the silver layer of the lake,        *)
(* although their loads fail independently and a gold gate only logs.      *)
THEOREM GoldBacked == Spec => []GoldIsBacked
<1>1. PipelineInv => GoldIsBacked
  BY DEF PipelineInv
<1> QED BY <1>1, PipelineInvariant, PTL

=============================================================================
