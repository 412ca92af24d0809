--------------------------- MODULE NarrativeJobs ---------------------------
(***************************************************************************)
(* The jobs of services/nlp-runner over what a batch of Enrichment has     *)
(* left in the warehouse: narratives are clustered, their stance is asked  *)
(* of a language model, and so is which candidate a mayor endorses, once a *)
(* day.  A job extracts its input, runs its command, and appends the       *)
(* command's output table by table.                                        *)
(*                                                                         *)
(* The jobs write different tables and caches, so a behaviour has runs of  *)
(* one of them.  Times are days.  MaxJobRuns bounds the runs.              *)
(***************************************************************************)
EXTENDS Enrichment, CachedEncoder, ConnectedComponents

CONSTANTS
    Jobs,           \* values of NLP_JOB
    Stances,        \* labels a model may give
    WindowDays,     \* _ENDORSEMENT_WINDOW_DAYS
    MaxEvents,      \* _ENDORSEMENT_MAX_EVENTS
    MaxJobRuns,
    Similarity,       \* content -> content -> cosine in percent
    HashRank,         \* content -> place in the order of the hashes
    Algorithm,        \* "hdbscan" or "cosine_threshold"
    MinSize,          \* cluster_min_size
    CosineThreshold   \* cluster_cosine_threshold, in percent

ASSUME JobsAssumption ==
    /\ NONE \notin Jobs
    /\ WindowDays \in Nat /\ MaxEvents \in Nat \ {0} /\ MaxJobRuns \in Nat
    /\ MinSize >= 2 /\ Algorithm \in {"hdbscan", "cosine_threshold"}

VARIABLES
    job,        \* NLP_JOB, once chosen
    runs, today,
    step,       \* "idle", "run", or the table that is loaded next
    cache,      \* question -> answer; content -> content for vectors
    output,     \* what the command of the current run has written
    loaded      \* <<run, table>> of the loads that ended well

jobVars == <<job, runs, today, step, cache, output, loaded>>
batchVars == vars

-----------------------------------------------------------------------------
(* The clusters of one day's narratives (mapear_nlp/clustering/narrative). *)
(* Narratives are known by their content hashes.  Their vectors have unit  *)
(* length, so the member nearest to the mean of a group is the one whose   *)
(* similarities to the members add up to most.                             *)
ThresholdGroups(items) ==
    Components(items, {{a, b} : a \in items, b \in items} \cap
                      {e \in SUBSET items : \A a, b \in e : a # b => Similarity[a][b] >= CosineThreshold})

(* The library's labels: any separate groups, the others noise.            *)
DensityGroups(items) ==
    {groups \in SUBSET (SUBSET items \ {{}}) : \A g, h \in groups : g # h => g \cap h = {}}

(* Fewer narratives than a cluster has are all noise, and so are groups    *)
(* smaller than that.                                                      *)
GroupsOf(items) ==
    IF Cardinality(items) < MinSize THEN {{}}
    ELSE {{g \in groups : Cardinality(g) >= MinSize} :
             groups \in IF Algorithm = "hdbscan" THEN DensityGroups(items) ELSE {ThresholdGroups(items)}}

(* Larger groups come first, equal ones by their first hashes.             *)
FirstHash(g) == Min({HashRank[h] : h \in g})
Precedes(g, h) ==
    \/ Cardinality(g) > Cardinality(h)
    \/ Cardinality(g) = Cardinality(h) /\ FirstHash(g) < FirstHash(h)

Nearness(h, g) == MapThenSumSet(LAMBDA m : Similarity[h][m], g)
Centroid(g) ==
    CHOOSE h \in g : \A m \in g \ {h} :
        \/ Nearness(h, g) > Nearness(m, g)
        \/ Nearness(h, g) = Nearness(m, g) /\ HashRank[h] < HashRank[m]

Member(h, g, id) ==
    [content_hash |-> h, cluster_id |-> id, cluster_size |-> Cardinality(g),
     member_role |-> IF h = Centroid(g) THEN "centroid" ELSE "member"]
Outlier(h) ==
    [content_hash |-> h, cluster_id |-> -1, cluster_size |-> 1, member_role |-> "outlier"]

(* One assignment for each narrative.                                      *)
Assignments(items, groups) ==
    {Outlier(h) : h \in items \ UNION groups} \cup
    UNION {{Member(h, g, Cardinality({f \in groups : Precedes(f, g)})) : h \in g} : g \in groups}

ComputeNarrativeClusters(items) == {Assignments(items, groups) : groups \in GroupsOf(items)}

-----------------------------------------------------------------------------
JobsInit ==
    /\ Init
    /\ job = NONE /\ runs = 0 /\ today = Now
    /\ step = "idle" /\ cache = <<>> /\ output = {} /\ loaded = {}

(* The next day's run, the first on the day of the batch.                  *)
StartJob ==
    /\ stage = "done" /\ step = "idle" /\ runs < MaxJobRuns
    /\ job' \in IF job = NONE THEN Jobs ELSE {job}
    /\ runs' = runs + 1
    /\ today' = Now + runs
    /\ step' = "run" /\ output' = {}
    /\ UNCHANGED <<batchVars, cache, loaded>>

-----------------------------------------------------------------------------
(* Gold rows that have a summary.                                          *)
Narratives == {g \in Range(gold) : g.narrative_summary # NONE}
Hashes == {g.content_hash : g \in Narratives}

(* An undated narrative counts with the day of the run.                    *)
DayOf(g) == IF g.published_at = NONE THEN today ELSE g.published_at
ByDay == [d \in {DayOf(g) : g \in Narratives} |->
             {g.content_hash : g \in {n \in Narratives : DayOf(n) = d}}]

Encoded(contents) ==
    UNION {Stored(misses, DOMAIN cache) : misses \in EncodeWithHashes(contents, DOMAIN cache)}

(* With nothing to do a job ends well.                                     *)
ClusterNarratives ==
    /\ step = "run" /\ job = "cluster-narratives"
    /\ \E found \in [DOMAIN ByDay -> UNION {ComputeNarrativeClusters(ByDay[d]) : d \in DOMAIN ByDay}] :
           /\ \A d \in DOMAIN ByDay : found[d] \in ComputeNarrativeClusters(ByDay[d])
           /\ output' = UNION {{[day |-> d] || a : a \in found[d]} : d \in DOMAIN ByDay}
    /\ \E entries \in Encoded(Hashes) : cache' = [h \in entries |-> h]
    /\ step' = IF Narratives = {} THEN "idle" ELSE "embeddings"
    /\ UNCHANGED <<batchVars, job, runs, today, loaded>>

-----------------------------------------------------------------------------
(* Questions to a model, asked = question -> the answers it may give: each *)
(* answered from the cache, or by the model, which may fail or answer what *)
(* cannot be parsed (NONE).  Only what was understood is kept, and the     *)
(* cache may fail to keep it.                                              *)
Answerings(asked) ==
    {f \in [DOMAIN asked -> UNION Range(asked) \cup {NONE}] :
        \A q \in DOMAIN asked : f[q] \in asked[q] \cup {NONE}}

Consulted(asked) ==
    {[hits |-> hits, said |-> Restrict(cache, hits) || fresh] :
        hits \in Read(DOMAIN asked, DOMAIN cache), fresh \in Answerings(asked)}

Understood(c) == {q \in DOMAIN c.said \ c.hits : c.said[q] # NONE}
Remembered(c) == {Restrict(c.said, kept) || cache : kept \in SUBSET Understood(c)}

(* The command is killed, or dies of an answer that is JSON and no object, *)
(* after some of the questions.                                            *)
InterruptedWith(asked) ==
    UNION {Remembered(c) : c \in UNION {Consulted(Restrict(asked, some)) : some \in SUBSET DOMAIN asked}}

StanceOf == [h \in Hashes |-> Stances]

ClassifyStances ==
    /\ step = "run" /\ job = "classify-stances"
    /\ \E c \in Consulted(StanceOf) :
           /\ cache' \in Remembered(c)
           /\ output' = {[content_hash |-> h, stance_label |-> c.said[h]] : h \in Hashes}
    /\ step' = IF Hashes = {} THEN "idle" ELSE "stances"
    /\ UNCHANGED <<batchVars, job, runs, today, loaded>>

-----------------------------------------------------------------------------
(* mapear_events: what is stored and of the state; an article mentions its *)
(* mayors and governors.                                                   *)
Event(r) ==
    IF r.source_type = "rss"
    THEN [id |-> r.content_hash, day |-> r.published_at,
          persons |-> r.mentioned_mayors \cup r.mentioned_governors]
    ELSE [id |-> r.post_id, day |-> r.published_at, persons |-> r.mentioned_persons]
Events == {Event(r) : r \in {s \in Range(stored) : s.is_rn_relevant}}

Mayors == {c.mayor : c \in CityRows}
Roster == {Politicians[i].name : i \in {p \in People : Politicians[p].role \in {"governor", "governor_candidate"}}}

CoMentions(mayor) ==
    {e \in Events : /\ e.day # NONE /\ e.day >= today - WindowDays
                    /\ mayor \in e.persons /\ e.persons \cap Roster # {}}
Investigated == {m \in Mayors : CoMentions(m) # {}}

(* The evidence on a mayor: the newest events, up to MaxEvents.            *)
Bundles(mayor) ==
    LET events == CoMentions(mayor)
    IN  {{e.id : e \in newest} :
            newest \in {top \in kSubset(Min({MaxEvents, Cardinality(events)}), events) :
                           \A e \in top, f \in events \ top : e.day >= f.day}}

(* The cache knows a question by the mayor and the events' ids.            *)
MayorHash(mayor, ids) == <<mayor>>
BundleHash(mayor, ids) == <<mayor, ids>>

(* An unknown candidate counts as undecided; the numbers cited that are *)
(* none of an event are dropped.                                           *)
Undecided == {"indefinido"}
Verdicts(ids) == [candidate : Roster \cup {Undecided}, evidence : SUBSET ids]

BundleOf(question, evidence) ==
    UNION {evidence[m] : m \in {x \in DOMAIN evidence : BundleHash(x, evidence[x]) = question}}
Questions(evidence) ==
    [q \in {BundleHash(m, evidence[m]) : m \in DOMAIN evidence} |-> Verdicts(BundleOf(q, evidence))]
Evidence == {b \in [Investigated -> UNION {Bundles(m) : m \in Investigated}] :
                \A m \in Investigated : b[m] \in Bundles(m)}

EndorsementRow(mayor, answer) ==
    [mayor |-> mayor,
     detected_candidate |-> IF answer = NONE THEN NONE ELSE answer.candidate,
     evidence_ids |-> IF answer = NONE THEN {} ELSE answer.evidence]

InvestigateEndorsements ==
    /\ step = "run" /\ job = "investigate-endorsements"
    /\ \E evidence \in Evidence :
       \E c \in Consulted(Questions(evidence)) :
           /\ cache' \in Remembered(c)
           /\ output' = {EndorsementRow(m, c.said[BundleHash(m, evidence[m])]) : m \in Investigated}
    /\ step' = IF Investigated = {} THEN "idle" ELSE "endorsements"
    /\ UNCHANGED <<batchVars, job, runs, today, loaded>>

-----------------------------------------------------------------------------
(* Output tables, appended one after the other; the files go with the job. *)
Load ==
    /\ step \in {"embeddings", "clusters", "stances", "endorsements"}
    /\ loaded' = loaded \cup {<<runs, step>>}
    /\ step' = IF step = "embeddings" THEN "clusters" ELSE "idle"
    /\ output' = IF step' = "idle" THEN {} ELSE output
    /\ UNCHANGED <<batchVars, job, runs, today, cache>>

(* The command or a load fails, and the job with it.                       *)
CommandFails ==
    /\ step = "run"
    /\ \/ /\ job = "cluster-narratives"
          /\ \E contents \in {UNION {ByDay[d] : d \in through} : through \in SUBSET DOMAIN ByDay} :
             \E entries \in Encoded(contents) : cache' = [h \in entries |-> h]
       \/ job = "classify-stances" /\ cache' \in InterruptedWith(StanceOf)
       \/ /\ job = "investigate-endorsements"
          /\ \E evidence \in Evidence : cache' \in InterruptedWith(Questions(evidence))
    /\ step' = "idle"
    /\ UNCHANGED <<batchVars, job, runs, today, output, loaded>>

LoadFails ==
    /\ step \notin {"idle", "run"}
    /\ step' = "idle" /\ output' = {}
    /\ UNCHANGED <<batchVars, job, runs, today, cache, loaded>>

JobsNext ==
    \/ Next /\ UNCHANGED jobVars
    \/ StartJob
    \/ ClusterNarratives \/ ClassifyStances \/ InvestigateEndorsements
    \/ Load \/ CommandFails \/ LoadFails

JobsSpec == JobsInit /\ [][JobsNext]_<<batchVars, jobVars>>

-----------------------------------------------------------------------------
(* What the clusters of a day are: every narrative has one row; clusters   *)
(* are numbered from 0, the larger first, and have one centroid each.      *)
WellClustered(found) ==
    LET of(id) == {r \in found : r.cluster_id = id}
        ids == {r.cluster_id : r \in found} \ {-1}
    IN  /\ \A r, s \in found : r.content_hash = s.content_hash => r = s
        /\ ids = 0 .. (Cardinality(ids) - 1)
        /\ \A id \in ids :
               /\ \A r \in of(id) : r.cluster_size = Cardinality(of(id)) /\ r.cluster_size >= MinSize
               /\ Cardinality({r \in of(id) : r.member_role = "centroid"}) = 1
               /\ \A next \in ids : next > id => Cardinality(of(next)) <= Cardinality(of(id))

(* The batch is as Enrichment has it; a run's clusters partition each day's*)
(* narratives, and are loaded after the vectors they were made of; a cache *)
(* only has answers.                                                       *)
TypeOK ==
    /\ EnrichmentTypeOK
    /\ job \in Jobs \cup {NONE} /\ runs \in 0 .. MaxJobRuns /\ today \in Now .. (Now + MaxJobRuns)
    /\ job = "cluster-narratives" =>
           /\ \A d \in {r.day : r \in output} : WellClustered({r \in output : r.day = d})
           /\ \A run \in 1 .. runs : <<run, "clusters">> \in loaded => <<run, "embeddings">> \in loaded
    /\ \A q \in DOMAIN cache : cache[q] # NONE

(* A verdict on a mayor, also one that an earlier day's run left in the    *)
(* cache, cites only events that are in today's evidence: in the window,   *)
(* and of the mayor with a candidate.                                      *)
VerdictsCiteTheirBundle ==
    job = "investigate-endorsements" =>
        \A row \in output :
            /\ row.detected_candidate \in Roster \cup {Undecided, NONE}
            /\ row.evidence_ids \subseteq {e.id : e \in CoMentions(row.mayor)}
=============================================================================
