------------------------------ MODULE CibChain ------------------------------
(***************************************************************************)
(* The daily chain that finds coordinated accounts and warns of them.      *)
(* The workflow of infra/workflows/mapear_daily_pipeline.yaml runs, each   *)
(* day, the social ingestion, resolve-personas, detect-communities and     *)
(* embed-social (services/graph-runner, services/embed-social-runner), the *)
(* dbt build and services/alert-runner; a job that fails ends the day.     *)
(*                                                                         *)
(*   - silver tables are written by append.  A view that keeps the latest  *)
(*     run's row of each key is a function of the key, overwritten by each *)
(*     load; rows of keys a later run does not write stay;                 *)
(*   - the stories a day may have (which accounts post what and when) are  *)
(*     a set of sets of activations: what is in by the day's ingestion,    *)
(*     and what only the next day's ingestion brings;                      *)
(*   - one region and one tenant: the queries filter on them.              *)
(* MaxDay and MaxFailures bound the run.                                   *)
(***************************************************************************)
EXTENDS Coactivation, AuthorResolver, CachedEncoder, FiniteSetsExt, Functions

CONSTANTS
    Accounts,       \* author -> [platform, handle, display]
    EarlyStories, LateStories,
    Cosine,         \* content -> content -> percent
    Lookback,       \* MAPEAR_GRAPH_LOOKBACK_DAYS of detect-communities
    PersonaLookback,
    EmbedLookback,
    Textless,       \* contents without a text
    Threshold,      \* cib_composite_score_threshold, in percent
    AgeDays,        \* cib_series_age_days
    AlertLines,     \* clusters an alert lists
    UsePersonas, UseEmbeddings, UseScores,  \* what detect-communities is to use
    MaxDay, MaxFailures

ASSUME CibAssumption ==
    /\ Lookback \in Nat /\ PersonaLookback \in Nat /\ EmbedLookback \in Nat
    /\ Threshold \in 0 .. 100 /\ AgeDays \in Nat
    /\ AlertLines \in Nat \ {0}
    /\ {UsePersonas, UseEmbeddings, UseScores} \subseteq BOOLEAN
    /\ MaxDay \in Nat /\ MaxFailures \in Nat

VARIABLES
    today, pc, failures,
    acts,           \* silver_author_activations, by day
    personas,       \* the latest persona of each account
    cache,          \* contents in the embedding cache
    embedded,       \* contents in silver_social_post_embeddings
    job,            \* what detect-communities has computed and not loaded
    silver,         \* the three tables it loads, as the views show them
    mart,           \* the three tables dbt builds from them
    alerts          \* the rows the last alert run sent

vars == <<today, pc, failures, acts, personas, cache, embedded, job, silver, mart, alerts>>

Stages == {"ingest", "personas", "communities", "load_communities", "load_scores",
           "load_series", "embed", "load_embeddings", "dbt", "alerts", "done", "aborted"}
Tables == {"communities", "scores", "series"}
NoJob == [communities |-> <<>>, scores |-> <<>>, series |-> <<>>]
Keys == (0 .. MaxDay) \X (0 .. Cardinality(DOMAIN Accounts))

Init ==
    /\ today = 0 /\ pc = "ingest" /\ failures = 0
    /\ acts = [d \in 0 .. MaxDay |-> {}]
    /\ personas = <<>>
    /\ cache = {} /\ embedded = {}
    /\ job = NoJob
    /\ silver = [t \in Tables |-> <<>>]
    /\ mart = [t \in Tables |-> <<>>]
    /\ alerts = {}

-----------------------------------------------------------------------------
(* A view keeps the latest row of each key.                                *)
Earliest(table, rows) ==
    [k \in DOMAIN table \cup DOMAIN rows |-> IF k \in DOMAIN table THEN table[k] ELSE rows[k]]
Latest(table, rows) ==
    [k \in DOMAIN table \cup DOMAIN rows |-> IF k \in DOMAIN rows THEN rows[k] ELSE table[k]]

(* The days a job with this lookback reads, the current one included.      *)
WindowWithoutFirst(days) == {d \in 0 .. MaxDay : d \in (today - days + 1) .. today}
Window(days) == {d \in 0 .. MaxDay : d \in (today - days) .. today}

(* The social pipelines bring the rest of yesterday and some of today.     *)
Ingest ==
    /\ pc = "ingest"
    /\ \E early \in EarlyStories, late \in LateStories :
           acts' = [d \in 0 .. MaxDay |->
                       acts[d] \cup (IF d = today THEN early
                                     ELSE IF d = today - 1 THEN late ELSE {})]
    /\ pc' = "personas"
    /\ UNCHANGED <<today, failures, personas, cache, embedded, job, silver, mart, alerts>>

(* resolve-personas: the accounts that posted lately, matched; an account  *)
(* that is in no persona today keeps the row of the last run that had one. *)
Records ==
    LET recent == UNION {acts[d] : d \in Window(PersonaLookback)}
    IN  {[author |-> a, platform |-> Accounts[a].platform,
          handle |-> Accounts[a].handle, display |-> Accounts[a].display,
          hashes |-> {r.hash : r \in {x \in recent : x.author = a}}] :
            a \in {r.author : r \in recent}}

PersonaRows(found) ==
    [a \in UNION found |-> CHOOSE m \in found : a \in m]
Resolved ==
    PersonaRows({{r.author : r \in p.members} : p \in ResolvePersonas(Records)})

RunPersonas ==
    /\ pc = "personas"
    /\ personas' = Latest(personas, Resolved)
    /\ pc' = "communities"
    /\ UNCHANGED <<today, failures, acts, cache, embedded, job, silver, mart, alerts>>

(* detect-communities: every day of the window is computed anew, each on   *)
(* its own activations.  Without communities nothing is loaded.            *)
PersonaLookup == IF UsePersonas THEN personas ELSE <<>>
Cosines == [h \in IF UseEmbeddings THEN embedded ELSE {} |-> Cosine[h]]
Activations == [d \in Window(Lookback) |-> acts[d]]

PairsOf(rows) == ComputeCoactivationScores(rows, PersonaLookup, Cosines)

ByDate(pairs) ==
    [d \in {e \in DOMAIN pairs : pairs[e] # {}} |-> DetectCommunities(pairs[d])]
Rows(pairs, byDate) ==
    {[date |-> p[1], cid |-> p[2].id, members |-> p[2].members,
      score |-> ScoreCommunity(p[2], pairs[p[1]])] :
        p \in UNION {{d} \X byDate[d] : d \in DOMAIN byDate}}

(* What the job writes for each of the three tables, by date and number.   *)
Written(found, series) ==
    LET keys == {<<f.date, f.cid>> : f \in found}
        at(k) == CHOOSE f \in found : <<f.date, f.cid>> = k
        row(k) == CHOOSE x \in series : <<x.date, x.cid>> = k
    IN  [communities |-> [k \in keys |-> at(k).members],
         scores |-> [k \in keys |-> [members |-> at(k).members, score |-> at(k).score]],
         series |-> [k \in keys |-> [members |-> at(k).members,
                                     sid |-> row(k).sid, start |-> row(k).start]]]

WrittenFrom(pairs, byDate) == Written(Rows(pairs, byDate), TrackClusterSeries(byDate))
DetectedFrom(pairs) == WrittenFrom(pairs, ByDate(pairs))
Detected == DetectedFrom([d \in Window(Lookback) |-> PairsOf(Activations[d])])

RunCommunities ==
    /\ pc = "communities"
    /\ job' = Detected
    /\ pc' = IF DOMAIN job'.communities = {} THEN "embed" ELSE "load_communities"
    /\ UNCHANGED <<today, failures, acts, personas, cache, embedded, silver, mart, alerts>>

(* Three loads, one after the other.  The view of the communities is not   *)
(* cut to the latest run: a key has the members of all runs that wrote it. *)
Appended(table, rows) ==
    [k \in DOMAIN table \cup DOMAIN rows |->
        (IF k \in DOMAIN table THEN table[k] ELSE {})
        \cup (IF k \in DOMAIN rows THEN rows[k] ELSE {})]

LoadCommunities ==
    /\ pc = "load_communities"
    /\ silver' = [silver EXCEPT !["communities"] = Appended(@, job.communities)]
    /\ pc' = IF UseScores THEN "load_scores" ELSE "embed"
    /\ job' = IF UseScores THEN job ELSE NoJob
    /\ UNCHANGED <<today, failures, acts, personas, cache, embedded, mart, alerts>>

LoadScores ==
    /\ pc = "load_scores"
    /\ silver' = [silver EXCEPT !["scores"] = Latest(@, job.scores)]
    /\ pc' = "load_series"
    /\ UNCHANGED <<today, failures, acts, personas, cache, embedded, job, mart, alerts>>

LoadSeries ==
    /\ pc = "load_series"
    /\ silver' = [silver EXCEPT !["series"] = Latest(@, job.series)]
    /\ job' = NoJob
    /\ pc' = "embed"
    /\ UNCHANGED <<today, failures, acts, personas, cache, embedded, mart, alerts>>

(* What embed-social computes (mapear_nlp/graph/run_social_embedding.py):  *)
(* vectors for the contents of recent posts, [day, hash], through the cache*)
(* of one model.  Posts without text are left out.                         *)
LoadPosts(posts) == {p \in posts : p.hash \notin Textless}

GroupByDay(posts) ==
    [d \in {p.day : p \in posts} |-> {p.hash : p \in {q \in posts : q.day = d}}]

(* A row for each content of the groups that are through.                  *)
EmbedRows(groups, through) == UNION {groups[d] : d \in through}

(* The encoder's call for a group has all its misses or raises, and then   *)
(* the groups after it are not encoded either.                             *)
Interrupted(groups) == (SUBSET DOMAIN groups) \ {DOMAIN groups}

(* embed-social runs behind the communities, so a post counts with its     *)
(* content from the next day's run on.  Without posts nothing is loaded.   *)
Posts ==
    LoadPosts(UNION {{[day |-> d, hash |-> r.hash] : r \in acts[d]} : d \in Window(EmbedLookback)})
Groups == GroupByDay(Posts)

RunEmbedSocial ==
    /\ pc = "embed"
    /\ \E encoded \in EncodeWithHashes(EmbedRows(Groups, DOMAIN Groups), cache) :
           cache' \in Stored(encoded, cache)
    /\ pc' = IF Posts = {} THEN "dbt" ELSE "load_embeddings"
    /\ UNCHANGED <<today, failures, acts, personas, embedded, job, silver, mart, alerts>>

LoadEmbeddings ==
    /\ pc = "load_embeddings"
    /\ embedded' = embedded \cup EmbedRows(Groups, DOMAIN Groups)
    /\ pc' = "dbt"
    /\ UNCHANGED <<today, failures, acts, personas, cache, job, silver, mart, alerts>>

(* Each incremental table merges the days from its own newest one on.      *)
MergedFrom(table) == IF DOMAIN table = {} THEN 0 ELSE Max({k[1] : k \in DOMAIN table})

RunDbt ==
    /\ pc = "dbt"
    /\ mart' = [t \in Tables |->
                   Latest(mart[t],
                          Restrict(silver[t], {k \in DOMAIN silver[t] : k[1] >= MergedFrom(mart[t])}))]
    /\ pc' = "alerts"
    /\ UNCHANGED <<today, failures, acts, personas, cache, embedded, job, silver, alerts>>

(* The alert query joins scores and series of yesterday and today.         *)
Alarming ==
    {[date |-> k[1], cid |-> k[2], score |-> mart["scores"][k].score,
      age |-> k[1] - mart["series"][k].start] :
        k \in {x \in DOMAIN mart["scores"] \cap DOMAIN mart["series"] :
                  /\ x[1] >= today - 1
                  /\ mart["scores"][x].score >= Threshold
                  /\ x[1] - mart["series"][x].start >= AgeDays}}

(* The message lists the highest scores, and the number of the others.     *)
Listed(rows) ==
    {top \in kSubset(Min({AlertLines, Cardinality(rows)}), rows) :
        \A r \in top, s \in rows \ top : r.score >= s.score}

RunAlerts ==
    /\ pc = "alerts"
    /\ alerts' \in Listed(Alarming)
    /\ pc' = "done"
    /\ UNCHANGED <<today, failures, acts, personas, cache, embedded, job, silver, mart>>

-----------------------------------------------------------------------------
(* A job raises, or is killed: the later stages do not run.                *)
JobFails ==
    /\ pc \in Stages \ {"alerts", "done", "aborted"}
    /\ failures < MaxFailures
    /\ failures' = failures + 1
    /\ job' = NoJob
    /\ pc' = "aborted"
    /\ UNCHANGED <<today, acts, personas, cache, embedded, silver, mart, alerts>>

(* What was encoded by then may be in the cache.                           *)
EncoderFails ==
    /\ pc = "embed"
    /\ failures < MaxFailures
    /\ \E through \in Interrupted(Groups) :
       \E encoded \in EncodeWithHashes(EmbedRows(Groups, through), cache) :
           cache' \in Stored(encoded, cache)
    /\ failures' = failures + 1
    /\ pc' = "aborted"
    /\ UNCHANGED <<today, acts, personas, embedded, job, silver, mart, alerts>>

(* The alert job catches the failure of its query, and that of the message,*)
(* and the workflow ends well.                                             *)
AlertFails ==
    /\ pc = "alerts"
    /\ failures < MaxFailures
    /\ failures' = failures + 1
    /\ pc' = "aborted"
    /\ UNCHANGED <<today, acts, personas, cache, embedded, job, silver, mart, alerts>>

NextDay ==
    /\ pc \in {"done", "aborted"}
    /\ today < MaxDay
    /\ today' = today + 1
    /\ pc' = "ingest"
    /\ alerts' = {}
    /\ UNCHANGED <<failures, acts, personas, cache, embedded, job, silver, mart>>

Next ==
    \/ Ingest \/ RunPersonas
    \/ RunCommunities \/ LoadCommunities \/ LoadScores \/ LoadSeries
    \/ RunEmbedSocial \/ LoadEmbeddings \/ RunDbt \/ RunAlerts
    \/ JobFails \/ EncoderFails \/ AlertFails \/ NextDay

Spec == Init /\ [][Next]_vars

-----------------------------------------------------------------------------
(* Type correctness of the chain's tables: keys are days and community     *)
(* numbers, scores are percentages, a series never starts after its row.   *)
TypeOK ==
    /\ today \in 0 .. MaxDay /\ pc \in Stages /\ failures \in 0 .. MaxFailures
    /\ DOMAIN personas \subseteq DOMAIN Accounts
    /\ \A a \in DOMAIN personas : a \in personas[a]
    /\ cache \cup embedded \subseteq DOMAIN Cosine
    /\ \A s \in {silver, mart} : \A t \in Tables : DOMAIN s[t] \subseteq Keys
    /\ \A s \in {silver, mart} :
           /\ \A k \in DOMAIN s["scores"] : s["scores"][k].score \in 0 .. 100
           /\ \A k \in DOMAIN s["series"] : s["series"][k].start \in 0 .. k[1]

(* An alert is about one community.  The three tables are joined by (date, *)
(* community number), a number every run gives anew: still, whenever an    *)
(* alert is sent, the score and the series it joins were computed for the  *)
(* same members, and the community table lists all of them, whatever load  *)
(* of an earlier day failed.                                               *)
AlertsAreOfOneCommunity ==
    \A a \in alerts :
        LET k == <<a.date, a.cid>>
        IN  /\ mart["scores"][k].members = mart["series"][k].members
            /\ k \in DOMAIN mart["communities"]
            /\ mart["scores"][k].members \subseteq mart["communities"][k]

(* A squad that was whole on AgeDays days and the day after them, scored   *)
(* at the threshold, is in the alerts of a workflow that ran to its end,   *)
(* whatever numbers it had on those days and whichever runs before failed  *)
(* (run_alerts: clusters that have been active for N+ days), unless as many*)
(* as an alert lists are, none with a lower score.                         *)
SustainedSquadsAlerted ==
    pc = "done" =>
        LET of == [d \in (today - 1 - AgeDays) .. today \cap 0 .. MaxDay |->
                      DetectCommunities(PairsOf(acts[d]))]
        IN  \A d \in (today - 1) .. today \cap AgeDays .. MaxDay : \A c \in of[d] :
                (/\ \A k \in 1 .. AgeDays :
                        \E e \in of[d - k] : e.members = c.members
                 /\ <<d, c.id>> \in DOMAIN mart["scores"]
                 /\ mart["scores"][<<d, c.id>>].score >= Threshold)
                => \/ \E a \in alerts : a.date = d /\ a.cid = c.id
                   \/ /\ Cardinality(alerts) = AlertLines
                      /\ \A a \in alerts : a.score >= mart["scores"][<<d, c.id>>].score

=============================================================================
