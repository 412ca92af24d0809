--------------------------- MODULE CibChain_proof ---------------------------
(***************************************************************************)
(* Proofs about CibChain: an alert joins the rows of one community, for    *)
(* any accounts and stories, any windows, and jobs that fail at any stage  *)
(* of any day.  What the folds and the sums of the detection compute plays *)
(* no part in it.                                                          *)
(***************************************************************************)
EXTENDS CibChain, WellFoundedInduction, TLAPS

-----------------------------------------------------------------------------
(* The inductive invariant.  A day's run writes no key of a later date, and*)
(* writes the scores before the series: of the keys of today and yesterday *)
(* no series is older than the scores, unless a run died between the two   *)
(* loads, and then it sent nothing.                                        *)
BeforeSeries == {"ingest", "personas", "communities", "load_communities", "load_scores",
                 "load_series"}
Loads == {"load_communities", "load_scores", "load_series"}

Dated(k, day) == k = <<k[1], k[2]>> /\ k[1] \in 0 .. day

TablesDated ==
  /\ today \in Nat /\ pc \in Stages
  /\ silver = [t \in Tables |-> silver[t]] /\ mart = [t \in Tables |-> mart[t]]
  /\ \A t \in Tables : \A k \in DOMAIN silver[t] : Dated(k, today)
  /\ \A t \in Tables : DOMAIN mart[t] \subseteq DOMAIN silver[t]
  /\ pc \in BeforeSeries => \A k \in DOMAIN silver["series"] : k[1] < today
  /\ pc \notin {"alerts", "done", "aborted"}
       => \A t \in Tables : \A k \in DOMAIN mart[t] : k[1] < today

(* What detect-communities has yet to load: three tables with one set of   *)
(* keys, and the same members for each.                                    *)
JobIsOne ==
  pc \in Loads =>
    /\ DOMAIN job.scores = DOMAIN job.communities
    /\ DOMAIN job.series = DOMAIN job.communities
    /\ \A k \in DOMAIN job.communities :
         /\ Dated(k, today)
         /\ job.scores[k].members = job.communities[k]
         /\ job.series[k].members = job.communities[k]

Lists(communities, k, members) == k \in DOMAIN communities /\ members \subseteq communities[k]

Covered ==
  /\ \A k \in DOMAIN silver["scores"] :
       Lists(silver["communities"], k, silver["scores"][k].members)
  /\ pc = "load_scores" =>
       \A k \in DOMAIN job.scores : Lists(silver["communities"], k, job.scores[k].members)

SameMembers(tables, day) ==
  \A k \in DOMAIN tables["scores"] \cap DOMAIN tables["series"] :
    k[1] >= day => tables["scores"][k].members = tables["series"][k].members

Agreement ==
  /\ pc \notin {"load_series", "aborted"} => SameMembers(silver, today - 1)
  /\ pc = "aborted" => SameMembers(silver, today)
  /\ pc = "load_series" =>
       /\ \A k \in DOMAIN job.series :
            /\ k \in DOMAIN silver["scores"]
            /\ silver["scores"][k].members = job.series[k].members
       /\ \A k \in (DOMAIN silver["scores"] \cap DOMAIN silver["series"]) \ DOMAIN job.series :
            k[1] >= today - 1 => silver["scores"][k].members = silver["series"][k].members

MartCovered ==
  \A k \in DOMAIN mart["scores"] \cap DOMAIN mart["series"] :
    k[1] >= today - 1 => Lists(mart["communities"], k, mart["scores"][k].members)

Reported ==
  /\ pc \in {"alerts", "done"} => SameMembers(mart, today - 1) /\ MartCovered
  /\ pc # "done" => alerts = {}
  /\ \A a \in alerts :
       LET k == <<a.date, a.cid>>
       IN  k \in DOMAIN mart["scores"] \cap DOMAIN mart["series"] /\ a.date >= today - 1

CibInv == TablesDated /\ JobIsOne /\ Covered /\ Agreement /\ Reported
-----------------------------------------------------------------------------
(* Facts about numbers and tables.                                         *)
NatLess == {ss \in Nat \X Nat : ss[1] < ss[2]}

LEMMA SmallestNat ==
  ASSUME NEW T \in SUBSET Nat, T # {}
  PROVE  \E x \in T : \A y \in T : x <= y
<1>1. IsWellFoundedOn(NatLess, Nat)
  BY NatLessThanWellFounded DEF OpToRel, NatLess
<1>2. PICK x \in T : \A y \in T : ~ (<<y, x>> \in NatLess)
  BY <1>1, WFMin
<1>3. \A y \in T : ~ (y < x)
  BY <1>2 DEF NatLess
<1> QED BY <1>3

LEMMA LargestNat ==
  ASSUME NEW S \in SUBSET Nat, S # {}, NEW n \in Nat, \A x \in S : x < n
  PROVE  Max(S) \in S
<1> DEFINE bounds == {m \in Nat : \A x \in S : x <= m}
<1>1. bounds \in SUBSET Nat /\ n \in bounds
  OBVIOUS
<1>2. PICK m \in bounds : \A y \in bounds : m <= y
  BY <1>1, SmallestNat
<1>3. m \in S
  <2> SUFFICES ASSUME m \notin S PROVE FALSE
    OBVIOUS
  <2>1. PICK x \in S : TRUE
    OBVIOUS
  <2>2. m - 1 \in Nat /\ \A y \in S : y <= m - 1
    BY <2>1
  <2>3. m - 1 \in bounds
    BY <2>2
  <2> QED BY <2>2, <2>3, <1>2
<1>4. \A x \in S : m >= x
  BY <1>2
<1> QED BY <1>3, <1>4 DEF Max

LEMMA AppendedRows ==
  ASSUME NEW table, NEW rows
  PROVE  /\ DOMAIN Appended(table, rows) = DOMAIN table \cup DOMAIN rows
         /\ \A k \in DOMAIN rows : rows[k] \subseteq Appended(table, rows)[k]
         /\ \A k \in DOMAIN table : table[k] \subseteq Appended(table, rows)[k]
BY DEF Appended

(* detect-communities writes three tables of one set of keys.              *)
LEMMA WrittenIsOne ==
  ASSUME NEW found, NEW series, NEW w, w = Written(found, series)
  PROVE  /\ DOMAIN w.scores = DOMAIN w.communities
         /\ DOMAIN w.series = DOMAIN w.communities
         /\ \A k \in DOMAIN w.communities :
              /\ w.scores[k].members = w.communities[k]
              /\ w.series[k].members = w.communities[k]
              /\ \E f \in found : k = <<f.date, f.cid>>
<1> DEFINE keys == {<<f.date, f.cid>> : f \in found}
           at(k) == CHOOSE f \in found : <<f.date, f.cid>> = k
           row(k) == CHOOSE x \in series : <<x.date, x.cid>> = k
<1>1. w = [communities |-> [k \in keys |-> at(k).members],
           scores |-> [k \in keys |-> [members |-> at(k).members, score |-> at(k).score]],
           series |-> [k \in keys |-> [members |-> at(k).members,
                                       sid |-> row(k).sid, start |-> row(k).start]]]
  BY DEF Written
<1>2. \A k \in keys : \E f \in found : k = <<f.date, f.cid>>
  OBVIOUS
<1> HIDE DEF keys, at, row
<1> QED BY <1>1, <1>2

LEMMA RowDates ==
  ASSUME NEW pairs, NEW byDate, NEW f \in Rows(pairs, byDate)
  PROVE  f.date \in DOMAIN byDate
<1>1. PICK p \in UNION {{d} \X byDate[d] : d \in DOMAIN byDate} : f.date = p[1]
  BY DEF Rows
<1>2. PICK d \in DOMAIN byDate : p \in {d} \X byDate[d]
  BY <1>1
<1> QED BY <1>1, <1>2

LEMMA DetectedIsOne ==
  ASSUME today \in Nat, job' = Detected
  PROVE  /\ DOMAIN job'.scores = DOMAIN job'.communities
         /\ DOMAIN job'.series = DOMAIN job'.communities
         /\ \A k \in DOMAIN job'.communities :
              /\ Dated(k, today)
              /\ job'.scores[k].members = job'.communities[k]
              /\ job'.series[k].members = job'.communities[k]
<1> DEFINE pairs == [d \in Window(Lookback) |-> PairsOf(Activations[d])]
           byDate == ByDate(pairs)
<1>1. job' = Written(Rows(pairs, byDate), TrackClusterSeries(byDate))
  BY DEF Detected, DetectedFrom, WrittenFrom
<1>2. DOMAIN byDate \subseteq 0 .. today
  <2>1. DOMAIN pairs = Window(Lookback)
    OBVIOUS
  <2>2. DOMAIN byDate \subseteq DOMAIN pairs
    BY DEF ByDate
  <2>3. Window(Lookback) \subseteq 0 .. today
    BY CibAssumption DEF Window
  <2> QED BY <2>1, <2>2, <2>3
<1>3. \A f \in Rows(pairs, byDate) : f.date \in 0 .. today
  BY <1>2, RowDates
<1> HIDE DEF pairs, byDate
<1> QED BY <1>1, <1>3, WrittenIsOne DEF Dated

-----------------------------------------------------------------------------
LEMMA InitCib == Init => CibInv
<1> SUFFICES ASSUME Init PROVE CibInv
  OBVIOUS
<1>1. \A t \in Tables : DOMAIN silver[t] = {} /\ DOMAIN mart[t] = {}
  BY DEF Init
<1>2. {"communities", "scores", "series"} = Tables
  BY DEF Tables
<1>3. TablesDated
  BY <1>1, <1>2 DEF Init, TablesDated, Stages
<1> QED
  BY <1>1, <1>2, <1>3
  DEF Init, CibInv, JobIsOne, Loads, Covered, Agreement, SameMembers, Reported

(* Stages that load none of the tables.                                    *)
LEMMA OtherStages ==
  ASSUME CibInv, Ingest \/ RunPersonas \/ RunEmbedSocial \/ LoadEmbeddings
                   \/ EncoderFails \/ AlertFails
  PROVE  CibInv'
<1>1. UNCHANGED <<today, job, silver, mart, alerts>>
  BY DEF Ingest, RunPersonas, RunEmbedSocial, LoadEmbeddings, EncoderFails, AlertFails
<1>2. \/ pc = "ingest" /\ pc' = "personas"
      \/ pc = "personas" /\ pc' = "communities"
      \/ pc = "embed" /\ pc' \in {"dbt", "load_embeddings", "aborted"}
      \/ pc = "load_embeddings" /\ pc' = "dbt"
      \/ pc = "alerts" /\ pc' = "aborted"
  BY DEF Ingest, RunPersonas, RunEmbedSocial, LoadEmbeddings, EncoderFails, AlertFails
<1>3. TablesDated'
  BY <1>1, <1>2 DEF CibInv, TablesDated, Stages, BeforeSeries, Dated
<1>4. JobIsOne' /\ Covered'
  BY <1>1, <1>2 DEF CibInv, JobIsOne, Loads, Covered
<1>5. Agreement'
  BY <1>1, <1>2 DEF CibInv, TablesDated, Agreement, SameMembers, Dated, Tables
<1>6. Reported'
  BY <1>1, <1>2 DEF CibInv, Reported
<1> QED BY <1>3, <1>4, <1>5, <1>6 DEF CibInv

LEMMA DetectionKeeps ==
  ASSUME CibInv, RunCommunities
  PROVE  CibInv'
<1>1. UNCHANGED <<today, silver, mart, alerts>> /\ pc = "communities"
      /\ pc' \in {"embed", "load_communities"}
  BY DEF RunCommunities
<1>2. TablesDated'
  BY <1>1 DEF CibInv, TablesDated, Stages, BeforeSeries, Dated
<1>3. JobIsOne'
  <2>1. today \in Nat /\ job' = Detected
    BY DEF RunCommunities, CibInv, TablesDated
  <2> QED BY <2>1, <1>1, DetectedIsOne DEF JobIsOne, Dated
<1>4. Covered' /\ Agreement' /\ Reported'
  BY <1>1 DEF CibInv, Covered, Agreement, SameMembers, Reported
<1> QED BY <1>2, <1>3, <1>4 DEF CibInv

LEMMA FirstLoad ==
  ASSUME CibInv, LoadCommunities
  PROVE  CibInv'
<1>1. UNCHANGED <<today, mart, alerts>> /\ pc = "load_communities"
      /\ pc' = (IF UseScores THEN "load_scores" ELSE "embed")
      /\ pc' \in {"load_scores", "embed"}
  BY DEF LoadCommunities
<1>2. /\ silver' = [silver EXCEPT !["communities"] =
                      Appended(silver["communities"], job.communities)]
      /\ pc' = "load_scores" => job' = job
  BY DEF LoadCommunities
<1>3. /\ silver'["communities"] = Appended(silver["communities"], job.communities)
      /\ silver'["scores"] = silver["scores"] /\ silver'["series"] = silver["series"]
      /\ silver' = [t \in Tables |-> silver'[t]]
  BY <1>2 DEF CibInv, TablesDated, Tables
<1>4. /\ DOMAIN silver'["communities"] =
           DOMAIN silver["communities"] \cup DOMAIN job.communities
      /\ \A k \in DOMAIN job.communities : job.communities[k] \subseteq silver'["communities"][k]
      /\ \A k \in DOMAIN silver["communities"] :
           silver["communities"][k] \subseteq silver'["communities"][k]
  BY <1>3, AppendedRows
<1>5. \A k \in DOMAIN job.communities : Dated(k, today)
  BY <1>1 DEF CibInv, JobIsOne, Loads
<1>6. TablesDated'
  BY <1>1, <1>3, <1>4, <1>5 DEF CibInv, TablesDated, Tables, Stages, BeforeSeries, Dated
<1>7. JobIsOne'
  BY <1>1, <1>2 DEF CibInv, JobIsOne, Loads, Dated
<1>8. Covered'
  <2>1. \A k \in DOMAIN silver["scores"] :
          Lists(silver'["communities"], k, silver["scores"][k].members)
    BY <1>4 DEF CibInv, Covered, Lists
  <2>2. ASSUME pc' = "load_scores", NEW k \in DOMAIN job.scores
        PROVE  Lists(silver'["communities"], k, job.scores[k].members)
    BY <1>1, <1>4 DEF CibInv, JobIsOne, Loads, Lists
  <2> QED BY <1>2, <1>3, <2>1, <2>2 DEF Covered
<1>9. Agreement'
  BY <1>1, <1>3 DEF CibInv, Agreement, SameMembers
<1>10. Reported'
  BY <1>1 DEF CibInv, Reported
<1> QED BY <1>6, <1>7, <1>8, <1>9, <1>10 DEF CibInv

LEMMA SecondLoad ==
  ASSUME CibInv, LoadScores
  PROVE  CibInv'
<1>1. UNCHANGED <<today, job, mart, alerts>> /\ pc = "load_scores" /\ pc' = "load_series"
  BY DEF LoadScores
<1>2. /\ silver'["scores"] = Latest(silver["scores"], job.scores)
      /\ silver'["communities"] = silver["communities"]
      /\ silver'["series"] = silver["series"]
      /\ silver' = [t \in Tables |-> silver'[t]]
  BY DEF LoadScores, CibInv, TablesDated, Tables
<1>3. /\ DOMAIN silver'["scores"] = DOMAIN silver["scores"] \cup DOMAIN job.scores
      /\ \A k \in DOMAIN job.scores : silver'["scores"][k] = job.scores[k]
      /\ \A k \in DOMAIN silver["scores"] \ DOMAIN job.scores :
           silver'["scores"][k] = silver["scores"][k]
  BY <1>2 DEF Latest
<1>4. /\ DOMAIN job.series = DOMAIN job.scores
      /\ \A k \in DOMAIN job.scores : /\ Dated(k, today)
                                      /\ job.series[k].members = job.scores[k].members
  BY <1>1 DEF CibInv, JobIsOne, Loads
<1>5. TablesDated'
  BY <1>1, <1>2, <1>3, <1>4 DEF CibInv, TablesDated, Tables, Stages, BeforeSeries, Dated
<1>6. JobIsOne'
  BY <1>1 DEF CibInv, JobIsOne, Loads, Dated
<1>7. Covered'
  BY <1>1, <1>2, <1>3 DEF CibInv, Covered
<1>8. Agreement'
  <2>1. \A k \in DOMAIN job.series :
          /\ k \in DOMAIN silver'["scores"]
          /\ silver'["scores"][k].members = job.series[k].members
    BY <1>3, <1>4
  <2>2. ASSUME NEW k \in (DOMAIN silver'["scores"] \cap DOMAIN silver["series"])
                           \ DOMAIN job.series,
               k[1] >= today - 1
        PROVE  silver'["scores"][k].members = silver["series"][k].members
    BY <1>1, <1>3, <1>4, <2>2 DEF CibInv, Agreement, SameMembers
  <2> QED BY <1>1, <1>2, <2>1, <2>2 DEF Agreement
<1>9. Reported'
  BY <1>1 DEF CibInv, Reported
<1> QED BY <1>5, <1>6, <1>7, <1>8, <1>9 DEF CibInv

LEMMA ThirdLoad ==
  ASSUME CibInv, LoadSeries
  PROVE  CibInv'
<1>1. UNCHANGED <<today, mart, alerts>> /\ pc = "load_series" /\ pc' = "embed"
  BY DEF LoadSeries
<1>2. /\ silver'["series"] = Latest(silver["series"], job.series)
      /\ silver'["communities"] = silver["communities"]
      /\ silver'["scores"] = silver["scores"]
      /\ silver' = [t \in Tables |-> silver'[t]]
  BY DEF LoadSeries, CibInv, TablesDated, Tables
<1>3. /\ DOMAIN silver'["series"] = DOMAIN silver["series"] \cup DOMAIN job.series
      /\ \A k \in DOMAIN job.series : silver'["series"][k] = job.series[k]
      /\ \A k \in DOMAIN silver["series"] \ DOMAIN job.series :
           silver'["series"][k] = silver["series"][k]
  BY <1>2 DEF Latest
<1>4. \A k \in DOMAIN job.series : Dated(k, today)
  BY <1>1 DEF CibInv, JobIsOne, Loads
<1>5. TablesDated'
  BY <1>1, <1>2, <1>3, <1>4 DEF CibInv, TablesDated, Tables, Stages, BeforeSeries, Dated
<1>6. JobIsOne' /\ Covered' /\ Reported'
  BY <1>1, <1>2 DEF CibInv, JobIsOne, Loads, Covered, Reported
<1>7. SameMembers(silver', today - 1)
  BY <1>1, <1>2, <1>3 DEF CibInv, Agreement, SameMembers
<1>8. Agreement'
  BY <1>1, <1>7 DEF Agreement
<1> QED BY <1>5, <1>6, <1>8 DEF CibInv

(* dbt merges all of yesterday and today: the marts it finds are older.    *)
LEMMA BuildIsFresh ==
  ASSUME CibInv, RunDbt, NEW t \in Tables
  PROVE  /\ DOMAIN mart'[t] \subseteq DOMAIN silver[t]
         /\ \A k \in DOMAIN silver[t] :
              k[1] >= today - 1 => k \in DOMAIN mart'[t] /\ mart'[t][k] = silver[t][k]
<1> DEFINE recent == {k \in DOMAIN silver[t] : k[1] >= MergedFrom(mart[t])}
           days == {k[1] : k \in DOMAIN mart[t]}
<1>1. pc = "dbt" /\ today \in Nat
  BY DEF RunDbt, CibInv, TablesDated
<1>2. mart'[t] = Latest(mart[t], Restrict(silver[t], recent))
  BY DEF RunDbt
<1>3. \A k \in DOMAIN silver[t] : k[1] \in Nat
  BY <1>1 DEF CibInv, TablesDated, Dated
<1>4. \A k \in DOMAIN mart[t] : k \in DOMAIN silver[t] /\ k[1] \in Nat /\ k[1] < today
  BY <1>1, <1>3 DEF CibInv, TablesDated
<1>5. MergedFrom(mart[t]) = 0 \/ (MergedFrom(mart[t]) \in Nat /\ MergedFrom(mart[t]) < today)
  <2>1. CASE DOMAIN mart[t] = {}
    BY <2>1 DEF MergedFrom
  <2>2. CASE DOMAIN mart[t] # {}
    <3>1. days \in SUBSET Nat /\ days # {} /\ \A d \in days : d < today
      BY <1>4, <2>2
    <3> HIDE DEF days
    <3>2. Max(days) \in days
      BY <1>1, <3>1, LargestNat
    <3>3. MergedFrom(mart[t]) = Max(days)
      BY <2>2 DEF MergedFrom, days
    <3> QED BY <3>1, <3>2, <3>3
  <2> QED BY <2>1, <2>2
<1>6. \A k \in DOMAIN silver[t] : k[1] >= today - 1 => k \in recent
  BY <1>1, <1>3, <1>5
<1>7. recent \subseteq DOMAIN silver[t]
  OBVIOUS
<1> HIDE DEF recent
<1>8. /\ DOMAIN mart'[t] = DOMAIN mart[t] \cup recent
      /\ \A k \in recent : mart'[t][k] = silver[t][k]
  BY <1>2 DEF Latest, Restrict
<1> QED BY <1>4, <1>6, <1>7, <1>8

LEMMA BuildKeeps ==
  ASSUME CibInv, RunDbt
  PROVE  CibInv'
<1>1. UNCHANGED <<today, job, silver, alerts>> /\ pc = "dbt" /\ pc' = "alerts"
  BY DEF RunDbt
<1>2. {"communities", "scores", "series"} = Tables /\ mart' = [t \in Tables |-> mart'[t]]
  BY DEF RunDbt, Tables
<1>3. \A t \in Tables :
        /\ DOMAIN mart'[t] \subseteq DOMAIN silver[t]
        /\ \A k \in DOMAIN silver[t] :
             k[1] >= today - 1 => k \in DOMAIN mart'[t] /\ mart'[t][k] = silver[t][k]
  BY BuildIsFresh
<1>4. TablesDated'
  BY <1>1, <1>2, <1>3 DEF CibInv, TablesDated, Stages, BeforeSeries, Dated
<1>5. JobIsOne' /\ Covered' /\ Agreement'
  BY <1>1 DEF CibInv, JobIsOne, Loads, Covered, Agreement
<1>6. SameMembers(mart', today - 1)
  <2>1. SameMembers(silver, today - 1)
    BY <1>1 DEF CibInv, Agreement
  <2> QED BY <1>2, <1>3, <2>1 DEF SameMembers
<1>7. ASSUME NEW k \in DOMAIN mart'["scores"], k[1] >= today - 1
      PROVE  Lists(mart'["communities"], k, mart'["scores"][k].members)
  <2>1. k \in DOMAIN silver["scores"] /\ mart'["scores"][k] = silver["scores"][k]
    BY <1>2, <1>3, <1>7
  <2>2. Lists(silver["communities"], k, silver["scores"][k].members)
    BY <2>1 DEF CibInv, Covered
  <2> QED BY <1>2, <1>3, <1>7, <2>1, <2>2 DEF Lists
<1>8. alerts' = {}
  BY <1>1 DEF CibInv, Reported
<1>9. Reported'
  BY <1>1, <1>6, <1>7, <1>8 DEF Reported, MartCovered
<1> QED BY <1>4, <1>5, <1>9 DEF CibInv

LEMMA ReportKeeps ==
  ASSUME CibInv, RunAlerts
  PROVE  CibInv'
<1>1. UNCHANGED <<today, job, silver, mart>> /\ pc = "alerts" /\ pc' = "done"
  BY DEF RunAlerts
<1>2. TablesDated' /\ JobIsOne' /\ Covered' /\ Agreement'
  BY <1>1 DEF CibInv, TablesDated, Stages, BeforeSeries, Dated, JobIsOne, Loads, Covered,
              Agreement, SameMembers
<1>3. alerts' \subseteq Alarming
  BY DEF RunAlerts, Listed, kSubset
<1>4. \A a \in alerts' :
        /\ <<a.date, a.cid>> \in DOMAIN mart["scores"] \cap DOMAIN mart["series"]
        /\ a.date >= today - 1
  <2> SUFFICES ASSUME NEW a \in Alarming
               PROVE  /\ <<a.date, a.cid>> \in DOMAIN mart["scores"] \cap DOMAIN mart["series"]
                      /\ a.date >= today - 1
    BY <1>3
  <2>1. PICK k \in DOMAIN mart["scores"] \cap DOMAIN mart["series"] :
          k[1] >= today - 1 /\ a.date = k[1] /\ a.cid = k[2]
    BY DEF Alarming
  <2>2. k = <<k[1], k[2]>>
    BY DEF CibInv, TablesDated, Dated, Tables
  <2> QED BY <2>1, <2>2
<1>5. Reported'
  BY <1>1, <1>4 DEF CibInv, Reported, SameMembers, MartCovered
<1> QED BY <1>2, <1>5 DEF CibInv

LEMMA FailureKeeps ==
  ASSUME CibInv, JobFails
  PROVE  CibInv'
<1>1. UNCHANGED <<today, silver, mart, alerts>> /\ pc' = "aborted"
      /\ pc \in Stages \ {"alerts", "done", "aborted"}
  BY DEF JobFails
<1>2. TablesDated'
  BY <1>1 DEF CibInv, TablesDated, Stages, BeforeSeries, Dated
<1>3. JobIsOne' /\ Covered'
  BY <1>1 DEF CibInv, JobIsOne, Loads, Covered
<1>4. SameMembers(silver, today)
  <2>1. CASE pc \in BeforeSeries
    <3>1. \A k \in DOMAIN silver["series"] : k[1] < today /\ k[1] \in Nat /\ today \in Nat
      BY <2>1 DEF CibInv, TablesDated, Dated, Tables
    <3>2. \A k \in DOMAIN silver["series"] : ~ k[1] >= today
      BY <3>1
    <3> QED BY <3>2 DEF SameMembers
  <2>2. CASE pc \notin BeforeSeries
    <3>1. SameMembers(silver, today - 1)
      BY <1>1, <2>2 DEF CibInv, Agreement, BeforeSeries
    <3>2. \A k \in DOMAIN silver["series"] : k[1] \in Nat /\ today \in Nat
      BY DEF CibInv, TablesDated, Dated, Tables
    <3> QED BY <3>1, <3>2 DEF SameMembers
  <2> QED BY <2>1, <2>2
<1>5. Agreement'
  BY <1>1, <1>4 DEF Agreement
<1>6. Reported'
  BY <1>1 DEF CibInv, Reported
<1> QED BY <1>2, <1>3, <1>5, <1>6 DEF CibInv

LEMMA DayKeeps ==
  ASSUME CibInv, NextDay
  PROVE  CibInv'
<1>1. UNCHANGED <<job, silver, mart>> /\ pc \in {"done", "aborted"}
      /\ pc' = "ingest" /\ today' = today + 1 /\ alerts' = {}
  BY DEF NextDay
<1>2. today \in Nat /\ \A t \in Tables : \A k \in DOMAIN silver[t] : Dated(k, today)
  BY DEF CibInv, TablesDated
<1>3. \A t \in Tables : \A k \in DOMAIN silver[t] :
        k = <<k[1], k[2]>> /\ k[1] \in 0 .. today' /\ k[1] < today' /\ k[1] \in Nat
  BY <1>1, <1>2 DEF Dated
<1>4. TablesDated'
  <2>1. \A t \in Tables : DOMAIN mart[t] \subseteq DOMAIN silver[t]
    BY DEF CibInv, TablesDated
  <2>2. \A t \in Tables : \A k \in DOMAIN mart[t] : k[1] < today'
    BY <1>3, <2>1
  <2>3. \A t \in Tables : \A k \in DOMAIN silver[t] : Dated(k, today')
    BY <1>3 DEF Dated
  <2>4. \A k \in DOMAIN silver["series"] : k[1] < today'
    BY <1>3 DEF Tables
  <2>5. silver = [t \in Tables |-> silver[t]] /\ mart = [t \in Tables |-> mart[t]]
    BY DEF CibInv, TablesDated
  <2>6. today' \in Nat /\ pc' \in Stages
    BY <1>1, <1>2 DEF Stages
  <2> QED BY <1>1, <2>1, <2>2, <2>3, <2>4, <2>5, <2>6 DEF TablesDated
<1>5. JobIsOne' /\ Covered'
  BY <1>1 DEF CibInv, JobIsOne, Loads, Covered
<1>6. SameMembers(silver, today)
  <2>1. SameMembers(silver, today) \/ SameMembers(silver, today - 1)
    BY <1>1 DEF CibInv, Agreement
  <2>2. \A k \in DOMAIN silver["scores"] : k[1] \in Nat /\ today \in Nat
    BY <1>2, <1>3 DEF Tables
  <2> QED BY <2>1, <2>2 DEF SameMembers
<1>7. today' - 1 = today
  BY <1>1, <1>2
<1>8. Agreement'
  BY <1>1, <1>6, <1>7 DEF Agreement
<1>9. Reported'
  BY <1>1 DEF Reported
<1> QED BY <1>4, <1>5, <1>8, <1>9 DEF CibInv

LEMMA NextCib == CibInv /\ [Next]_vars => CibInv'
<1> SUFFICES ASSUME CibInv, [Next]_vars PROVE CibInv'
  OBVIOUS
<1>1. CASE UNCHANGED vars
  <2>1. UNCHANGED <<today, pc, job, silver, mart, alerts>>
    BY <1>1 DEF vars
  <2>2. TablesDated' /\ JobIsOne'
    BY <2>1 DEF CibInv, TablesDated, JobIsOne, Dated
  <2>3. Covered' /\ Agreement' /\ Reported'
    BY <2>1 DEF CibInv, Covered, Agreement, SameMembers, Reported, MartCovered
  <2> QED BY <2>2, <2>3 DEF CibInv
<1> QED
  BY <1>1, OtherStages, DetectionKeeps, FirstLoad, SecondLoad, ThirdLoad, BuildKeeps,
     ReportKeeps, FailureKeeps, DayKeeps DEF Next

LEMMA CibInvariant == Spec => []CibInv
BY InitCib, NextCib, PTL DEF Spec

(* Whenever an alert is sent, the score and the series it joins by date and*)
(* number were computed for the same members, and the community table lists*)
(* all of them, whichever loads and jobs failed on this day and before.    *)
THEOREM AlertsJoinOneCommunity == Spec => []AlertsAreOfOneCommunity
<1>1. ASSUME CibInv PROVE AlertsAreOfOneCommunity
  <2> SUFFICES ASSUME NEW a \in alerts
               PROVE  LET k == <<a.date, a.cid>>
                      IN  /\ mart["scores"][k].members = mart["series"][k].members
                          /\ k \in DOMAIN mart["communities"]
                          /\ mart["scores"][k].members \subseteq mart["communities"][k]
    BY DEF AlertsAreOfOneCommunity
  <2> DEFINE k == <<a.date, a.cid>>
  <2>1. pc = "done" /\ SameMembers(mart, today - 1) /\ MartCovered
    BY <1>1 DEF CibInv, Reported
  <2>2. /\ k \in DOMAIN mart["scores"] \cap DOMAIN mart["series"]
        /\ a.date >= today - 1
    BY <1>1 DEF CibInv, Reported
  <2>3. k[1] >= today - 1
    BY <2>2
  <2> HIDE DEF k
  <2>4. /\ mart["scores"][k].members = mart["series"][k].members
        /\ Lists(mart["communities"], k, mart["scores"][k].members)
    BY <2>1, <2>2, <2>3 DEF SameMembers, MartCovered
  <2> QED BY <2>4 DEF Lists, k
<1> QED BY <1>1, CibInvariant, PTL
=============================================================================
