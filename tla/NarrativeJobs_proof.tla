------------------------- MODULE NarrativeJobs_proof -------------------------
(***************************************************************************)
(* Proofs about Enrichment and NarrativeJobs, for any texts, politicians,  *)
(* items, models and schedules of jobs: a verdict on a mayor cites events  *)
(* that are in the day's evidence, and nobody is made the person a row is  *)
(* about without a reason.                                                 *)
(***************************************************************************)
EXTENDS NarrativeJobs, SequenceTheorems, WellFoundedInduction, TLAPS

-----------------------------------------------------------------------------
(* The inductive invariant of the jobs: whatever the model once said of a  *)
(* question, the question names the events it could cite; and the batch    *)
(* and the day stay what they were when a command wrote its output.        *)
Answered(ids, answer) == answer \in Verdicts(ids)

CacheCites ==
  job = "investigate-endorsements" =>
    \A q \in DOMAIN cache : q = <<q[1], q[2]>> /\ Answered(q[2], cache[q])

CacheStartsEmpty ==
  job = NONE => cache = <<>> /\ step = "idle"

OutputIsOfTheDay ==
  /\ step = "run" => output = {}
  /\ step # "idle" \/ output # {} => stage = "done"

JobsInv == CacheCites /\ CacheStartsEmpty /\ OutputIsOfTheDay /\ VerdictsCiteTheirBundle

-----------------------------------------------------------------------------
(* The question about a mayor names the mayor's events, and no others.     *)
LEMMA QuestionNamesItsEvents ==
  ASSUME NEW evidence, NEW q \in DOMAIN Questions(evidence)
  PROVE  /\ q = <<q[1], q[2]>>
         /\ Questions(evidence)[q] = Verdicts(q[2])
<1>1. PICK m \in DOMAIN evidence : q = <<m, evidence[m]>>
  BY DEF Questions, BundleHash
<1>2. \A x \in DOMAIN evidence : BundleHash(x, evidence[x]) = q => evidence[x] = evidence[m]
  BY <1>1 DEF BundleHash
<1>3. {evidence[x] : x \in {y \in DOMAIN evidence : BundleHash(y, evidence[y]) = q}} = {evidence[m]}
  BY <1>1, <1>2 DEF BundleHash
<1>4. BundleOf(q, evidence) = evidence[m]
  BY <1>3 DEF BundleOf
<1>5. Questions(evidence)[q] = Verdicts(BundleOf(q, evidence))
  BY DEF Questions
<1> QED BY <1>1, <1>4, <1>5

(* What a run is told, from the cache or by the model, is of the question. *)
LEMMA SaidIsOfTheQuestion ==
  ASSUME CacheCites, job = "investigate-endorsements",
         NEW asked, \A q \in DOMAIN asked : q = <<q[1], q[2]>> /\ asked[q] = Verdicts(q[2]),
         NEW c \in Consulted(asked)
  PROVE  /\ DOMAIN c.said = DOMAIN asked
         /\ \A q \in DOMAIN asked : c.said[q] = NONE \/ Answered(q[2], c.said[q])
<1>1. PICK hits \in Read(DOMAIN asked, DOMAIN cache), fresh \in Answerings(asked) :
        c.said = Restrict(cache, hits) || fresh
  BY DEF Consulted
<1>2. hits \subseteq DOMAIN asked /\ hits \subseteq DOMAIN cache
  BY DEF Read
<1>3. DOMAIN fresh = DOMAIN asked /\ \A q \in DOMAIN asked : fresh[q] \in asked[q] \cup {NONE}
  BY DEF Answerings
<1>4. DOMAIN Restrict(cache, hits) = hits /\ \A q \in hits : Restrict(cache, hits)[q] = cache[q]
  BY DEF Restrict
<1>5. /\ DOMAIN c.said = DOMAIN asked
      /\ \A q \in hits : c.said[q] = cache[q]
      /\ \A q \in DOMAIN asked \ hits : c.said[q] = fresh[q]
  BY <1>1, <1>2, <1>3, <1>4 DEF ||
<1>6. \A q \in hits : Answered(q[2], cache[q])
  BY <1>2 DEF CacheCites
<1>7. \A q \in DOMAIN asked : fresh[q] = NONE \/ Answered(q[2], fresh[q])
  BY <1>3 DEF Answered
<1> QED BY <1>2, <1>5, <1>6, <1>7

(* ... and so is what the cache keeps of it.                               *)
LEMMA RememberedCites ==
  ASSUME CacheCites, job = "investigate-endorsements",
         NEW asked, \A q \in DOMAIN asked : q = <<q[1], q[2]>> /\ asked[q] = Verdicts(q[2]),
         NEW c \in Consulted(asked), cache' \in Remembered(c)
  PROVE  \A q \in DOMAIN cache' : q = <<q[1], q[2]>> /\ Answered(q[2], cache'[q])
<1>1. PICK kept \in SUBSET Understood(c) : cache' = Restrict(c.said, kept) || cache
  BY DEF Remembered
<1>2. /\ DOMAIN c.said = DOMAIN asked
      /\ \A q \in DOMAIN asked : c.said[q] = NONE \/ Answered(q[2], c.said[q])
  BY SaidIsOfTheQuestion
<1>3. \A q \in kept : q \in DOMAIN asked /\ c.said[q] # NONE
  BY <1>2 DEF Understood
<1>4. DOMAIN Restrict(c.said, kept) = kept /\ \A q \in kept : Restrict(c.said, kept)[q] = c.said[q]
  BY DEF Restrict
<1>5. /\ DOMAIN cache' = kept \cup DOMAIN cache
      /\ \A q \in kept : cache'[q] = c.said[q]
      /\ \A q \in DOMAIN cache \ kept : cache'[q] = cache[q]
  BY <1>1, <1>4 DEF ||
<1>6. \A q \in DOMAIN cache : q = <<q[1], q[2]>> /\ Answered(q[2], cache[q])
  BY DEF CacheCites
<1> QED BY <1>2, <1>3, <1>5, <1>6

(* The evidence on a mayor is of events that mention the mayor.            *)
LEMMA BundlesAreOfTheMayor ==
  ASSUME NEW mayor, NEW ids \in Bundles(mayor)
  PROVE  ids \subseteq {e.id : e \in CoMentions(mayor)}
<1> DEFINE n == Min({MaxEvents, Cardinality(CoMentions(mayor))})
<1>1. PICK newest \in kSubset(n, CoMentions(mayor)) : ids = {e.id : e \in newest}
  BY DEF Bundles
<1>2. newest \subseteq CoMentions(mayor)
  BY DEF kSubset
<1> QED BY <1>1, <1>2

LEMMA RowCitesItsBundle ==
  ASSUME NEW mayor, NEW ids \in Bundles(mayor), NEW answer,
         answer = NONE \/ Answered(ids, answer),
         NEW row, row = EndorsementRow(mayor, answer)
  PROVE  /\ row.detected_candidate \in Roster \cup {Undecided, NONE}
         /\ row.evidence_ids \subseteq {e.id : e \in CoMentions(row.mayor)}
<1>1. /\ row.mayor = mayor
      /\ row.detected_candidate = IF answer = NONE THEN NONE ELSE answer.candidate
      /\ row.evidence_ids = IF answer = NONE THEN {} ELSE answer.evidence
  BY DEF EndorsementRow
<1>2. CASE answer = NONE
  BY <1>1, <1>2
<1>3. CASE answer # NONE
  <2>1. answer.candidate \in Roster \cup {Undecided} /\ answer.evidence \subseteq ids
    BY <1>3 DEF Answered, Verdicts
  <2> QED BY <1>1, <1>3, <2>1, BundlesAreOfTheMayor
<1> QED BY <1>2, <1>3

-----------------------------------------------------------------------------
LEMMA InitJobs == JobsInit => JobsInv
BY DEF JobsInit, JobsInv, CacheCites, CacheStartsEmpty, OutputIsOfTheDay, VerdictsCiteTheirBundle

(* A batch in progress: no job has begun.                                  *)
LEMMA BatchKeepsJobs ==
  ASSUME JobsInv, Next, UNCHANGED jobVars
  PROVE  JobsInv'
<1>1. UNCHANGED <<job, runs, today, step, cache, output, loaded>>
  BY DEF jobVars
<1>2. stage # "done"
  BY DEF Next, Fetch, ParseSocial, ParseArticles, EnrichPost, EnrichArticle, ClassifyPosts,
         GateSilver, ScoreArticles, ClassifyArticles, ExplainPosts, ExplainArticles, ScopeGate
<1>3. output = {} /\ step = "idle"
  BY <1>2 DEF JobsInv, OutputIsOfTheDay
<1> QED
  BY <1>1, <1>3
  DEF JobsInv, CacheCites, CacheStartsEmpty, OutputIsOfTheDay, VerdictsCiteTheirBundle, Answered

LEMMA SameBatch ==
  ASSUME UNCHANGED batchVars, UNCHANGED today
  PROVE  /\ stage' = stage
         /\ \A mayor : CoMentions(mayor)' = CoMentions(mayor)
<1>1. stage' = stage /\ stored' = stored
  BY DEF batchVars, vars
<1>2. Events' = Events
  BY <1>1 DEF Events
<1> QED BY <1>1, <1>2 DEF CoMentions

LEMMA StartKeeps ==
  ASSUME JobsInv, StartJob
  PROVE  JobsInv'
<1>1. step' = "run" /\ output' = {} /\ UNCHANGED cache /\ stage' = "done"
  BY DEF StartJob, batchVars, vars
<1>2. job' # NONE /\ (job' = job \/ job = NONE)
  BY JobsAssumption DEF StartJob
<1>3. CacheCites'
  BY <1>1, <1>2 DEF JobsInv, CacheCites, CacheStartsEmpty, Answered
<1>4. CacheStartsEmpty'
  BY <1>1, <1>2 DEF JobsInv, CacheStartsEmpty
<1> QED BY <1>1, <1>3, <1>4 DEF JobsInv, OutputIsOfTheDay, VerdictsCiteTheirBundle

(* The jobs that ask other things.                                         *)
LEMMA OtherJobsKeep ==
  ASSUME JobsInv, ClusterNarratives \/ ClassifyStances
  PROVE  JobsInv'
<1>1. UNCHANGED <<job, today, batchVars>> /\ step = "run" /\ stage = "done"
  BY DEF ClusterNarratives, ClassifyStances, JobsInv, OutputIsOfTheDay
<1>2. job \in {"cluster-narratives", "classify-stances"}
      /\ step' \in {"idle", "embeddings", "stances"}
  BY DEF ClusterNarratives, ClassifyStances
<1>3. stage' = stage
  BY <1>1, SameBatch
<1>4. job # NONE
  BY <1>1 DEF JobsInv, CacheStartsEmpty
<1> QED
  BY <1>1, <1>2, <1>3, <1>4
  DEF JobsInv, CacheCites, CacheStartsEmpty, OutputIsOfTheDay, VerdictsCiteTheirBundle

LEMMA InvestigationKeeps ==
  ASSUME JobsInv, InvestigateEndorsements
  PROVE  JobsInv'
<1>1. UNCHANGED <<job, today, batchVars>> /\ step = "run" /\ stage = "done"
      /\ job = "investigate-endorsements" /\ step' \in {"idle", "endorsements"}
  BY DEF InvestigateEndorsements, JobsInv, OutputIsOfTheDay
<1>2. PICK evidence \in Evidence : \E c \in Consulted(Questions(evidence)) :
        /\ cache' \in Remembered(c)
        /\ output' = {EndorsementRow(m, c.said[BundleHash(m, evidence[m])]) : m \in Investigated}
  BY DEF InvestigateEndorsements
<1>3. PICK c \in Consulted(Questions(evidence)) :
        /\ cache' \in Remembered(c)
        /\ output' = {EndorsementRow(m, c.said[BundleHash(m, evidence[m])]) : m \in Investigated}
  BY <1>2
<1>4. \A q \in DOMAIN Questions(evidence) :
        q = <<q[1], q[2]>> /\ Questions(evidence)[q] = Verdicts(q[2])
  BY QuestionNamesItsEvents
<1>5. CacheCites'
  BY <1>1, <1>3, <1>4, RememberedCites DEF JobsInv, CacheCites, Answered
<1>6. ASSUME NEW row \in output'
      PROVE  /\ row.detected_candidate \in Roster \cup {Undecided, NONE}
             /\ row.evidence_ids \subseteq {e.id : e \in CoMentions(row.mayor)}
  <2>1. PICK m \in Investigated : row = EndorsementRow(m, c.said[BundleHash(m, evidence[m])])
    BY <1>3
  <2>2. DOMAIN evidence = Investigated /\ evidence[m] \in Bundles(m)
    BY DEF Evidence
  <2> DEFINE q == <<m, evidence[m]>>
  <2>3. q \in DOMAIN Questions(evidence) /\ q[2] = evidence[m] /\ q = BundleHash(m, evidence[m])
    BY <2>2 DEF Questions, BundleHash
  <2>4. c.said[q] = NONE \/ Answered(q[2], c.said[q])
    BY <1>1, <1>4, <2>3, SaidIsOfTheQuestion DEF JobsInv
  <2> QED BY <2>1, <2>2, <2>3, <2>4, RowCitesItsBundle
<1>7. VerdictsCiteTheirBundle'
  BY <1>1, <1>6, SameBatch DEF VerdictsCiteTheirBundle
<1>8. CacheStartsEmpty' /\ OutputIsOfTheDay'
  BY <1>1, SameBatch DEF JobsInv, CacheStartsEmpty, OutputIsOfTheDay
<1> QED BY <1>5, <1>7, <1>8 DEF JobsInv

LEMMA LoadsKeep ==
  ASSUME JobsInv, Load \/ LoadFails
  PROVE  JobsInv'
<1>1. UNCHANGED <<job, today, cache, batchVars>> /\ step \notin {"idle", "run"} /\ step' # "run"
  BY DEF Load, LoadFails
<1>2. output' \subseteq output /\ stage = "done" /\ job # NONE
  BY <1>1 DEF Load, LoadFails, JobsInv, OutputIsOfTheDay, CacheStartsEmpty
<1>3. CacheCites' /\ CacheStartsEmpty'
  BY <1>1, <1>2 DEF JobsInv, CacheCites, CacheStartsEmpty, Answered
<1>4. OutputIsOfTheDay'
  BY <1>1, <1>2, SameBatch DEF OutputIsOfTheDay
<1>5. VerdictsCiteTheirBundle'
  BY <1>1, <1>2, SameBatch DEF JobsInv, VerdictsCiteTheirBundle
<1> QED BY <1>3, <1>4, <1>5 DEF JobsInv

(* A command that dies has kept answers of some of its questions.          *)
LEMMA FailuresKeep ==
  ASSUME JobsInv, CommandFails
  PROVE  JobsInv'
<1>1. UNCHANGED <<job, today, batchVars, output>> /\ step = "run" /\ step' = "idle"
  BY DEF CommandFails
<1>2. output' = {} /\ job # NONE
  BY <1>1 DEF JobsInv, OutputIsOfTheDay, CacheStartsEmpty
<1>3. CacheCites'
  <2> SUFFICES ASSUME job = "investigate-endorsements"
               PROVE  \A q \in DOMAIN cache' : q = <<q[1], q[2]>> /\ Answered(q[2], cache'[q])
    BY <1>1 DEF CacheCites, Answered
  <2>1. PICK evidence \in Evidence : cache' \in InterruptedWith(Questions(evidence))
    BY DEF CommandFails
  <2>2. PICK c \in UNION {Consulted(Restrict(Questions(evidence), s)) :
                             s \in SUBSET DOMAIN Questions(evidence)} :
          cache' \in Remembered(c)
    BY <2>1 DEF InterruptedWith
  <2>3. PICK s \in SUBSET DOMAIN Questions(evidence) :
          c \in Consulted(Restrict(Questions(evidence), s))
    BY <2>2
  <2> DEFINE asked == Restrict(Questions(evidence), s)
  <2>4. \A q \in DOMAIN asked : q = <<q[1], q[2]>> /\ asked[q] = Verdicts(q[2])
    BY QuestionNamesItsEvents DEF Restrict
  <2> QED BY <2>2, <2>3, <2>4, RememberedCites DEF JobsInv
<1>4. CacheStartsEmpty' /\ OutputIsOfTheDay' /\ VerdictsCiteTheirBundle'
  BY <1>1, <1>2 DEF CacheStartsEmpty, OutputIsOfTheDay, VerdictsCiteTheirBundle
<1> QED BY <1>3, <1>4 DEF JobsInv

LEMMA NextJobs == JobsInv /\ [JobsNext]_<<batchVars, jobVars>> => JobsInv'
<1> SUFFICES ASSUME JobsInv, [JobsNext]_<<batchVars, jobVars>> PROVE JobsInv'
  OBVIOUS
<1>1. CASE UNCHANGED <<batchVars, jobVars>>
  <2>1. UNCHANGED <<job, today, step, cache, output, batchVars>>
    BY <1>1 DEF jobVars
  <2>2. CacheCites' /\ CacheStartsEmpty' /\ OutputIsOfTheDay'
    BY <2>1, SameBatch DEF JobsInv, CacheCites, CacheStartsEmpty, OutputIsOfTheDay, Answered
  <2>3. VerdictsCiteTheirBundle'
    BY <2>1, SameBatch DEF JobsInv, VerdictsCiteTheirBundle
  <2> QED BY <2>2, <2>3 DEF JobsInv
<1> QED
  BY <1>1, BatchKeepsJobs, StartKeeps, OtherJobsKeep, InvestigationKeeps, LoadsKeep,
     FailuresKeep DEF JobsNext

(* A verdict, of the model or of the cache, cites events of the day's      *)
(* evidence on its mayor only: whatever the model answers, whichever runs  *)
(* died after some of their questions, and for any window and any events.  *)
THEOREM VerdictsCiteTheEvidence == JobsSpec => []VerdictsCiteTheirBundle
<1>1. JobsInv => VerdictsCiteTheirBundle
  BY DEF JobsInv
<1> QED BY <1>1, InitJobs, NextJobs, PTL DEF JobsSpec

-----------------------------------------------------------------------------
(* Numbers, and the politicians as numbers.                                *)
NatLess == {ss \in Nat \X Nat : ss[1] < ss[2]}

LEMMA SmallestNat ==
  ASSUME NEW T \in SUBSET Nat, T # {}
  PROVE  \E x \in T : \A y \in T : x <= y
<1>1. IsWellFoundedOn(NatLess, Nat)
  BY NatLessThanWellFounded DEF OpToRel, NatLess
<1>2. PICK x \in T : \A y \in T : ~ (<<y, x>> \in NatLess)
  BY <1>1, WFMin
<1>3. \A y \in T : ~ (y < x)
  BY <1>2 DEF NatLess
<1> QED BY <1>3

LEMMA LargestNat ==
  ASSUME NEW S \in SUBSET Nat, S # {}, NEW n \in Nat, \A x \in S : x <= n
  PROVE  \E x \in S : \A y \in S : x >= y
<1> DEFINE distances == {n - x : x \in S}
<1>1. distances \in SUBSET Nat
  OBVIOUS
<1>2. PICK some \in S : TRUE
  OBVIOUS
<1>3. distances # {}
  BY <1>2
<1>4. PICK d \in distances : \A e \in distances : d <= e
  BY <1>1, <1>3, SmallestNat
<1>5. PICK x \in S : d = n - x
  OBVIOUS
<1>6. \A y \in S : n - x <= n - y
  BY <1>4, <1>5
<1> QED BY <1>6

LEMMA LastIsOne ==
  ASSUME NEW S \in SUBSET People, S # {}
  PROVE  LastOf(S) \in S
<1>1. S \in SUBSET Nat /\ Len(Politicians) \in Nat /\ \A x \in S : x <= Len(Politicians)
  BY PoliticiansAssumption
<1>2. PICK x \in S : \A y \in S : x >= y
  BY <1>1, LargestNat
<1> QED BY <1>2 DEF LastOf, Max

LEMMA ScoreIsNat == \A i, context : ContextScore(i, context) \in 0 .. 95
<1> SUFFICES ASSUME NEW i, NEW context PROVE ContextScore(i, context) \in 0 .. 95
  OBVIOUS
<1>1. ASSUME NEW score \in Nat PROVE Min({score, 95}) \in 0 .. 95
  BY DEF Min
<1> QED BY <1>1 DEF ContextScore

-----------------------------------------------------------------------------
(* The best of those who have a word of the name is one of them.           *)
LEMMA BestIsOne ==
  ASSUME NEW scores, DOMAIN scores \subseteq People, DOMAIN scores # {},
         \A i \in DOMAIN scores : scores[i] \in 0 .. 95
  PROVE  BestOf(scores) \in DOMAIN scores
<1> DEFINE values == {scores[i] : i \in DOMAIN scores}
<1>1. values \in SUBSET Nat /\ values # {} /\ \A v \in values : v <= 95
  OBVIOUS
<1>2. PICK v \in values : \A w \in values : v >= w
  BY <1>1, LargestNat
<1> DEFINE tops == {i \in DOMAIN scores : scores[i] = v}
<1>3. tops \in SUBSET Nat /\ tops # {}
  BY PoliticiansAssumption
<1>4. PICK i \in tops : \A j \in tops : i <= j
  BY <1>3, SmallestNat
<1>5. \A j \in DOMAIN scores \ {i} : scores[j] < scores[i] \/ (scores[j] = scores[i] /\ i < j)
  <2> SUFFICES ASSUME NEW j \in DOMAIN scores, j # i, ~ (scores[j] < scores[i])
               PROVE  scores[j] = scores[i] /\ i < j
    OBVIOUS
  <2>1. scores[j] = v /\ scores[i] = v
    BY <1>1, <1>2
  <2>2. i <= j /\ i \in Nat /\ j \in Nat
    BY <1>3, <1>4, <2>1
  <2> QED BY <2>1, <2>2
<1> QED BY <1>5 DEF BestOf

LEMMA OwnerHasTheHandle ==
  ASSUME NEW platform, NEW handle, LookupHandle(platform, handle) # NONE
  PROVE  HandleIn(LookupHandle(platform, handle), platform) = StripHandle[handle]
<1> DEFINE owners == {i \in People : HandleIn(i, platform) # "" /\ HandleIn(i, platform) = StripHandle[handle]}
<1>1. LookupHandle(platform, handle) = LastOf(owners) /\ owners # {}
  BY DEF LookupHandle, LastOf
<1> QED BY <1>1, LastIsOne

LEMMA NamedHasTheName ==
  ASSUME NEW name, NamedExactly(name) # NONE
  PROVE  name \in Politicians[NamedExactly(name)].aliases \cup {Politicians[NamedExactly(name)].name}
<1> DEFINE named == {i \in People : Politicians[i].name = name}
           called == {i \in People : name \in Politicians[i].aliases}
<1>1. CASE named # {}
  <2>1. NamedExactly(name) = LastOf(named) /\ LastOf(named) \in named
    BY <1>1, LastIsOne DEF NamedExactly
  <2> QED BY <2>1
<1>2. CASE named = {}
  <2>1. NamedExactly(name) = LastOf(called)
    BY <1>2 DEF NamedExactly
  <2>2. called # {}
    BY <2>1 DEF LastOf
  <2> QED BY <2>1, <2>2, LastIsOne
<1> QED BY <1>1, <1>2

(* Who is resolved by the words of a name alone fits the context best.     *)
LEMMA WordsSpeak ==
  ASSUME NEW name, NEW page, NEW context, NEW r,
         r = ByTokens(name, page, ScoresOf(name, context)), r.scope = "IN_SCOPE"
  PROVE  SpeaksFor(name, r.person, context)
<1> DEFINE scores == ScoresOf(name, context)
           best == BestOf(scores)
           rivals == Rivals(best, scores)
<1>1. /\ DOMAIN scores = {i \in People : Tokens(name) \cap TargetTokens(i) # {}}
      /\ \A i \in DOMAIN scores : scores[i] = ContextScore(i, context)
  BY DEF ScoresOf
<1>2. r = IF scores = <<>> THEN Unresolved("OUT_OF_SCOPE", 0, {}, NONE)
          ELSE Ranked(best, rivals, scores[best], Breakdown(name, page, best, FALSE).name_sim)
  BY DEF ByTokens
<1>3. \A s, c, k, x : s # "IN_SCOPE" => Unresolved(s, c, k, x).scope # "IN_SCOPE"
  BY DEF Unresolved
<1>4. scores # <<>> /\ r = Ranked(best, rivals, scores[best], Breakdown(name, page, best, FALSE).name_sim)
  BY <1>2, <1>3
<1>5. DOMAIN scores # {}
  <2>1. ASSUME DOMAIN scores = {} PROVE scores = <<>>
    BY <2>1 DEF ScoresOf
  <2> QED BY <1>4, <2>1
<1>6. best \in DOMAIN scores /\ scores[best] \in 0 .. 95
  BY <1>1, <1>5, BestIsOne, ScoreIsNat
<1>7. rivals = {} /\ Classify(scores[best]) = "IN_SCOPE" /\ r.person = best
  <2> DEFINE sim == Breakdown(name, page, best, FALSE).name_sim
  <2> HIDE DEF rivals, best, scores, sim
  <2>1. r = IF rivals # {} THEN Unresolved("AMBIGUOUS", scores[best], {best} \cup rivals, sim)
            ELSE IF Classify(scores[best]) = "IN_SCOPE" THEN Resolved(best, scores[best], sim, "tokens")
            ELSE Unresolved(Classify(scores[best]), scores[best], {best}, sim)
    BY <1>4 DEF Ranked, sim
  <2>2. rivals = {}
    BY <1>3, <2>1
  <2>3. Classify(scores[best]) = "IN_SCOPE"
    BY <1>3, <2>1, <2>2
  <2> QED BY <2>1, <2>2, <2>3 DEF Resolved
<1>8. ContextScore(best, context) >= 70
  BY <1>1, <1>6, <1>7 DEF Classify
<1>9. ASSUME NEW q \in People \ {best}, Tokens(name) \cap TargetTokens(q) # {}
      PROVE  ContextScore(best, context) - ContextScore(q, context) >= 15
  <2>1. q \in DOMAIN scores \ {best} /\ ~WithinMargin(scores[best], scores[q])
    BY <1>1, <1>7, <1>9 DEF Rivals
  <2>2. ContextScore(best, context) \in 0 .. 95 /\ ContextScore(q, context) \in 0 .. 95
    BY ScoreIsNat
  <2> QED BY <1>1, <1>6, <2>1, <2>2 DEF WithinMargin
<1> QED BY <1>1, <1>6, <1>7, <1>8, <1>9 DEF SpeaksFor

LEMMA NamesSpeak ==
  ASSUME NEW name, NEW page, NEW context, NEW r, NamedExactly(name) # NONE,
         r = ByExactName(NamedExactly(name), name, page, context), r.scope = "IN_SCOPE"
  PROVE  SpeaksFor(name, r.person, context)
<1> DEFINE i == NamedExactly(name)
<1>1. r.person = i /\ (context = {} \/ ContextScore(i, context) >= 60)
  BY DEF ByExactName, Resolved, Unresolved
<1> QED BY <1>1, NamedHasTheName DEF SpeaksFor

(* resolve: whoever it finds, it finds by the handle or by the name.       *)
LEMMA ResolvedForAReason ==
  ASSUME NEW name, NEW platform, NEW handle, NEW page, NEW context, NEW r,
         r = Resolve(name, platform, handle, page, context), r.scope = "IN_SCOPE"
  PROVE  \/ /\ handle # NONE /\ LookupHandle(platform, handle) # NONE
            /\ HandleIn(r.person, platform) = StripHandle[handle]
         \/ SpeaksFor(name, r.person, context)
<1> DEFINE owner == IF handle = NONE THEN NONE ELSE LookupHandle(platform, handle)
           exact == NamedExactly(name)
<1>1. r = IF owner # NONE THEN ByHandle(owner, name, page)
          ELSE IF name = {} THEN Unresolved("OUT_OF_SCOPE", 0, {}, NONE)
          ELSE IF exact # NONE THEN ByExactName(exact, name, page, context)
          ELSE ByTokens(name, page, ScoresOf(name, context))
  BY DEF Resolve
<1>2. CASE owner # NONE
  <2>1. r.person = owner
    BY <1>1, <1>2 DEF ByHandle, Resolved
  <2> QED BY <1>2, <2>1, OwnerHasTheHandle
<1>3. CASE owner = NONE /\ name = {}
  BY <1>1, <1>3 DEF Unresolved
<1>4. CASE owner = NONE /\ name # {} /\ exact # NONE
  BY <1>1, <1>4, NamesSpeak
<1>5. CASE owner = NONE /\ name # {} /\ exact = NONE
  BY <1>1, <1>5, WordsSpeak
<1> QED BY <1>2, <1>3, <1>4, <1>5

(* resolve_best: by the handle, or by one of the names.                    *)
LEMMA BestForAReason ==
  ASSUME NEW mentions, NEW platform, NEW handle, NEW page, NEW context,
         NEW r \in ResolveBest(mentions, platform, handle, page, context), r.scope = "IN_SCOPE"
  PROVE  \/ /\ handle # NONE /\ LookupHandle(platform, handle) # NONE
            /\ HandleIn(r.person, platform) = StripHandle[handle]
         \/ handle # NONE /\ SpeaksFor({handle}, r.person, context)
         \/ \E m \in mentions : SpeaksFor(m.name, r.person, context)
<1> DEFINE single == IF handle = NONE THEN Unresolved("OUT_OF_SCOPE", 0, {}, NONE)
                     ELSE Resolve({handle}, platform, handle, page, context)
           results == {[group |-> m.group, r |-> Resolve(m.name, platform, NONE, page, context)] : m \in mentions}
<1>1. r \in Preferred(single, results)
  BY DEF ResolveBest
<1>2. CASE r = single
  <2>1. handle # NONE /\ r = Resolve({handle}, platform, handle, page, context)
    BY <1>2 DEF Unresolved
  <2> QED BY <2>1, ResolvedForAReason
<1>3. CASE r # single
  <2>1. r \in MostConfident(results)
    BY <1>1, <1>3 DEF Preferred, Unresolved
  <2>2. PICK a \in results : r = a.r
    BY <2>1 DEF MostConfident
  <2>3. PICK m \in mentions : r = Resolve(m.name, platform, NONE, page, context)
    BY <2>2
  <2> QED BY <2>3, ResolvedForAReason
<1> QED BY <1>2, <1>3

-----------------------------------------------------------------------------
(* The inductive invariant of the batch: every row has its reasons, and    *)
(* has what they are read from.                                            *)
ReasonFields(row) ==
  {"scope_status", "person_id", "source_type", "mentioned_persons"}
  \cup IF row.source_type = "rss" THEN {"content_clean"} ELSE {"platform", "author_handle", "text"}

HasReasons(row) ==
  /\ row.source_type \in {"rss", "social"}
  /\ ReasonFields(row) \subseteq DOMAIN row
  /\ row.scope_status = "IN_SCOPE" =>
       \/ OwnsAccount(row.person_id, row)
       \/ \E name \in NamesFor(row) : SpeaksFor(name, row.person_id, ContextOf(row))

BatchInv == rows \in Seq(Range(rows)) /\ \A i \in DOMAIN rows : HasReasons(rows[i])

(* A label and a summary leave the reasons alone.                          *)
LEMMA SameReasons ==
  ASSUME NEW row, HasReasons(row), NEW other,
         ReasonFields(row) \subseteq DOMAIN other,
         \A x \in ReasonFields(row) : other[x] = row[x]
  PROVE  HasReasons(other)
<1>1. /\ other.source_type = row.source_type /\ other.scope_status = row.scope_status
      /\ other.person_id = row.person_id /\ other.mentioned_persons = row.mentioned_persons
  BY DEF ReasonFields
<1>2. CASE row.source_type = "rss"
  <2>1. other.content_clean = row.content_clean
    BY <1>2 DEF ReasonFields
  <2> QED BY <1>1, <1>2, <2>1 DEF HasReasons, ReasonFields, OwnsAccount, NamesFor, ContextOf
<1>3. CASE row.source_type # "rss"
  <2>1. other.platform = row.platform /\ other.author_handle = row.author_handle /\ other.text = row.text
    BY <1>3 DEF ReasonFields
  <2> QED BY <1>1, <1>3, <2>1 DEF HasReasons, ReasonFields, OwnsAccount, NamesFor, ContextOf
<1> QED BY <1>2, <1>3

LEMMA LabelKeepsReasons ==
  ASSUME NEW row, NEW c, HasReasons(row)
  PROVE  HasReasons(Classified(row, c))
<1> DEFINE label == [sentiment_label |-> c.label, confidence_score |-> c.confidence, risk_score |-> c.risk,
                     decision_factors |-> c.factors]
<1>1. DOMAIN label = {"sentiment_label", "confidence_score", "risk_score", "decision_factors"}
  OBVIOUS
<1>2. /\ DOMAIN row \subseteq DOMAIN Classified(row, c)
      /\ \A x \in DOMAIN row \ DOMAIN label : Classified(row, c)[x] = row[x]
  BY <1>1 DEF Classified, ||
<1>3. ReasonFields(row) \subseteq DOMAIN row \ DOMAIN label
  BY <1>1 DEF HasReasons, ReasonFields
<1> HIDE DEF label
<1> QED BY <1>2, <1>3, SameReasons

LEMMA SummaryKeepsReasons ==
  ASSUME NEW row, NEW status, HasReasons(row)
  PROVE  HasReasons(Summary(row, status))
<1>1. /\ DOMAIN row \subseteq DOMAIN Summary(row, status)
      /\ \A x \in DOMAIN row \ {"narrative_summary"} : Summary(row, status)[x] = row[x]
  BY DEF Summary, ||
<1>2. ReasonFields(row) \subseteq DOMAIN row \ {"narrative_summary"}
  BY DEF HasReasons, ReasonFields
<1> QED BY <1>1, <1>2, SameReasons

(* A row of a post: the account's handle is its own, and the names are     *)
(* those of its mentions.                                                  *)
LEMMA SentimentFields ==
  ASSUME NEW text, NEW entities, NEW sentiment \in AnalyzeText(Mode, text, entities)
  PROVE  DOMAIN sentiment = {"sentiment_overall", "sentiment_by_entity"}
BY DEF AnalyzeText

LEMMA PostHasReasons ==
  ASSUME NEW post, NEW ner, NEW page, NEW handle, handle = (IF post.handle = "" THEN NONE ELSE post.handle),
         NEW entities, NEW sentiment \in AnalyzeText(Mode, Texts[post.text], entities),
         NEW resolution \in ResolveBest(ner.persons, post.platform, handle, page, Texts[post.text].words)
  PROVE  HasReasons(SilverRow(post, ner, sentiment, resolution))
<1> DEFINE row == SilverRow(post, ner, sentiment, resolution)
           context == Texts[post.text].words
<1>1. DOMAIN sentiment = {"sentiment_overall", "sentiment_by_entity"}
  BY SentimentFields
<1> DEFINE base == [post_id |-> post.post_id, platform |-> post.platform, url |-> post.url,
                    author_handle |-> post.handle, author_display_name |-> post.display, text |-> post.text,
                    published_at |-> post.published_at, extracted_at |-> Now, engagement |-> post.engagement,
                    content_hash |-> post.content_hash, source_type |-> "social", data_type |-> "incremental",
                    author_base_city |-> BaseCity(resolution.person)]
           own == {"source_type", "platform", "author_handle", "text"}
           mentioned == base || Mentioned(ner)
           scored == mentioned || sentiment
<1>2. /\ own \subseteq DOMAIN base
      /\ base.source_type = "social" /\ base.platform = post.platform
      /\ base.author_handle = post.handle /\ base.text = post.text
      /\ "mentioned_persons" \notin DOMAIN base
      /\ DOMAIN base \cap {"scope_status", "person_id"} = {}
  OBVIOUS
<1>3. /\ "mentioned_persons" \in DOMAIN Mentioned(ner)
      /\ Mentioned(ner).mentioned_persons = {p.name : p \in ner.persons}
      /\ DOMAIN Mentioned(ner) \cap {"scope_status", "person_id"} = {}
  BY DEF Mentioned
<1>4. /\ {"scope_status", "person_id"} \subseteq DOMAIN PersonOf(resolution)
      /\ PersonOf(resolution).scope_status = resolution.scope
      /\ PersonOf(resolution).person_id = resolution.person
  BY DEF PersonOf
<1>5. row = scored || PersonOf(resolution)
  BY DEF SilverRow
<1> HIDE DEF row, base, mentioned, scored
<1>6. /\ own \cup {"mentioned_persons"} \subseteq DOMAIN mentioned
      /\ \A x \in own : mentioned[x] = base[x]
      /\ mentioned["mentioned_persons"] = {p.name : p \in ner.persons}
      /\ DOMAIN mentioned \cap {"scope_status", "person_id"} = {}
  BY <1>2, <1>3 DEF mentioned, ||
<1>7. /\ own \cup {"mentioned_persons"} \subseteq DOMAIN scored
      /\ \A x \in own \cup {"mentioned_persons"} : scored[x] = mentioned[x]
      /\ DOMAIN scored \cap {"scope_status", "person_id"} = {}
  BY <1>1, <1>6 DEF scored, ||
<1>8. /\ own \cup {"mentioned_persons", "scope_status", "person_id"} \subseteq DOMAIN row
      /\ \A x \in own \cup {"mentioned_persons"} : row[x] = scored[x]
      /\ \A x \in {"scope_status", "person_id"} : row[x] = PersonOf(resolution)[x]
  BY <1>4, <1>5, <1>7 DEF ||
<1>9. /\ {"source_type", "platform", "author_handle", "text", "mentioned_persons", "scope_status", "person_id"}
           \subseteq DOMAIN row
      /\ row.source_type = "social" /\ row.platform = post.platform
      /\ row.author_handle = post.handle /\ row.text = post.text
      /\ row.mentioned_persons = {p.name : p \in ner.persons}
      /\ row.scope_status = resolution.scope /\ row.person_id = resolution.person
  BY <1>2, <1>4, <1>6, <1>7, <1>8
<1>10. ReasonFields(row) \subseteq DOMAIN row
  BY <1>9 DEF ReasonFields
<1>11. ContextOf(row) = context /\ NamesFor(row) = {p.name : p \in ner.persons} \cup {{post.handle}}
  BY <1>9 DEF ContextOf, NamesFor
<1>12. ASSUME resolution.scope = "IN_SCOPE"
      PROVE  \/ OwnsAccount(row.person_id, row)
             \/ \E name \in NamesFor(row) : SpeaksFor(name, row.person_id, ContextOf(row))
  <2>1. CASE /\ handle # NONE /\ LookupHandle(post.platform, handle) # NONE
             /\ HandleIn(resolution.person, post.platform) = StripHandle[handle]
    BY <1>9, <2>1 DEF OwnsAccount
  <2>2. CASE handle # NONE /\ SpeaksFor({handle}, resolution.person, context)
    BY <1>9, <1>11, <2>2
  <2>3. CASE \E m \in ner.persons : SpeaksFor(m.name, resolution.person, context)
    BY <1>9, <1>11, <2>3
  <2> QED BY <1>12, <2>1, <2>2, <2>3, BestForAReason
<1>13. HasReasons(row)
  BY <1>9, <1>10, <1>12 DEF HasReasons
<1> QED BY <1>13 DEF row

(* A row of an article: it has no account.                                 *)
ArticleRow(article, ner, resolution) ==
  [url |-> article.url, source_feed |-> article.source_feed,
   title |-> article.title, content_clean |-> article.content,
   published_at |-> article.published_at, extracted_at |-> Now,
   content_hash |-> article.content_hash, source_type |-> "rss"]
  || Mentioned(ner) || PersonOf(resolution)

LEMMA ArticleHasReasons ==
  ASSUME NEW article, NEW ner,
         NEW resolution \in ResolveBest(ner.persons, "rss", NONE, {}, Texts[article.content].words)
  PROVE  HasReasons(ArticleRow(article, ner, resolution))
<1> DEFINE row == ArticleRow(article, ner, resolution)
           context == Texts[article.content].words
<1>1. /\ {"source_type", "content_clean", "mentioned_persons", "scope_status", "person_id"} \subseteq DOMAIN row
      /\ row.source_type = "rss" /\ row.content_clean = article.content
      /\ row.mentioned_persons = {p.name : p \in ner.persons}
      /\ row.scope_status = resolution.scope /\ row.person_id = resolution.person
  BY DEF ArticleRow, Mentioned, PersonOf, ||
<1> HIDE DEF row
<1>2. ReasonFields(row) \subseteq DOMAIN row
  BY <1>1 DEF ReasonFields
<1>3. ContextOf(row) = context /\ NamesFor(row) = {p.name : p \in ner.persons}
  BY <1>1 DEF ContextOf, NamesFor
<1>4. ASSUME resolution.scope = "IN_SCOPE"
      PROVE  \E name \in NamesFor(row) : SpeaksFor(name, row.person_id, ContextOf(row))
  <2>1. \E m \in ner.persons : SpeaksFor(m.name, resolution.person, context)
    BY <1>4, BestForAReason
  <2> QED BY <1>1, <1>3, <2>1
<1>5. HasReasons(row)
  BY <1>1, <1>2, <1>4 DEF HasReasons
<1> QED BY <1>5 DEF row

-----------------------------------------------------------------------------
(* Rows are appended one by one, or all replaced at once.                  *)
LEMMA AppendKeeps ==
  ASSUME BatchInv, NEW row, HasReasons(row), rows' = Append(rows, row)
  PROVE  BatchInv'
<1> DEFINE S == Range(rows) \cup {row}
<1>1. rows \in Seq(S) /\ row \in S
  BY SeqMonotonic DEF BatchInv
<1>2. /\ Len(rows) \in Nat /\ DOMAIN rows = 1 .. Len(rows)
  BY <1>1, LenProperties
<1>3. /\ rows' \in Seq(S) /\ Len(rows') = Len(rows) + 1
      /\ \A i \in 1 .. Len(rows) : rows'[i] = rows[i]
      /\ rows'[Len(rows) + 1] = row
  BY <1>1, AppendProperties
<1>4. DOMAIN rows' = 1 .. Len(rows) + 1
  BY <1>2, <1>3, LenProperties
<1>5. \A i \in DOMAIN rows' : HasReasons(rows'[i])
  BY <1>2, <1>3, <1>4 DEF BatchInv
<1>6. rows' \in Seq(Range(rows'))
  BY <1>3, <1>4, <1>2, SeqDef DEF Range
<1> QED BY <1>5, <1>6 DEF BatchInv, HasReasons, ReasonFields, OwnsAccount, NamesFor, ContextOf

LEMMA ReplaceKeeps ==
  ASSUME BatchInv, DOMAIN rows' = DOMAIN rows, rows' = [i \in DOMAIN rows |-> rows'[i]],
         \A i \in DOMAIN rows : HasReasons(rows'[i])
  PROVE  BatchInv'
<1>1. Len(rows) \in Nat /\ DOMAIN rows = 1 .. Len(rows)
  BY LenProperties DEF BatchInv
<1>2. rows' \in [1 .. Len(rows) -> Range(rows')]
  BY <1>1 DEF Range
<1>3. rows' \in Seq(Range(rows'))
  BY <1>1, <1>2, SeqDef
<1> QED BY <1>3 DEF BatchInv, HasReasons, ReasonFields, OwnsAccount, NamesFor, ContextOf

LEMMA InitBatch == Init => BatchInv
BY DEF Init, BatchInv, Range

LEMMA NextBatch == BatchInv /\ Next => BatchInv'
<1> SUFFICES ASSUME BatchInv, Next PROVE BatchInv'
  OBVIOUS
<1>1. CASE EnrichPost
  <2> DEFINE post == docs[Len(rows) + 1]
             text == Texts[post.text]
             page == WordsOf[post.display]
             handle == IF post.handle = "" THEN NONE ELSE post.handle
  <2>1. PICK ner : \E sentiment \in AnalyzeText(Mode, text, EntityList(ner)),
                      resolution \in ResolveBest(ner.persons, post.platform, handle, page, text.words) :
                     rows' = Append(rows, SilverRow(post, ner, sentiment, resolution))
    BY <1>1 DEF EnrichPost
  <2>2. PICK sentiment \in AnalyzeText(Mode, text, EntityList(ner)),
             resolution \in ResolveBest(ner.persons, post.platform, handle, page, text.words) :
          rows' = Append(rows, SilverRow(post, ner, sentiment, resolution))
    BY <2>1
  <2>3. HasReasons(SilverRow(post, ner, sentiment, resolution))
    BY PostHasReasons
  <2> QED BY <2>2, <2>3, AppendKeeps
<1>2. CASE EnrichArticle
  <2> DEFINE article == docs[Len(rows) + 1]
  <2>1. PICK ner : \E resolution \in ResolveBest(ner.persons, "rss", NONE, {}, Texts[article.content].words) :
                     rows' = Append(rows, ArticleRow(article, ner, resolution))
    BY <1>2 DEF EnrichArticle, ArticleRow
  <2>2. PICK resolution \in ResolveBest(ner.persons, "rss", NONE, {}, Texts[article.content].words) :
          rows' = Append(rows, ArticleRow(article, ner, resolution))
    BY <2>1
  <2>3. HasReasons(ArticleRow(article, ner, resolution))
    BY ArticleHasReasons
  <2> QED BY <2>2, <2>3, AppendKeeps
<1>3. CASE ClassifyPosts
  <2>1. rows' = [i \in DOMAIN rows |-> Classified(rows[i], ClassifyWith(Rules, ClassifierInputs(rows, rows[i])))]
    BY <1>3 DEF ClassifyPosts
  <2>2. \A i \in DOMAIN rows : HasReasons(rows'[i])
    BY <2>1, LabelKeepsReasons DEF BatchInv
  <2> QED BY <2>1, <2>2, ReplaceKeeps
<1>4. CASE ExplainPosts
  <2>1. PICK status : rows' = [i \in DOMAIN rows |->
              IF i \in {j \in DOMAIN rows : Explains(rows[j])}
              THEN Summary(rows[i], status[i]) ELSE Summary(rows[i], "cache_miss_error")]
    BY <1>4 DEF ExplainPosts, Explain
  <2>2. \A i \in DOMAIN rows : HasReasons(rows'[i])
    BY <2>1, SummaryKeepsReasons DEF BatchInv
  <2> QED BY <2>1, <2>2, ReplaceKeeps
<1>5. CASE UNCHANGED rows
  BY <1>5 DEF BatchInv, HasReasons, ReasonFields, OwnsAccount, NamesFor, ContextOf
<1>6. EnrichPost \/ EnrichArticle \/ ClassifyPosts \/ ExplainPosts \/ UNCHANGED rows
  BY DEF Next, Fetch, ParseSocial, ParseArticles, GateSilver, ScoreArticles, ClassifyArticles,
         ExplainArticles, ScopeGate
<1> QED BY <1>1, <1>2, <1>3, <1>4, <1>5, <1>6

LEMMA JobsLeaveTheBatch ==
  ASSUME BatchInv, [JobsNext]_<<batchVars, jobVars>>
  PROVE  BatchInv'
<1>1. Next \/ UNCHANGED batchVars
  BY DEF JobsNext, StartJob, ClusterNarratives, ClassifyStances, InvestigateEndorsements, Load,
         CommandFails, LoadFails
<1>2. CASE UNCHANGED batchVars
  BY <1>2 DEF batchVars, vars, BatchInv, HasReasons, ReasonFields, OwnsAccount, NamesFor, ContextOf
<1> QED BY <1>1, <1>2, NextBatch

(* No document is attributed to a politician without a reason: the account *)
(* that posted it is theirs, or a name it mentions or its account bears is *)
(* theirs in a context that has to do with them, or is part of theirs and  *)
(* fits nobody else as well.  Whatever the texts, the entities recognised, *)
(* the order in which the mentions are tried, and the later steps.         *)
THEOREM ScopeIsAlwaysEarned == JobsSpec => []ScopeIsEarned
<1>1. BatchInv => ScopeIsEarned
  <2> SUFFICES ASSUME BatchInv, NEW r \in Range(rows), r.scope_status = "IN_SCOPE"
               PROVE  \/ OwnsAccount(r.person_id, r)
                      \/ \E name \in NamesFor(r) : SpeaksFor(name, r.person_id, ContextOf(r))
    BY DEF ScopeIsEarned
  <2>1. PICK i \in DOMAIN rows : r = rows[i]
    BY DEF Range
  <2> QED BY <2>1 DEF BatchInv, HasReasons
<1>2. JobsInit => BatchInv
  BY InitBatch DEF JobsInit
<1>3. BatchInv /\ [JobsNext]_<<batchVars, jobVars>> => BatchInv'
  BY JobsLeaveTheBatch
<1> QED BY <1>1, <1>2, <1>3, PTL DEF JobsSpec
=============================================================================
