--------------------------- MODULE PersonResolver ---------------------------
(***************************************************************************)
(* Whom a document is about: PersonResolver (mapear_domain/entity_         *)
(* resolution/person_resolver), the ResolutionConfidenceScorer it asks and *)
(* the IdentityAuditor that sends doubtful answers to the review queue.    *)
(* Scores are in hundredths, the scorer's in ten-thousandths.              *)
(***************************************************************************)
EXTENDS Mentions

CONSTANTS
  Stopwords,          \* _STOPWORDS
  ShortWords,         \* words of one or two letters
  RoleKeywords,       \* words that speak of a role
  InstitutionalTokens,
  MalformedHandles    \* handles that break their platform's pattern

Tokens(name) == name \ (Stopwords \cup ShortWords)
Platforms == {"facebook", "instagram", "x", "tiktok"}

\* The indexes are dictionaries: of two targets of one key the last one stays.
LastOf(S) == IF S = {} THEN NONE ELSE Max(S)
HandleIn(i, platform) ==
  IF platform \in DOMAIN Politicians[i].handles THEN StripHandle[Politicians[i].handles[platform]] ELSE ""
LookupHandle(platform, handle) ==
  IF platform \notin Platforms THEN NONE
  ELSE LastOf({i \in People : HandleIn(i, platform) # "" /\ HandleIn(i, platform) = StripHandle[handle]})
NamedExactly(name) ==
  LET named == {i \in People : Politicians[i].name = name}
  IN IF named # {} THEN LastOf(named)
     ELSE LastOf({i \in People : name \in Politicians[i].aliases})
TargetTokens(i) == UNION {Tokens(n) : n \in Politicians[i].aliases \cup {Politicians[i].name}}

-----------------------------------------------------------------------------
\* The scorer: how much of a target's name the given one recalls.
Recall(name, target) ==
  LET t == target \ ShortWords
  IN IF t = {} THEN 0 ELSE (10000 * Cardinality(name \cap t)) \div Cardinality(t)
NameSimilarity(name, i) ==
  Max({Recall(name \ ShortWords, n) : n \in Politicians[i].aliases \cup {Politicians[i].name}})
DictMatch(name, i, byHandle) ==
  CASE byHandle \/ name \in Politicians[i].aliases \cup {Politicians[i].name} -> 10000
    [] ~byHandle /\ name \notin Politicians[i].aliases \cup {Politicians[i].name} ->
         IF Recall(name \ ShortWords, Politicians[i].name) >= 5000 THEN 5000 ELSE 0

\* No caller passes a bio: that part is 0.  A page's name replaces the mention.
Breakdown(name, page, i, byHandle) ==
  LET used == IF page # {} THEN page ELSE name
      sim == NameSimilarity(used, i)
  IN [name_sim |-> sim,
      total |-> ((IF byHandle THEN 300000 ELSE 0) + 45 * sim
                 + 15 * DictMatch(used, i, byHandle)) \div 100]

-----------------------------------------------------------------------------
ContextScore(i, context) ==
  LET t == Politicians[i]
      has(name) == name # {} /\ name \subseteq context
      score == 50 + (IF has(t.city) THEN 20 ELSE 0) + (IF has(t.party) THEN 10 ELSE 0)
                  + (IF t.role \in DOMAIN RoleKeywords /\ RoleKeywords[t.role] \cap context # {}
                     THEN 10 ELSE 0)
                  + (IF t.is_incumbent /\ "rn" \in context THEN 5 ELSE 0)
  IN IF context = {} THEN 50 ELSE Min({score, 95})

\* The margin is a difference of doubles: of the differences of exactly 0.15
\* some come out below it.
RoundedBelow == {<<70, 55>>, <<80, 65>>, <<90, 75>>}
WithinMargin(best, second) == best - second < 15 \/ <<best, second>> \in RoundedBelow

Classify(score) ==
  CASE score >= 70 -> "IN_SCOPE"
    [] score >= 40 /\ score < 70 -> "AMBIGUOUS"
    [] score < 40 -> "OUT_OF_SCOPE"

Unresolved(scope, confidence, candidates, sim) ==
  [person |-> NONE, scope |-> scope, confidence |-> confidence,
   candidates |-> candidates, name_sim |-> sim, by |-> "none"]
Resolved(i, confidence, sim, by) ==
  [person |-> i, scope |-> "IN_SCOPE", confidence |-> confidence,
   candidates |-> {}, name_sim |-> sim, by |-> by]

ByHandle(i, name, page) ==
  LET b == Breakdown(name, page, i, TRUE)
  IN Resolved(i, b.total \div 100, b.name_sim, "handle")

ByExactName(i, name, page, context) ==
  LET b == Breakdown(name, page, i, FALSE)
      score == ContextScore(i, context)
  IN IF context = {} THEN Resolved(i, 90, b.name_sim, "exact")
     ELSE IF score >= 60 THEN Resolved(i, Min({score + 20, 97}), b.name_sim, "exact")
     ELSE Unresolved("AMBIGUOUS", 55, {i}, b.name_sim)

\* Targets that share a word with the name, by how the context speaks for them;
\* among equals the sort keeps the order of the seed.
ScoresOf(name, context) ==
  [i \in {i \in People : Tokens(name) \cap TargetTokens(i) # {}} |-> ContextScore(i, context)]
BestOf(scores) ==
  CHOOSE i \in DOMAIN scores :
    \A j \in DOMAIN scores \ {i} : scores[j] < scores[i] \/ (scores[j] = scores[i] /\ i < j)
NoRivals(best, scores) == {}
Rivals(best, scores) == {j \in DOMAIN scores \ {best} : WithinMargin(scores[best], scores[j])}

Ranked(best, rivals, score, sim) ==
  IF rivals # {} THEN Unresolved("AMBIGUOUS", score, {best} \cup rivals, sim)
  ELSE IF Classify(score) = "IN_SCOPE" THEN Resolved(best, score, sim, "tokens")
  ELSE Unresolved(Classify(score), score, {best}, sim)
ByTokens(name, page, scores) ==
  IF scores = <<>> THEN Unresolved("OUT_OF_SCOPE", 0, {}, NONE)
  ELSE LET best == BestOf(scores)
       IN Ranked(best, Rivals(best, scores), scores[best], Breakdown(name, page, best, FALSE).name_sim)

\* resolve: the handle, then the exact name, then the words of the name.
Resolve(name, platform, handle, page, context) ==
  LET owner == IF handle = NONE THEN NONE ELSE LookupHandle(platform, handle)
      exact == NamedExactly(name)
  IN IF owner # NONE THEN ByHandle(owner, name, page)
     ELSE IF name = {} THEN Unresolved("OUT_OF_SCOPE", 0, {}, NONE)
     ELSE IF exact # NONE THEN ByExactName(exact, name, page, context)
     ELSE ByTokens(name, page, ScoresOf(name, context))

\* resolve_best: the handle alone, else the most confident mention, first those
\* in scope, then the ambiguous.  Ties go to the earlier group of mentions; in a
\* group the order is that of a set, so the answer is a set of possible ones.
MostConfident(results) ==
  LET scoped(s) == {a \in results : a.r.scope = s}
      kept == IF scoped("IN_SCOPE") # {} THEN scoped("IN_SCOPE")
              ELSE IF scoped("AMBIGUOUS") # {} THEN scoped("AMBIGUOUS") ELSE results
  IN {a.r : a \in {a \in kept : \A b \in kept :
        \/ b.r.confidence < a.r.confidence
        \/ b.r.confidence = a.r.confidence /\ a.group <= b.group}}
Preferred(single, results) ==
  IF single.scope = "IN_SCOPE" THEN {single}
  ELSE IF results = {} THEN {Unresolved("OUT_OF_SCOPE", 0, {}, NONE)}
  ELSE MostConfident(results)
ResolveBest(mentions, platform, handle, page, context) ==
  Preferred(IF handle = NONE THEN Unresolved("OUT_OF_SCOPE", 0, {}, NONE)
            ELSE Resolve({handle}, platform, handle, page, context),
            {[group |-> m.group, r |-> Resolve(m.name, platform, NONE, page, context)] : m \in mentions})

-----------------------------------------------------------------------------
\* The auditor: what makes an answer doubtful.
ShouldEnqueue(r, page) ==
  {reason \in {"low_confidence", "ambiguous_scope", "institutional_page_name", "name_mismatch"} :
     CASE reason = "low_confidence" -> r.scope = "IN_SCOPE" /\ r.confidence < 75
       [] reason = "ambiguous_scope" -> r.scope = "AMBIGUOUS"
       [] reason = "institutional_page_name" -> page \cap InstitutionalTokens # {}
       [] reason = "name_mismatch" -> r.name_sim # NONE /\ r.name_sim < 2000}
=============================================================================
