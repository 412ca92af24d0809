------------------------------ MODULE Enrichment -----------------------------
(***************************************************************************)
(* One batch on its way from raw items to rows: what a social run does     *)
(* between Apify and the silver table (mapear_social/pipeline), and an RSS *)
(* run between the scraper and the gold table (mapear_rss/pipeline).       *)
(* SocialPipeline and RssPipeline have the runs around it, with what is    *)
(* fetched, written and retried; this module has what the rows say.        *)
(***************************************************************************)
EXTENDS Mentions, PersonResolver, SocialAdapters, QualityReport, TextScores

CONSTANTS
  Channels,         \* a subset of {"rss", "instagram", "facebook", "tiktok", "x"}
  Raw,              \* channel |-> the raw items, for "rss" the scraped articles, there may be
  MaxItems,         \* bound: items of a batch
  Texts,            \* what an item's text reads: [words, mayorOf, claims, sentences]
  WordsOf,          \* the words of a display name
  Recognised,       \* text |-> the entities recognised in it
  Mode,             \* ENRICHMENT_MODE
  ExplainerCoverage, \* MAPEAR_LLM_EXPLAINER_COVERAGE: "alert" or "all"
  Cutoff,           \* effective cutoff of a social run
  Now,
  Rules,            \* thresholds of the classifier
  Candidate,        \* thresholds of the shadow classifier
  VelocityScale     \* posts of a batch that saturate the velocity of a person

ASSUME CutoffAssumption == Cutoff >= Thresholds.temporal_cutoff

VARIABLES
  channel, stage,
  docs,     \* what was fetched, then what was parsed
  rows,     \* silver rows, in the order of docs
  gold,     \* RSS: gold rows
  review,   \* IdentityReviewQueue: ids of the posts sent to review
  shadow,   \* rows of the shadow classifier
  stored    \* what the silver table was given
vars == <<channel, stage, docs, rows, gold, review, shadow, stored>>

Social == channel # "rss"

Init ==
  /\ channel \in Channels /\ stage = "fetch"
  /\ docs = <<>> /\ rows = <<>> /\ gold = <<>> /\ stored = <<>>
  /\ review = {} /\ shadow = {}

\* A record with the fields of another, and its own value for those both have.
f || g == [x \in DOMAIN f \cup DOMAIN g |-> IF x \in DOMAIN f THEN f[x] ELSE g[x]]

\* Whom a run asks for: the targets with a handle, for X only those whose
\* handle it takes.  With nobody to ask for, the actor is not called.
WithHandle(platform) ==
  {i \in People : HandleIn(i, platform) # "" /\ (platform = "x" => HandleIn(i, platform) \notin MalformedHandles)}
BuildInput(platform) == {HandleIn(i, platform) : i \in WithHandle(platform)}
GuardNonempty(platform) == BuildInput(platform) # {}

Fetch ==
  /\ stage = "fetch"
  /\ Social => GuardNonempty(channel)
  /\ \E n \in 1..MaxItems : docs' \in [1..n -> Raw[channel]]
  /\ stage' = "parse"
  /\ UNCHANGED <<channel, rows, gold, review, shadow, stored>>

-----------------------------------------------------------------------------
\* A run whose items are all unreadable, or older than the cutoff, ends here.
ParseSocial ==
  /\ stage = "parse" /\ Social
  /\ docs' = SelectSeq(DedupIntraBatch(PostsOf(Parsed(channel, docs))),
                       LAMBDA p : p.published_at >= Cutoff)
  /\ stage' = IF docs' = <<>> THEN "done" ELSE "enrich"
  /\ UNCHANGED <<channel, rows, gold, review, shadow, stored>>

\* One article of each content; the raw gate.
UniqueArticles(articles) ==
  LET first == {i \in DOMAIN articles :
                  \A j \in 1..(i - 1) : articles[j].content_hash # articles[i].content_hash}
  IN [k \in 1..Cardinality(first) |->
        articles[CHOOSE i \in first : Cardinality({j \in first : j <= i}) = k]]
ParseArticles ==
  /\ stage = "parse" /\ ~Social
  /\ docs' = UniqueArticles(docs)
  /\ stage' = IF ValidateInline(docs', "raw") THEN "enrich" ELSE "done"
  /\ UNCHANGED <<channel, rows, gold, review, shadow, stored>>

-----------------------------------------------------------------------------
EntityList(ner) ==
  {[name |-> n, type |-> "city"] : n \in ner.cities} \cup {[name |-> n, type |-> "mayor"] : n \in ner.mayors}
  \cup {[name |-> n, type |-> "governor"] : n \in ner.governors}
  \cup {[name |-> n, type |-> "party"] : n \in ner.parties}

Mentioned(ner) ==
  [mentioned_cities |-> ner.cities, mentioned_mayors |-> ner.mayors,
   mentioned_governors |-> ner.governors, mentioned_parties |-> ner.parties,
   mentioned_candidates |-> ner.candidates, mentioned_politicians |-> ner.politicians,
   mentioned_persons |-> {p.name : p \in ner.persons},
   is_rn_relevant |-> ner.is_rn_relevant, content_rn_relevant |-> ner.is_rn_relevant]

PersonOf(resolution) ==
  [person_id |-> resolution.person, scope_status |-> resolution.scope,
   resolution_confidence |-> 100 * resolution.confidence,
   author_in_scope |-> resolution.scope = "IN_SCOPE"]

\* A mayor's posts carry the mayor's city.
BaseCity(person) ==
  IF person # NONE /\ Politicians[person].role = "mayor"
  THEN CityForPersonId(Politicians[person].person_id) ELSE NONE

SilverRow(post, ner, sentiment, resolution) ==
  [post_id |-> post.post_id, platform |-> post.platform, url |-> post.url,
   author_handle |-> post.handle, author_display_name |-> post.display, text |-> post.text,
   published_at |-> post.published_at, extracted_at |-> Now, engagement |-> post.engagement,
   content_hash |-> post.content_hash, source_type |-> "social", data_type |-> "incremental",
   author_base_city |-> BaseCity(resolution.person)]
  || Mentioned(ner) || sentiment || PersonOf(resolution)

\* One post: mentions, sentiment, whom it is about, whether to ask a human.
EnrichPost ==
  /\ stage = "enrich" /\ Social /\ Len(rows) < Len(docs)
  /\ LET post == docs[Len(rows) + 1]
         text == Texts[post.text]
         page == WordsOf[post.display]
         handle == IF post.handle = "" THEN NONE ELSE post.handle
     IN \E ner \in {EnrichWithRegionMatcher(Extract(text, Recognised[post.text]), text, post.platform, handle)} :
        \E sentiment \in AnalyzeText(Mode, text, EntityList(ner)),
           resolution \in ResolveBest(ner.persons, post.platform, handle, page, text.words) :
          /\ rows' = Append(rows, SilverRow(post, ner, sentiment, resolution))
          /\ review' = IF ShouldEnqueue(resolution, page) = {} THEN review
                       ELSE review \cup {post.post_id}
  /\ UNCHANGED <<channel, stage, docs, gold, shadow, stored>>

\* One article.
EnrichArticle ==
  /\ stage = "enrich" /\ ~Social /\ Len(rows) < Len(docs)
  /\ LET article == docs[Len(rows) + 1]
         text == Texts[article.content]
     IN \E ner \in {Extract(text, Recognised[article.content])} :
        \E resolution \in ResolveBest(ner.persons, "rss", NONE, {}, text.words) :
          rows' = Append(rows, [url |-> article.url, source_feed |-> article.source_feed,
                                title |-> article.title, content_clean |-> article.content,
                                published_at |-> article.published_at, extracted_at |-> Now,
                                content_hash |-> article.content_hash, source_type |-> "rss"]
                               || Mentioned(ner) || PersonOf(resolution))
  /\ UNCHANGED <<channel, stage, docs, gold, review, shadow, stored>>

-----------------------------------------------------------------------------
VolumeByPerson(batch, person) ==
  IF person = NONE THEN 0 ELSE Cardinality({i \in DOMAIN batch : batch[i].person_id = person})

\* Velocity of a social batch: a share of the volume that saturates it.
VelocityUncapped(volume) == (100 * volume) \div VelocityScale
SocialVelocity(volume) == Min({(100 * volume) \div VelocityScale, 100})

Classified(row, c) ==
  [sentiment_label |-> c.label, confidence_score |-> c.confidence, risk_score |-> c.risk,
   decision_factors |-> c.factors] || row

\* The classification of every row needs the volumes of the whole batch.
ClassifierInputs(batch, row) ==
  LET volume == VolumeByPerson(batch, row.person_id)
  IN [polarity |-> row.sentiment_overall, volume |-> volume, velocity |-> SocialVelocity(volume),
      engagement |-> row.engagement]
ClassifyWith(t, in) == ClassifySentiment(t, in.polarity, in.volume, in.velocity, in.engagement)

ShadowRow(row, candidate) ==
  [content_hash |-> row.content_hash, primary_label |-> row.sentiment_label,
   shadow_label |-> candidate.label, shadow_risk |-> candidate.risk]

InScope(batch) == SelectSeq(batch, LAMBDA r : r.scope_status = "IN_SCOPE")

ClassifyPosts ==
  /\ stage = "enrich" /\ Social /\ Len(rows) = Len(docs)
  /\ rows' = [i \in DOMAIN rows |-> Classified(rows[i], ClassifyWith(Rules, ClassifierInputs(rows, rows[i])))]
  /\ stage' = "explain"
  /\ UNCHANGED <<channel, docs, gold, review, shadow, stored>>

\* Silver is written before anything is scored; gold is of the relevant ones.
GateSilver ==
  /\ stage = "enrich" /\ ~Social /\ Len(rows) = Len(docs)
  /\ IF ValidateInline(rows, "silver")
     THEN stored' = rows /\ stage' = IF SelectSeq(rows, LAMBDA r : r.is_rn_relevant) = <<>>
                                     THEN "done" ELSE "score"
     ELSE stored' = stored /\ stage' = "done"
  /\ UNCHANGED <<channel, docs, rows, gold, review, shadow>>

GoldRow(row, sentiment, topic, trend) == row || sentiment || topic || [trend_score |-> trend]

\* The content cache has, for an article, what it was scored in an earlier run:
\* one of the same outcomes.  The trend is that of the busiest city mentioned.
ScoreArticles ==
  /\ stage = "score"
  /\ LET relevant == SelectSeq(rows, LAMBDA r : r.is_rn_relevant)
         text(i) == Texts[relevant[i].content_clean]
         worded == [i \in DOMAIN relevant |-> relevant[i] || [words |-> text(i).words]]
         entities(i) == EntityList([cities |-> relevant[i].mentioned_cities,
                                    mayors |-> relevant[i].mentioned_mayors,
                                    governors |-> relevant[i].mentioned_governors,
                                    parties |-> relevant[i].mentioned_parties])
         trend(i) == Max({0} \cup {TrendScore(c, worded, Now) : c \in relevant[i].mentioned_cities})
     IN \E scored \in [DOMAIN relevant -> {Neutral} \cup Range(Polarity)] :
        \E topic \in [DOMAIN relevant -> UNION {Topics(Mode, text(i).words) : i \in DOMAIN relevant}] :
          /\ \A i \in DOMAIN relevant :
               /\ topic[i] \in Topics(Mode, text(i).words)
               /\ scored[i] \in {s.sentiment_overall : s \in AnalyzeText(Mode, text(i), {})}
          /\ gold' = [i \in DOMAIN relevant |->
                        GoldRow(relevant[i],
                                CHOOSE s \in AnalyzeText(Mode, text(i), entities(i)) : s.sentiment_overall = scored[i],
                                topic[i], trend(i))]
  /\ stage' = "classify"
  /\ UNCHANGED <<channel, docs, rows, review, shadow, stored>>

\* Reach instead of volume share: articles have no engagement.
ClassifyArticles ==
  /\ stage = "classify"
  /\ LET inputs(r) == LET reach == RssReach(gold, r.person_id)
                      IN [polarity |-> r.sentiment_overall, volume |-> reach.volume,
                          velocity |-> reach.velocity \div 100, engagement |-> 0]
         labelled == [i \in DOMAIN gold |-> Classified(gold[i], ClassifyWith(Rules, inputs(gold[i])))]
     IN /\ gold' = labelled
        /\ shadow' = {ShadowRow(labelled[i], ClassifyWith(Candidate, inputs(gold[i]))) : i \in DOMAIN gold}
  /\ stage' = "explain"
  /\ UNCHANGED <<channel, docs, rows, review, stored>>

-----------------------------------------------------------------------------
\* Rows a language model is asked about; an article also for a very negative
\* tone.  A summary comes from the cache or the model; the model may fail.
Explains(row) ==
  \/ ExplainerCoverage = "all"
  \/ row.sentiment_label = "ALERT"
  \/ row.source_type = "rss" /\ row.sentiment_overall <= -35
Summary(row, status) ==
  [narrative_summary |-> IF status = "cache_miss_error" THEN NONE ELSE row.content_hash] || row

Explain(batch) ==
  LET asked == {i \in DOMAIN batch : Explains(batch[i])}
  IN {[i \in DOMAIN batch |->
         IF i \in asked THEN Summary(batch[i], status[i]) ELSE Summary(batch[i], "cache_miss_error")] :
      status \in [asked -> {"cache_hit", "cache_miss_ok", "cache_miss_error"}]}

ExplainPosts ==
  /\ stage = "explain" /\ Social
  /\ rows' \in Explain(rows)
  /\ stage' = "gate"
  /\ UNCHANGED <<channel, docs, gold, review, shadow, stored>>

ExplainArticles ==
  /\ stage = "explain" /\ ~Social
  /\ gold' \in Explain(gold)
  /\ stage' = "done"
  /\ UNCHANGED <<channel, docs, rows, review, shadow, stored>>

\* Only what is in scope is stored, and only that is scored by the candidate;
\* the volumes stay those of the whole batch.
ScopeGate ==
  /\ stage = "gate"
  /\ stored' = InScope(rows)
  /\ shadow' = {ShadowRow(r, ClassifyWith(Candidate, ClassifierInputs(rows, r))) : r \in Range(InScope(rows))}
  /\ stage' = "done"
  /\ UNCHANGED <<channel, docs, rows, gold, review>>

Next ==
  \/ Fetch \/ ParseSocial \/ ParseArticles
  \/ EnrichPost \/ EnrichArticle \/ ClassifyPosts \/ GateSilver
  \/ ScoreArticles \/ ClassifyArticles
  \/ ExplainPosts \/ ExplainArticles \/ ScopeGate

Spec == Init /\ [][Next]_vars

-----------------------------------------------------------------------------
LabelledRows == {r \in Range(rows) \cup Range(gold) : "sentiment_label" \in DOMAIN r}

\* Scores and factors of every row are in their ranges, and what went to
\* review, to the shadow table or to gold is of this batch.
EnrichmentTypeOK ==
  /\ stage \in {"fetch", "parse", "enrich", "score", "classify", "explain", "gate", "done"}
  /\ \A r \in LabelledRows :
       /\ r.confidence_score \in 0..10000 /\ r.risk_score \in 0..10000
       /\ \A f \in r.decision_factors : f.name \in {"velocity_high", "velocity_elevated"} => f.value \in 0..100
  /\ \A g \in Range(gold) : g.trend_score \in 0..10000
  /\ review \subseteq {r.post_id : r \in {r \in Range(rows) : r.source_type = "social"}}
  /\ {g.content_hash : g \in Range(gold)} \cup {s.content_hash : s \in shadow}
       \subseteq {r.content_hash : r \in Range(rows)}

\* A name speaks for a politician in a context: it is theirs, and the context,
\* if there is one, has to do with them; or it has a word of theirs, and they fit
\* the context well, and clearly better (0.15) than anybody else with such a word.
SpeaksFor(name, p, context) ==
  \/ /\ name \in Politicians[p].aliases \cup {Politicians[p].name}
     /\ context = {} \/ ContextScore(p, context) >= 60
  \/ /\ Tokens(name) \cap TargetTokens(p) # {} /\ ContextScore(p, context) >= 70
     /\ \A q \in People \ {p} : Tokens(name) \cap TargetTokens(q) # {} =>
          ContextScore(p, context) - ContextScore(q, context) >= 15

\* A handle that is nobody's is looked up as a name, before the mentions.
ContextOf(row) == Texts[IF row.source_type = "rss" THEN row.content_clean ELSE row.text].words
NamesFor(row) ==
  row.mentioned_persons \cup (IF row.source_type = "rss" THEN {} ELSE {{row.author_handle}})
OwnsAccount(p, row) ==
  /\ row.source_type = "social"
  /\ LookupHandle(row.platform, row.author_handle) # NONE
  /\ HandleIn(p, row.platform) = StripHandle[row.author_handle]

\* A document is attributed to a politician only for a reason: the account is
\* theirs, or a name that the text mentions or the account bears speaks for them.
ScopeIsEarned ==
  \A r \in Range(rows) : r.scope_status = "IN_SCOPE" =>
    \/ OwnsAccount(r.person_id, r)
    \/ \E name \in NamesFor(r) : SpeaksFor(name, r.person_id, ContextOf(r))

\* What a run gives the silver table passes the checks the quality report has
\* for it; of an article only the date, which the page may lack or have wrong,
\* can fail one.
NoFailedCheck ==
  stored # <<>> =>
    LET failed == FailedChecks(RunChecks(stored, IF Social THEN "social" ELSE "rss"))
    IN IF Social THEN failed = {}
       ELSE failed \subseteq {<<"not_null", "published_at">>, <<"temporal_cutoff_violation", "batch">>}
=============================================================================
