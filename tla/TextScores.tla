------------------------------ MODULE TextScores -----------------------------
(***************************************************************************)
(* What mapear_nlp computes of a text besides its mentions: sentiment,     *)
(* topic and trend, and the reach of an RSS person.  A text is a record    *)
(* with its words and its sentences (a sequence of sets of words).         *)
(* Polarity is in hundredths, other scores are in ten-thousandths, time is *)
(* in units of 12 hours, the half-life of a trend.  The last part is the   *)
(* PoliticalSentimentClassifier of mapear_nlp/political_sentiment.         *)
(***************************************************************************)
EXTENDS Integers, Sequences, FiniteSetsExt
LOCAL SeqExt == INSTANCE SequencesExt

CONSTANTS
  Polarity,      \* words |-> -100..100: what the model says of them
  ProjectTopics, \* PROJECT_TOPICS, in order: [label, keywords]
  PoliticalTerms,
  Nothing,       \* None
  LogEngagement  \* engagement |-> min(log1p(e) / log1p(50000), 1)

Neutral == 0

\* What a score can be: a failure of the model or of its service is neutral.
ScoreText(words) == {Polarity[words], Neutral}

\* Each entity has the mean of the first five sentences that name it, else
\* the score of the document.
EntitySentiments(text, entities, overall) ==
  {LET naming == SelectSeq(text.sentences, LAMBDA s : e.name \subseteq s)
       first == SubSeq(naming, 1, Min({Len(naming), 5}))
   IN [entity |-> e.name, entity_type |-> e.type, mention_count |-> Len(naming),
       sentiment |-> IF naming = <<>> THEN overall
                     ELSE SeqExt!FoldLeft(LAMBDA a, s : a + Polarity[s], 0, first) \div Len(first),
       sentiment_source |-> IF naming = <<>> THEN "document" ELSE "entity"] : e \in entities}

\* SKIP mode asks no model.
AnalyzeText(mode, text, entities) ==
  IF mode = "skip" THEN {[sentiment_overall |-> Neutral, sentiment_by_entity |-> {}]}
  ELSE {[sentiment_overall |-> score,
         sentiment_by_entity |-> EntitySentiments(text, entities, score)] : score \in ScoreText(text.words)}

-----------------------------------------------------------------------------
\* classify_by_keywords: the first topic with most keywords; police news
\* without politics is police news.
KeywordTopic(words) ==
  LET hits(i) == Cardinality(ProjectTopics[i].keywords \cap words)
      best == CHOOSE i \in DOMAIN ProjectTopics :
        \A j \in DOMAIN ProjectTopics : hits(j) < hits(i) \/ (hits(j) = hits(i) /\ i <= j)
      police == /\ "policia" \in words /\ words \cap PoliticalTerms = {}
                /\ hits(best) > 0 => ProjectTopics[best].label \notin {"policial", "seguranca"}
  IN IF police THEN [topic_label |-> "policial", topic_id_source |-> "keyword_map"]
     ELSE IF hits(best) > 0
     THEN [topic_label |-> ProjectTopics[best].label, topic_id_source |-> "keyword_map"]
     ELSE [topic_label |-> "", topic_id_source |-> "unclassified"]

\* fit_transform: SKIP mode and a model that fails fall back to the keywords,
\* as does what the model leaves without a topic.
Topics(mode, words) ==
  {KeywordTopic(words)}
  \cup (CASE mode = "skip" -> {}
          [] mode = "api" -> {[topic_label |-> "", topic_id_source |-> "gcp_ordinal"]}
          [] mode = "local" -> {[topic_label |-> "", topic_id_source |-> Nothing]})

-----------------------------------------------------------------------------
\* Articles per unit of time, saturated at five an hour; fewer than two dated
\* articles are 0.1, two of one instant 0.5.
Rate(times, count) ==
  LET span == Max(times) - Min(times)
  IN IF count < 2 THEN 1000
     ELSE IF span = 0 THEN 5000
     ELSE Min({(count * 10000) \div (span * 60), 10000})

\* compute_rss_reach_per_person: undated articles count for volume only.
RssReach(articles, person) ==
  LET of == {i \in DOMAIN articles : articles[i].person_id = person}
      dated == {i \in of : articles[i].published_at # Nothing}
  IN IF person = Nothing THEN [volume |-> 0, velocity |-> 0]
     ELSE [volume |-> Cardinality(of),
           velocity |-> Rate({articles[i].published_at : i \in dated}, Cardinality(dated))]

\* log1p(n) / log1p(10), for the batches of fewer than ten articles.
VolumeShare(n) == CASE n = 1 -> 2891 [] n = 2 -> 4582 [] n = 3 -> 5781
MentionsEntity(name, row) ==
  \/ name \in row.mentioned_cities \cup row.mentioned_mayors \cup row.mentioned_governors
              \cup row.mentioned_parties \cup row.mentioned_persons
  \/ name \subseteq row.words

\* score_entity: volume, recency and velocity of the last 48 hours; an article
\* without a date has that of its extraction.
TrendScore(name, articles, now) ==
  LET at(i) == IF articles[i].published_at = Nothing THEN now ELSE articles[i].published_at
      relevant == {i \in DOMAIN articles : at(i) >= now - 4 /\ MentionsEntity(name, articles[i])}
      n == Cardinality(relevant)
      recency == MapThenSumSet(LAMBDA i : 10000 \div 2^Max({now - at(i), 0}), relevant) \div n
  IN IF relevant = {} THEN 0
     ELSE (35 * VolumeShare(n) + 40 * recency + 25 * Rate({at(i) : i \in relevant}, n)) \div 100

-----------------------------------------------------------------------------
(* Label, confidence and risk of a document, from its polarity (-100..100),*)
(* the volume and velocity (0..100) of its person and its engagement, under*)
(* a record t of thresholds.                                               *)
\* The thresholds of the code; volume and velocity are a parameter.
DefaultThresholds ==
  [polarity_negative |-> -35, polarity_warning |-> -10, polarity_positive |-> 20,
   volume_spike |-> 7, volume_warning |-> 4, velocity_spike |-> 45, velocity_warning |-> 20,
   engagement_high |-> 5000, min_confidence_favorable |-> 3000, min_confidence_alert |-> 4000]

Factor(name, value, weight) == [name |-> name, value |-> value, weight |-> weight]
Abs(x) == IF x < 0 THEN -x ELSE x

\* 1 / (1 + exp(-3 (w - 0.9))) at the sums of weights that occur.
Structural(w) ==
  CASE w = 50 -> 2315 [] w = 60 -> 2891 [] w = 70 -> 3543 [] w = 80 -> 4256 [] w = 100 -> 5744

ComputeConfidence(factors, polarity, velocity, engagement) ==
  LET w == MapThenSumSet(LAMBDA f : f.weight, factors)
      signal == 45 * Abs(polarity) + 35 * velocity + (20 * LogEngagement[engagement]) \div 100
  IN (55 * Structural(w) + 45 * signal) \div 100
ComputeRisk(polarity, velocity, engagement) ==
  Min({50 * Max({-polarity, 0}) + 30 * velocity + (20 * LogEngagement[engagement]) \div 100, 10000})

\* A label the confidence does not carry becomes a warning.
Result(t, label, factors, polarity, velocity, engagement) ==
  LET confidence == ComputeConfidence(factors, polarity, velocity, engagement)
      weak == \/ label = "FAVORABLE" /\ confidence < t.min_confidence_favorable
              \/ label = "ALERT" /\ confidence < t.min_confidence_alert
  IN [label |-> IF weak THEN "WARNING" ELSE label, confidence |-> confidence,
      risk |-> ComputeRisk(polarity, velocity, engagement), factors |-> factors]

Critical(t, polarity, volume, velocity, engagement) ==
  /\ polarity <= t.polarity_negative
  /\ velocity >= t.velocity_spike
  /\ volume >= t.volume_spike \/ engagement >= t.engagement_high
Elevated(t, polarity, volume, velocity) ==
  /\ polarity <= t.polarity_warning
  /\ velocity >= t.velocity_warning \/ volume >= t.volume_warning
Favourable(t, polarity, engagement) ==
  \/ polarity >= t.polarity_positive
  \/ polarity >= t.polarity_warning /\ engagement >= t.engagement_high

AlertFactors(t, polarity, volume, velocity, engagement) ==
  {Factor("polarity_critical", polarity, 40), Factor("velocity_high", velocity, 30),
   Factor("volume_or_engagement_spike", IF volume >= t.volume_spike THEN volume ELSE engagement, 30)}
WarningFactors(t, polarity, volume, velocity) ==
  {Factor("polarity_negative", polarity, 50)}
  \cup {f \in {Factor("velocity_elevated", velocity, 30)} : velocity >= t.velocity_warning}
  \cup {f \in {Factor("volume_elevated", volume, 20)} : volume >= t.volume_warning}
FavourableFactors(t, polarity, engagement) ==
  {Factor("polarity_positive", polarity, 60)}
  \cup {f \in {Factor("engagement_high", engagement, 40)} : engagement >= t.engagement_high}

\* classify: the first rule that applies.
ClassifySentiment(t, polarity, volume, velocity, engagement) ==
  LET result(label, factors) == Result(t, label, factors, polarity, velocity, engagement)
  IN IF Critical(t, polarity, volume, velocity, engagement)
     THEN result("ALERT", AlertFactors(t, polarity, volume, velocity, engagement))
     ELSE IF Elevated(t, polarity, volume, velocity)
     THEN result("WARNING", WarningFactors(t, polarity, volume, velocity))
     ELSE IF Favourable(t, polarity, engagement)
     THEN result("FAVORABLE", FavourableFactors(t, polarity, engagement))
     ELSE result("WARNING", {Factor("insufficient_signal", polarity, 100)})

=============================================================================
