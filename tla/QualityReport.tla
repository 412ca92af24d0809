---------------------------- MODULE QualityReport ----------------------------
(***************************************************************************)
(* The checks of a batch: mapear_infra/quality_report (BatchQualityChecker)*)
(* and the gates of mapear_infra/quality.  A batch is a sequence of rows   *)
(* of the same columns; a column a batch lacks is not checked.  Scores are *)
(* in ten-thousandths, rates in percent.                                   *)
(***************************************************************************)
EXTENDS Integers, Sequences, FiniteSetsExt
LOCAL SeqExt == INSTANCE SequencesExt

CONSTANTS
  Null,       \* NULL in a column
  Thresholds  \* QualityThresholds: [temporal_cutoff, min_city_coverage, min_mayor_coverage,
              \*  max_entity_mentions, min_stddev, min_rows_coverage, min_rows_distribution]

Columns(batch) == IF batch = <<>> THEN {} ELSE DOMAIN batch[1]
Failing(batch, Bad(_)) == {i \in DOMAIN batch : Bad(batch[i])}
Nulls(batch, col) == Failing(batch, LAMBDA r : r[col] = Null)
Repeats(batch, col) ==
  {i \in DOMAIN batch : \E j \in 1..(i - 1) : batch[j][col] = batch[i][col]}

\* A check that fails, or one that warns, when a row is bad.
Required(name, bad) == [name |-> name, status |-> IF bad = {} THEN "PASS" ELSE "FAIL"]
Desired(name, bad) == [name |-> name, status |-> IF bad = {} THEN "PASS" ELSE "WARN"]
Skipped(name) == [name |-> name, status |-> "SKIP"]

\* The primary key is that of the first row's source; a social post's may be
\* the content hash as well, which the check does not look at.
PrimaryKey(batch) == IF batch[1].source_type = "social" THEN "post_id" ELSE "content_hash"

CheckCompleteness(batch) ==
  LET pk == PrimaryKey(batch)
  IN {IF col \in Columns(batch) THEN Required(<<"not_null", col>>, Nulls(batch, col))
      ELSE Required(<<"not_null", col>>, DOMAIN batch) : col \in {"published_at", "extracted_at"}}
     \cup {Required(<<"not_null", pk>>, Nulls(batch, pk)), Required(<<"unique", pk>>, Repeats(batch, pk))}
     \cup {Required(<<"not_null", "url">>,
                    Failing(batch, LAMBDA r : r.url = Null /\ r.source_type \in {"rss", "social"}))}

Enums ==
  [sentiment_label |-> {"FAVORABLE", "WARNING", "ALERT"},
   scope_status |-> {"IN_SCOPE", "OUT_OF_SCOPE", "AMBIGUOUS"},
   platform |-> {"facebook", "instagram", "x", "tiktok", "rss"},
   source_type |-> {"rss", "social"}, event_type |-> {"article", "post"},
   data_type |-> {"backfill", "incremental"}]
MayBeNull == {"sentiment_label", "scope_status"}
Scores == {"resolution_confidence", "sentiment_confidence", "confidence_score", "risk_score"}

CheckSemanticValidity(batch) ==
  LET enums == DOMAIN Enums \cap Columns(batch)
  IN {Required(<<"not_null", col>>, Nulls(batch, col)) : col \in enums \ MayBeNull}
     \cup {Required(<<"valid_enum", col>>, Failing(batch, LAMBDA r : r[col] \notin Enums[col] \cup {Null})) :
             col \in enums}
     \cup {Required(<<"range", col>>,
                    Failing(batch, LAMBDA r : r[col] # Null /\ r[col] \notin 0..10000)) :
             col \in Scores \cap Columns(batch)}
     \cup {Required(<<"range", col>>,
                    Failing(batch, LAMBDA r : r[col] # Null /\ r[col] \notin -100..100)) :
             col \in {"sentiment_overall"} \cap Columns(batch)}

EntityColumns == {"mentioned_cities", "mentioned_mayors", "mentioned_persons", "mentioned_parties"}
TotalEntityMentions(row) ==
  MapThenSumSet(LAMBDA col : Cardinality(row[col]), EntityColumns \cap DOMAIN row)

\* Coverage is a rate of the batch, not asked of a small one.
Coverage(name, rows, col, minimum) ==
  LET without == Failing(rows, LAMBDA r : r[col] = {})
  IN IF Len(rows) < Thresholds.min_rows_coverage THEN Skipped(name)
     ELSE Desired(name, IF 100 * (Len(rows) - Cardinality(without)) < minimum * Len(rows)
                        THEN without ELSE {})

CheckEnrichmentQuality(batch, source) ==
  LET inScope == SelectSeq(batch, LAMBDA r : r.author_in_scope)
  IN {Desired(<<"stoplist_entity_leak", "batch">>,
              Failing(batch, LAMBDA r : TotalEntityMentions(r) > Thresholds.max_entity_mentions))}
     \cup {Coverage(<<"city_coverage", "batch">>, batch, col, Thresholds.min_city_coverage[source]) :
             col \in {"mentioned_cities"} \cap Columns(batch)}
     \cup IF "author_in_scope" \notin Columns(batch) THEN {}
          ELSE {Coverage(<<"mayor_coverage_inscope", "batch">>, inScope, "mentioned_mayors",
                         Thresholds.min_mayor_coverage)}

CheckTemporal(batch) ==
  {Required(<<"temporal_cutoff_violation", "batch">>,
            Failing(batch, LAMBDA r : r.published_at # Null
                                      /\ r.published_at < Thresholds.temporal_cutoff))}

\* The sample variance, against the square of the least standard deviation.
NearlyConstant(values, least) ==
  LET n == Len(values)
      sum == SeqExt!FoldLeft(LAMBDA a, x : a + x, 0, values)
      squares == SeqExt!FoldLeft(LAMBDA a, x : a + x * x, 0, values)
  IN n * squares - sum * sum < least * least * n * (n - 1)

CheckDistribution(batch) ==
  {LET values == SelectSeq([i \in DOMAIN batch |-> batch[i][col]], LAMBDA x : x # Null)
   IN IF Len(values) < Thresholds.min_rows_distribution THEN Skipped(<<"distribution", col>>)
      ELSE Desired(<<"distribution", col>>,
                   IF NearlyConstant(values, Thresholds.min_stddev[col]) THEN DOMAIN batch ELSE {}) :
     col \in DOMAIN Thresholds.min_stddev \cap Columns(batch)}

CheckConsistency(batch) ==
  LET cols == Columns(batch)
      pair(name, left, right, Bad(_)) ==
        IF {left, right} \subseteq cols THEN {Required(name, Failing(batch, Bad))} ELSE {}
  IN pair(<<"author_in_scope_matches_scope_status", "batch">>, "author_in_scope", "scope_status",
          LAMBDA r : r.author_in_scope # (r.scope_status = "IN_SCOPE"))
     \cup pair(<<"content_rn_relevant_parity", "batch">>, "content_rn_relevant", "is_rn_relevant",
               LAMBDA r : r.content_rn_relevant # r.is_rn_relevant)
     \cup pair(<<"inscope_requires_person_id", "batch">>, "author_in_scope", "person_id",
               LAMBDA r : r.author_in_scope /\ r.person_id = Null)
     \cup pair(<<"sentiment_label_confidence_pairing", "batch">>, "sentiment_label", "sentiment_confidence",
               LAMBDA r : (r.sentiment_label = Null) # (r.sentiment_confidence = Null))

RunChecks(batch, source) ==
  IF batch = <<>> THEN {[name |-> <<"not_empty", "batch">>, status |-> "FAIL"]}
  ELSE CheckCompleteness(batch) \cup CheckSemanticValidity(batch)
       \cup CheckEnrichmentQuality(batch, source) \cup CheckTemporal(batch)
       \cup CheckDistribution(batch) \cup CheckConsistency(batch)

FailedChecks(checks) == {c.name : c \in {c \in checks : c.status = "FAIL"}}

-----------------------------------------------------------------------------
\* mapear_infra/quality: the gate before a layer is written.
RequiredCols ==
  [raw |-> {"url", "source_feed", "title", "content", "content_hash"},
   silver |-> {"url", "source_feed", "title", "content_clean", "content_hash"},
   gold |-> {"url", "source_feed", "title", "content_clean", "content_hash", "content_rn_relevant"}]
ValidateInline(batch, layer) ==
  /\ batch # <<>>
  /\ RequiredCols[layer] \subseteq Columns(batch)
  /\ \A col \in RequiredCols[layer] : Nulls(batch, col) = {}
  /\ Repeats(batch, "content_hash") = {}
=============================================================================
