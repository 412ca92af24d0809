---------------------------- MODULE UrlFrontier ----------------------------
(***************************************************************************)
(* The Postgres table url_frontier and the methods of URLFrontier          *)
(* (pipelines/mapear-rss, discovery/url_frontier.py).  Every method is one *)
(* transaction, so every method is one transition of the variable rows.    *)
(* The callers, the RSS runs, are in RssExtraction.                        *)
(*                                                                         *)
(* Time.  The SQL compares timestamps with cutoffs and with nothing else,  *)
(* so a row holds the age of each timestamp, saturated one above the only  *)
(* limit it is compared with.  The abstraction is exact, keeps the state   *)
(* space finite and lets time run for ever.                                *)
(***************************************************************************)
EXTENDS Integers, FiniteSets

CONSTANTS
  Urls,          \* the URLs discovery can ever return
  UolUrls,       \* those found through the deactivated UOL feed
  Undated,       \* those stored with published_at NULL
  MaxRetries,    \* get_retryable's max_retries
  StaleTimeout,  \* reset_stale_in_progress's timeout_minutes, in ticks
  RecircTtl,     \* recirculate_stale's ttl_hours, in ticks
  PurgeTtl,      \* purge_old_pending's ttl_days, in ticks
  PendingLimit,  \* LIMIT of get_pending
  RetryLimit,    \* LIMIT of get_retryable
  RecircLimit,   \* LIMIT of recirculate_stale
  AttemptCap,    \* bound: attempt_count saturates here ("this many or more")
  NULL           \* SQL NULL

ASSUME UrlAssumption == UolUrls \subseteq Urls /\ Undated \subseteq Urls

\* attempt_count is only compared with MaxRetries, and a deferral takes back
\* one: a cap above MaxRetries loses nothing the SQL can see.
ASSUME LimitAssumption ==
  /\ MaxRetries \in Nat /\ MaxRetries > 0
  /\ AttemptCap \in Nat /\ AttemptCap > MaxRetries
  /\ StaleTimeout \in Nat /\ RecircTtl \in Nat /\ PurgeTtl \in Nat
  /\ PendingLimit \in Nat /\ RetryLimit \in Nat /\ RecircLimit \in Nat

ASSUME NullAssumption == NULL \notin Nat

VARIABLES
  rows,    \* the table: one record per URL, status "absent" when not stored
  pubAge,  \* age of each URL's published_at, NULL for the Undated
  fails    \* history: failures recorded since the row was added or completed

frontierVars == <<rows, pubAge, fails>>

Statuses == {"absent", "pending", "in_progress", "completed", "failed"}

AgesUpTo(limit) == 0 .. (limit + 1)

RowType ==
  [status    : Statuses,
   attempts  : 0 .. AttemptCap,
   claimAge  : AgesUpTo(StaleTimeout) \cup {NULL},   \* last_attempt_at, kept
                                                  \* from claim to failure
   updateAge : AgesUpTo(RecircTtl),                  \* updated_at
   recircAge : AgesUpTo(RecircTtl) \cup {NULL}]      \* recirculated_at

InStatus(status) == {u \in Urls : rows[u].status = status}

\* SQL's "ts < now - limit", false of a NULL timestamp.
OlderThan(age, limit) == age # NULL /\ age > limit

Aged(age, limit) == IF age = NULL \/ age > limit THEN age ELSE age + 1

-----------------------------------------------------------------------------
(* What one UPDATE does to one row it selects.  Every one of them sets      *)
(* updated_at.  last_attempt_at is read in status in_progress alone, and    *)
(* every statement that sets that status sets it too, so a row that turns   *)
(* pending or completed may forget it.                                      *)

Row(status, attempts, claimAge, recircAge) ==
  [status |-> status, attempts |-> attempts, claimAge |-> claimAge,
   updateAge |-> 0, recircAge |-> recircAge]

AbsentRow == Row("absent", 0, NULL, NULL)

Inserted == Row("pending", 0, NULL, NULL)

Bumped(n) == IF n < AttemptCap THEN n + 1 ELSE n

ClaimedUndated(r) ==
  Row("in_progress", Bumped(r.attempts), r.claimAge, r.recircAge)
Claimed(r) == Row("in_progress", Bumped(r.attempts), 0, r.recircAge)

Completed(r) == Row("completed", r.attempts, NULL, r.recircAge)

FailedMisspelt(r) == Row("error", r.attempts, r.claimAge, r.recircAge)
Failed(r) == Row("failed", r.attempts, r.claimAge, r.recircAge)

\* GREATEST(attempt_count - 1, 0).  A saturated counter stands for the cap or
\* more: taking one from it leaves the cap or one less, as "more" says.
GivenBack(n, more) ==
  IF n = AttemptCap /\ more THEN n ELSE IF n > 0 THEN n - 1 ELSE 0

Deferred(r, more) ==
  IF r.status = "in_progress"
  THEN Row("pending", GivenBack(r.attempts, more), NULL, r.recircAge)
  ELSE r

Reset(r) == Row("pending", r.attempts, NULL, r.recircAge)

RecirculatedUntouched(r) ==
  [Row("pending", r.attempts, NULL, 0) EXCEPT !.updateAge = r.updateAge]
Recirculated(r) == Row("pending", r.attempts, NULL, 0)

\* SET attempt_count = 99: beyond every limit.
Banned(r) == Row("failed", AttemptCap, r.claimAge, r.recircAge)

-----------------------------------------------------------------------------
(* The WHERE clauses.                                                      *)

RetryableOffByOne(r) == r.status = "failed" /\ r.attempts <= MaxRetries
Retryable(r) == r.status = "failed" /\ r.attempts < MaxRetries

StaleAtOnce(r) == r.status = "in_progress" /\ ~ (r.claimAge < StaleTimeout)
Stale(r) == r.status = "in_progress" /\ OlderThan(r.claimAge, StaleTimeout)

RecirculableAnyStatus(r) ==
  r.status # "absent" /\ OlderThan(r.updateAge, RecircTtl)
Recirculable(r) ==
  /\ r.status = "completed"
  /\ OlderThan(r.updateAge, RecircTtl)
  /\ r.recircAge = NULL \/ OlderThan(r.recircAge, RecircTtl)

PurgeableFailedOnly(u) ==
  rows[u].status = "failed" /\ OlderThan(pubAge[u], PurgeTtl)
Purgeable(u) ==
  rows[u].status \in {"pending", "failed"} /\ OlderThan(pubAge[u], PurgeTtl)

(* ORDER BY ... LIMIT n: a prefix of the candidates under some order that  *)
(* agrees with "before"; ties are broken either way.                       *)
Selection(S, candidates, limit, Before(_, _)) ==
  /\ S \subseteq candidates
  /\ \/ Cardinality(S) = limit
     \/ S = candidates /\ Cardinality(S) <= limit
  /\ \A u \in S, v \in candidates \ S : ~ Before(v, u)

\* published_at DESC NULLS LAST
NewerFirst(u, v) ==
  pubAge[u] # NULL /\ (pubAge[v] = NULL \/ pubAge[u] < pubAge[v])

\* attempt_count ASC, updated_at ASC
FewestAttemptsFirst(u, v) ==
  \/ rows[u].attempts < rows[v].attempts
  \/ rows[u].attempts = rows[v].attempts /\ rows[u].updateAge > rows[v].updateAge

\* updated_at ASC
OldestUpdateFirst(u, v) == rows[u].updateAge > rows[v].updateAge

-----------------------------------------------------------------------------
(* The methods.  Each takes the set of URLs its statement affects; the     *)
(* predicates above say which sets it can affect.                          *)

Rewrite(S, Updated(_)) ==
  rows' = [u \in Urls |-> IF u \in S THEN Updated(rows[u]) ELSE rows[u]]

\* INSERT ... ON CONFLICT (url) DO NOTHING
AddUrls(S) ==
  LET new == {u \in S : rows[u].status = "absent"} IN
  /\ rows' = [u \in Urls |-> IF u \in new THEN Inserted ELSE rows[u]]
  /\ fails' = [u \in Urls |-> IF u \in new THEN 0 ELSE fails[u]]

GetPending(S) ==
  /\ Selection(S, InStatus("pending"), PendingLimit, NewerFirst)
  /\ Rewrite(S, Claimed)
  /\ UNCHANGED fails

GetRetryable(S) ==
  /\ Selection(S, {u \in Urls : Retryable(rows[u])}, RetryLimit,
               FewestAttemptsFirst)
  /\ Rewrite(S, Claimed)
  /\ UNCHANGED fails

Stored(S) == {u \in S : rows[u].status # "absent"}

\* WHERE url = :url, whatever the status is by now.
MarkCompletedBatch(S) ==
  /\ Rewrite(Stored(S), Completed)
  /\ fails' = [u \in Urls |-> IF u \in S THEN 0 ELSE fails[u]]

MarkFailedBatch(S) ==
  /\ Rewrite(Stored(S), Failed)
  /\ fails' = [u \in Urls |-> IF u \in Stored(S) THEN fails[u] + 1 ELSE fails[u]]

MarkDeferredBatch(S) ==
  /\ \E more \in BOOLEAN : Rewrite(Stored(S), LAMBDA r : Deferred(r, more))
  /\ UNCHANGED fails

ResetStaleInProgress ==
  /\ Rewrite({u \in Urls : Stale(rows[u])}, Reset)
  /\ UNCHANGED fails

RecirculateStale(S) ==
  /\ Selection(S, {u \in Urls : Recirculable(rows[u])}, RecircLimit,
               OldestUpdateFirst)
  /\ Rewrite(S, Recirculated)
  /\ UNCHANGED fails

PurgeOldPending ==
  LET old == {u \in Urls : Purgeable(u)} IN
  /\ rows' = [u \in Urls |-> IF u \in old THEN AbsentRow ELSE rows[u]]
  /\ fails' = [u \in Urls |-> IF u \in old THEN 0 ELSE fails[u]]

\* _deactivate_uol_feed's second UPDATE
DeactivateUol ==
  /\ Rewrite({u \in UolUrls : rows[u].status \in {"pending", "in_progress"}},
             Banned)
  /\ UNCHANGED fails

Older(r) ==
  [status    |-> r.status,
   attempts  |-> r.attempts,
   claimAge  |-> Aged(r.claimAge, StaleTimeout),
   updateAge |-> Aged(r.updateAge, RecircTtl),
   recircAge |-> Aged(r.recircAge, RecircTtl)]

\* Time passes for the table.
Grow ==
  /\ Rewrite({u \in Urls : rows[u].status # "absent"}, Older)
  /\ pubAge' = [u \in Urls |-> Aged(pubAge[u], PurgeTtl)]
  /\ UNCHANGED fails

FrontierInit ==
  /\ rows = [u \in Urls |-> AbsentRow]
  /\ pubAge = [u \in Urls |-> IF u \in Undated THEN NULL ELSE 0]
  /\ fails = [u \in Urls |-> 0]

FrontierTypeOK ==
  /\ rows \in [Urls -> RowType]
  /\ pubAge \in [Urls -> AgesUpTo(PurgeTtl) \cup {NULL}]
  /\ fails \in [Urls -> Nat]
=============================================================================
