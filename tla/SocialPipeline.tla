--------------------------- MODULE SocialPipeline ---------------------------
(***************************************************************************)
(* One platform of the social ETL: run_pipeline of mapear_social/pipeline  *)
(* from the watermark it reads to the watermark it saves.  The posts come  *)
(* from the platform's own API handle by handle (X), or from one dataset   *)
(* of an Apify actor (the others); they are parsed, loaded to raw, resolved*)
(* and loaded to silver, and a run without a failed load saves its own     *)
(* start time.  Runs overlap (the schedule, a backfill, --platform=all) and*)
(* die anywhere.                                                           *)
(*                                                                         *)
(* A post is visible on its platform from the moment it is published.  What*)
(* the enrichment decides of a post is a constant: its scope.              *)
(***************************************************************************)
EXTENDS Integers, FiniteSets, FiniteSetsExt

CONSTANTS
  Handles, Posts,
  HandleOf,  \* the handle of each post
  ShapeOf,   \* what parsing makes of it: "post", "drift", "crash"
  InScope,   \* posts resolved to a monitored person
  Runs,      \* executions that may overlap
  Floor,     \* ELECTORAL_CUTOFF_DATE
  Lookback,  \* --lookback-days
  Buffer,    \* the actor is asked for a little more than the window
  PageCap,   \* resultsLimit, maxPosts, max_results: newest posts per handle
  MaxTime,   \* bound on the clock
  NULL

ASSUME SocialAssumption ==
  /\ HandleOf \in [Posts -> Handles]
  /\ ShapeOf \in [Posts -> {"post", "drift", "crash"}]
  /\ InScope \subseteq Posts
  /\ {Floor, Lookback, Buffer, MaxTime} \subseteq Nat
  /\ PageCap \in Nat \ {0}
  /\ NULL \notin Int

VARIABLES
  native,       \* TRUE for X, which has no actor in between; never changes
  now,
  published,    \* when each post was published, NULL before
  watermark,    \* of this platform
  run,
  raw, silver,  \* posts in the tables, merged on post_id
  activations,  \* posts whose authors' activations were appended, once or more
  deadLetters,  \* items appended to the table of dead letters
  excused       \* history: posts the platform kept from a run that saved

vars == <<native, now, published, watermark, run, raw, silver, activations, deadLetters, excused>>
tables == <<raw, silver, activations, deadLetters>>

(* todo: handles to ask.  auth, api, answered: the stats of X's adapter.   *)
(* unseen: posts of its window this run was not given.                     *)
Idle == [stage |-> "idle", backfill |-> FALSE, started |-> 0, cutoff |-> 0,
         todo |-> {}, auth |-> {}, api |-> {}, answered |-> {},
         posts |-> {}, dlq |-> {}, failed |-> FALSE, unseen |-> {}]

Visible(h) == {p \in Posts : HandleOf[p] = h /\ published[p] # NULL}
Since(S, t) == {p \in S : published[p] >= t}
Shaped(S, shape) == {p \in S : ShapeOf[p] = shape}

\* The newest posts of a handle, as many as one request gives.
Newest(S) ==
  {p \in S : Cardinality({q \in S : published[q] > published[p]}) < PageCap}

Become(r, s) == run' = [run EXCEPT ![r] = s]
End(r) == Become(r, Idle)

-----------------------------------------------------------------------------
Publish(p) ==
  /\ published[p] = NULL
  /\ published' = [published EXCEPT ![p] = now]
  /\ UNCHANGED <<now, watermark, run, tables, excused>>

Tick ==
  /\ now < MaxTime
  /\ now' = now + 1
  /\ UNCHANGED <<published, watermark, run, tables, excused>>

\* The start of the window of each mode.
CutoffUnclamped(mode) ==
  IF mode = "lookback" THEN now - Lookback
  ELSE IF watermark # NULL THEN watermark ELSE Floor
Cutoff(mode) ==
  CASE mode = "backfill" -> Floor
    [] mode = "lookback" -> Max({now - Lookback, Floor})
    [] mode = "incremental" /\ watermark # NULL -> Max({watermark, Floor})
    [] OTHER -> Floor

Start(r, mode) ==
  /\ run[r].stage = "idle"
  /\ Become(r, [Idle EXCEPT
       !.stage = "fetch", !.backfill = (mode = "backfill"), !.started = now,
       !.cutoff = Cutoff(mode), !.todo = Handles,
       !.unseen = {p \in Posts : published[p] # NULL /\ published[p] < Cutoff(mode)
                                 /\ mode = "lookback"}])
  /\ UNCHANGED <<now, published, watermark, tables, excused>>

\* What a run with posts, or an empty one without errors, may pass over.
Excuses(s) == {p \in s.unseen : HandleOf[p] \notin s.auth \cup s.api}

\* save_watermark, which swallows its own failures; nothing in a backfill.
SaveWatermark(r) ==
  IF run[r].backfill
  THEN UNCHANGED <<watermark, excused>>
  ELSE \/ watermark' = run[r].started /\ excused' = excused \cup Excuses(run[r])
       \/ UNCHANGED <<watermark, excused>>

\* What a run still knows once it has its posts.
Fetched(s, posts, dlq) ==
  [Idle EXCEPT !.stage = "raw", !.backfill = s.backfill, !.started = s.started,
               !.unseen = s.unseen, !.posts = posts, !.dlq = dlq]

-----------------------------------------------------------------------------
(* Stage 1 of X: fetch_posts_via_api asks for one handle after another.     *)
\* Both calls of a handle answered.  A tweet that misses a key goes to the
\* dead letters; one that breaks the parser otherwise ends the run.
Answers(r, h) ==
  /\ native /\ run[r].stage = "fetch" /\ h \in run[r].todo
  /\ LET window == Since(Visible(h), run[r].cutoff)
         given == Newest(window)
     IN IF Shaped(given, "crash") # {}
        THEN End(r)
        ELSE Become(r, [run[r] EXCEPT
               !.todo = @ \ {h}, !.answered = @ \cup {h},
               !.posts = @ \cup Shaped(given, "post"),
               !.dlq = @ \cup Shaped(given, "drift"),
               !.unseen = @ \cup (window \ given)])
  /\ UNCHANGED <<now, published, watermark, tables, excused>>

\* 401 or 403, another error, or 404: the handle is skipped.
Refuses(r, h) ==
  /\ native /\ run[r].stage = "fetch" /\ h \in run[r].todo
  /\ LET skipped == [run[r] EXCEPT !.todo = @ \ {h}, !.unseen = @ \cup Since(Visible(h), run[r].cutoff)]
     IN \/ Become(r, [skipped EXCEPT !.auth = @ \cup {h}])
        \/ Become(r, [skipped EXCEPT !.api = @ \cup {h}])
        \/ Become(r, skipped)
  /\ UNCHANGED <<now, published, watermark, tables, excused>>

Broken(s) == s.auth # {} \/ s.api # {}
Revoked(s) == 2 * Cardinality(s.auth) >= Cardinality(Handles)  \* X_AUTH_FAIL_THRESHOLD

LegitimateEmptyUnchecked(s) == s.answered # {}
LegitimateEmpty(s) == s.answered # {} /\ ~ Broken(s)

\* SystemExit(6) if the token was revoked; no posts: the watermark moves only
\* if some handle answered and none failed.
FetchedX(r) ==
  /\ native /\ run[r].stage = "fetch" /\ run[r].todo = {}
  /\ IF Revoked(run[r])
     THEN End(r) /\ UNCHANGED <<watermark, excused>>
     ELSE IF run[r].posts # {}
     THEN Become(r, Fetched(run[r], run[r].posts, run[r].dlq)) /\ UNCHANGED <<watermark, excused>>
     ELSE /\ End(r)
          /\ IF LegitimateEmpty(run[r]) THEN SaveWatermark(r)
             ELSE UNCHANGED <<watermark, excused>>
  /\ UNCHANGED <<now, published, tables>>

-----------------------------------------------------------------------------
(* Stage 1 and 2 of the others: one actor run, one dataset (ApifyClient has  *)
(* the client's calls).                                                     *)
\* A handle the actor could not read leaves a sentinel item in the dataset.
ReadDataset(r, served) ==
  /\ ~ native /\ run[r].stage = "fetch"
  /\ LET window(h) == Since(Visible(h), run[r].cutoff - Buffer)
         items == UNION {Newest(window(h)) : h \in served}
     IN IF items = {} /\ served = Handles
        THEN End(r) /\ SaveWatermark(r)
        ELSE /\ Become(r, [run[r] EXCEPT
                  !.stage = "parse", !.posts = items,
                  !.unseen = @ \cup ((UNION {window(h) : h \in Handles}) \ items)])
             /\ UNCHANGED <<watermark, excused>>
  /\ UNCHANGED <<now, published, tables>>

InWindow(p, cutoff) == published[p] >= cutoff

\* _parse_social_posts, the cutoff, and what a run without posts does: drift
\* ends it with SystemExit(4), anything else is a run with nothing to do.
Parse(r) ==
  /\ run[r].stage = "parse"
  /\ LET items == run[r].posts
         posts == {p \in Shaped(items, "post") : InWindow(p, run[r].cutoff)}
         dlq == items \ Shaped(items, "post")
     IN CASE posts # {} -> Become(r, Fetched(run[r], posts, dlq)) /\ UNCHANGED <<watermark, excused>>
          [] posts = {} /\ Shaped(items, "drift") # {} ->
               End(r) /\ UNCHANGED <<watermark, excused>>
          [] OTHER -> End(r) /\ SaveWatermark(r)
  /\ UNCHANGED <<now, published, tables>>

-----------------------------------------------------------------------------
\* Stage 3: a load that fails is noted (failed_loads) and the run goes on.
Load(table, rows, ok) == IF ok THEN table' = table \cup rows ELSE UNCHANGED table

PersistRaw(r, ok, dlqOk) ==
  /\ run[r].stage = "raw"
  /\ Load(raw, run[r].posts, ok)
  /\ Load(deadLetters, run[r].dlq, dlqOk)
  /\ Become(r, [run[r] EXCEPT !.stage = "enrich", !.dlq = {},
                              !.failed = ~ ok \/ (~ dlqOk /\ run[r].dlq # {})])
  /\ UNCHANGED <<now, published, watermark, silver, activations, excused>>

\* Stages 4 to 5.6: resolution, audit, sentiment, classification and the
\* summaries decide nothing but what passes the gate of stage 6.
Enrich(r) ==
  /\ run[r].stage = "enrich"
  /\ Become(r, [run[r] EXCEPT !.stage = "silver", !.posts = @ \cap InScope])
  /\ UNCHANGED <<now, published, watermark, tables, excused>>

\* Stage 6: the posts in scope, and what their authors did.
PersistSilver(r, ok, activationsOk) ==
  /\ run[r].stage = "silver"
  /\ LET rows == run[r].posts
     IN /\ Load(silver, rows, ok)
        /\ Load(activations, rows, activationsOk)
        /\ Become(r, [run[r] EXCEPT !.stage = "finish", !.posts = {},
                !.failed = @ \/ (~ (ok /\ activationsOk) /\ rows # {})])
  /\ UNCHANGED <<now, published, watermark, raw, deadLetters, excused>>

Finish(r) ==
  /\ run[r].stage = "finish"
  /\ End(r)
  /\ IF run[r].failed THEN UNCHANGED <<watermark, excused>> ELSE SaveWatermark(r)
  /\ UNCHANGED <<now, published, tables>>

\* An exception (Apify, a write to the lake, the network) or a kill.
Abort(r) ==
  /\ run[r].stage # "idle"
  /\ End(r)
  /\ UNCHANGED <<now, published, watermark, tables, excused>>

Init ==
  /\ native \in BOOLEAN
  /\ now = 0
  /\ published = [p \in Posts |-> NULL]
  /\ watermark = NULL
  /\ run = [r \in Runs |-> Idle]
  /\ raw = {} /\ silver = {} /\ activations = {} /\ deadLetters = {}
  /\ excused = {}

Next ==
  /\ UNCHANGED native
  /\ \/ Tick
     \/ \E p \in Posts : Publish(p)
     \/ \E r \in Runs :
          \/ \E mode \in {"incremental", "lookback", "backfill"} : Start(r, mode)
          \/ \E h \in Handles : Answers(r, h) \/ Refuses(r, h)
          \/ \E served \in SUBSET Handles : ReadDataset(r, served)
          \/ FetchedX(r) \/ Parse(r) \/ Enrich(r) \/ Finish(r) \/ Abort(r)
          \/ \E ok, alsoOk \in BOOLEAN :
               PersistRaw(r, ok, alsoOk) \/ PersistSilver(r, ok, alsoOk)

Spec == Init /\ [][Next]_vars

Stages == {"idle", "fetch", "parse", "raw", "enrich", "silver", "finish"}
RunState ==
  [stage : Stages, backfill : BOOLEAN, started : Nat, cutoff : Nat,
   todo : SUBSET Handles, auth : SUBSET Handles, api : SUBSET Handles,
   answered : SUBSET Handles, posts : SUBSET Posts, dlq : SUBSET Posts,
   failed : BOOLEAN, unseen : SUBSET Posts]

TypeOK ==
  /\ now \in Nat
  /\ published \in [Posts -> Nat \cup {NULL}]
  /\ watermark \in Nat \cup {NULL}
  /\ run \in [Runs -> RunState]
  /\ raw \subseteq Shaped(Posts, "post") /\ silver \subseteq InScope
  /\ activations \subseteq InScope
  /\ deadLetters \subseteq Posts
  /\ excused \subseteq Posts

-----------------------------------------------------------------------------
Passed(p) ==
  /\ published[p] # NULL /\ watermark # NULL
  /\ Floor <= published[p] /\ published[p] < watermark

Kept(p) ==
  /\ p \in raw
  /\ p \in InScope => p \in silver \cap activations

(* Once the watermark has passed a post that parses, the post is in raw and,*)
(* if in scope, in silver with its activations, unless the platform kept it *)
(* from the run: a handle that failed, more posts than one request gives, or*)
(* an operator's shorter window.  It holds although loads fail one by one,  *)
(* runs overlap with backfills, die, and lose their save.                   *)
NoPostLeftBehind ==
  \A p \in Posts : ShapeOf[p] = "post" /\ Passed(p) => Kept(p) \/ p \in excused
=============================================================================
