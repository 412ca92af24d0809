---------------------------- MODULE RssDiscovery ----------------------------
(***************************************************************************)
(* Discovery of the RSS pipeline against its watermark: run_pipeline reads *)
(* the watermark, RSSReader fetches the feeds one after another and drops  *)
(* what was published before it, and a run that went well saves its own    *)
(* start time.  Runs overlap, feeds fail, runs die, saves fail, and the    *)
(* social pipelines save to the same blob meanwhile.                       *)
(*                                                                         *)
(* A backfill reads the feeds since a date of its own, leaves the watermark*)
(* alone, and then walks the sitemaps of the feeds' domains; a checkpoint  *)
(* in the data lake keeps the domains done.                                *)
(*                                                                         *)
(* An entry is in its feed, and in its sitemap, from the moment it is      *)
(* published: sites that list an entry later than its date says are outside*)
(* the model.  A feed stands for its domain.                               *)
(***************************************************************************)
EXTENDS Watermarks, SitemapWalk, FiniteSets

CONSTANTS
  Feeds, Entries,
  FeedOf,           \* the feed of each entry
  DocumentOf,       \* the sitemap document that lists it
  ShapeOf,          \* what _is_article_url looks at in its URL
  WordsOf,          \* what title and description say
  Undated,          \* entries without a date
  Focused,          \* feeds with is_rn_focused
  Sections,         \* feeds of a section of a site: not a domain of their own
  RegionNames,      \* cities, mayors and governors of the region
  ShortNames,       \* those of fewer than 4 letters
  Runs,             \* the executions of the RSS pipeline that may overlap
  Backfills,        \* and those with --backfill-since
  BackfillSince,    \* their date
  Rss,              \* their key in the blob
  FirstWatermark,   \* the value under each key at first, NULL before any run
  Lookback,         \* _FIRST_RUN_LOOKBACK_HOURS
  MaxTime           \* bound on the clock

ASSUME RssAssumption ==
  /\ FeedOf \in [Entries -> Feeds] /\ DocumentOf \in [Entries -> Documents]
  /\ Undated \subseteq Entries /\ Focused \cup Sections \subseteq Feeds
  /\ Backfills \cap Savers = {} /\ BackfillSince \in Nat
  /\ Runs = {s \in Savers : KeyOf[s] = Rss}
  /\ Rss \in Keys
  /\ FirstWatermark \in {0, NULL} /\ Lookback \in Nat /\ MaxTime \in Nat

VARIABLES
  now,
  published,  \* when each entry was published, NULL before
  run,        \* the state of each RSS run
  queued,     \* entries in the URL frontier
  checkpoint, \* domains whose sitemaps need no further walk for this date
  missed,     \* history: entries a feed listed when a run could not read it, or
              \* a document that was not read because one was broken, or that a
              \* run had found when it died
  owed        \* history: entries of the backfill's time that were listed by
              \* the domains in checkpoint when they were walked

vars == <<blob, copy, now, published, run, queued, checkpoint, missed, owed>>

Executions == Runs \cup Backfills

Idle == [stage |-> "idle", started |-> 0, since |-> 0, todo |-> {}, found |-> {},
         walked |-> {}, listed |-> {}]

Listed(f) == {e \in Entries : FeedOf[e] = f /\ published[e] # NULL}

Become(w, stage) == run' = [run EXCEPT ![w].stage = stage]

-----------------------------------------------------------------------------
Publish(e) ==
  /\ published[e] = NULL
  /\ published' = [published EXCEPT ![e] = now]
  /\ UNCHANGED <<blob, copy, now, run, queued, checkpoint, missed, owed>>

Tick ==
  /\ now < MaxTime
  /\ now' = now + 1
  /\ UNCHANGED <<blob, copy, published, run, queued, checkpoint, missed, owed>>

\* The watermark, or the first run's look-back; a backfill has a date.
Since(w, started) ==
  IF w \in Backfills THEN BackfillSince
  ELSE IF Watermark(Rss) # NULL THEN Watermark(Rss) ELSE started - Lookback

Begin(w) ==
  /\ run[w].stage = "idle"
  /\ run' = [run EXCEPT ![w] =
       [Idle EXCEPT !.stage = "fetch", !.started = IF w \in Backfills THEN 0 ELSE now,
                    !.since = Since(w, now), !.todo = Feeds]]
  /\ UNCHANGED <<blob, copy, now, published, queued, checkpoint, missed, owed>>

Fresh(e, since) == published[e] >= since

\* rn_filter.matches: "RN", or a name of the region that is long enough.
Matches(e) ==
  "RN" \in WordsOf[e] \/ (RegionNames \ ShortNames) \cap WordsOf[e] # {}

\* What a feed is read for.
Wanted(e) == (FeedOf[e] \in Focused \/ Matches(e)) /\ e \notin Undated

Fetch(w, f) ==
  /\ run[w].stage = "fetch" /\ f \in run[w].todo
  /\ run' = [run EXCEPT
       ![w].todo = @ \ {f},
       ![w].found = @ \cup {e \in Listed(f) : Wanted(e) /\ Fresh(e, run[w].since)}]
  /\ UNCHANGED <<blob, copy, now, published, queued, checkpoint, missed, owed>>

\* Three attempts failed, or the answer did not parse: the feed is skipped
\* and the run goes on.
SkipFeed(w, f) ==
  /\ run[w].stage = "fetch" /\ f \in run[w].todo
  /\ run' = [run EXCEPT ![w].todo = @ \ {f}]
  /\ missed' = missed \cup Listed(f)
  /\ UNCHANGED <<blob, copy, now, published, queued, checkpoint, owed>>

\* One that cannot be read counts as empty.
CheckpointRead == {checkpoint, {}}

Unwalked(done) == Feeds \ (Sections \cup done)

Enqueue(w) ==
  /\ run[w].stage = "fetch" /\ run[w].todo = {}
  /\ queued' = queued \cup run[w].found
  /\ \E done \in CheckpointRead :
       run' = [run EXCEPT ![w] =
         CASE w \notin Backfills -> [@ EXCEPT !.stage = "work", !.found = {}, !.since = 0]
           [] w \in Backfills /\ Unwalked(done) = {} -> Idle
           [] w \in Backfills /\ Unwalked(done) # {} ->
                [@ EXCEPT !.stage = "sitemaps", !.todo = Unwalked(done),
                          !.found = {}, !.walked = done]]
  /\ UNCHANGED <<blob, copy, now, published, checkpoint, missed, owed>>

-----------------------------------------------------------------------------
\* An index dates a document of articles by its newest one, others not at all.
Old(f, since) == {d \in {DocumentOf[e] : e \in Listed(f)} :
                    \A e \in Listed(f) : DocumentOf[e] = d => published[e] < since}

\* Dates are compared as days; without one an URL is taken.
Recent(e, since) == e \in Undated \/ published[e] >= since

\* What the domain's sitemaps have for a backfill.
Due(f, since) == {e \in Listed(f) : IsArticleUrl(ShapeOf[e]) /\ Recent(e, since)}

\* Whatever could not be read, the domain counts as walked.
Walk(w, f) ==
  /\ run[w].stage = "sitemaps" /\ f \in run[w].todo
  /\ \E broken \in SUBSET Documents :
     \E read \in {[b \in {{}, broken} |-> DocumentsRead(b, Old(f, run[w].since))]},
        due \in {Due(f, run[w].since)} :
       /\ run' = [run EXCEPT
            ![w] = [run[w] EXCEPT !.todo = @ \ {f}, !.walked = @ \cup {f},
                      !.found = @ \cup {e \in due : DocumentOf[e] \in read[broken]},
                      !.listed = @ \cup {e \in due : Fresh(e, run[w].since)}]]
       /\ missed' = missed \cup {e \in Listed(f) : DocumentOf[e] \in read[{}] \ read[broken]}
  /\ UNCHANGED <<blob, copy, now, published, queued, checkpoint, owed>>

\* The whole checkpoint is written, as it was when it was read and what this
\* backfill has walked; a failure is only logged.
SaveCheckpoint(w) ==
  /\ run[w].stage = "sitemaps" /\ run[w].todo = {}
  /\ \/ checkpoint' = run[w].walked /\ owed' = owed \cup run[w].listed
     \/ UNCHANGED <<checkpoint, owed>>
  /\ Become(w, "add")
  /\ UNCHANGED <<blob, copy, now, published, queued, missed>>

\* The local file of processed URLs takes out none that was not queued before.
\* The rest of a backfill does not concern discovery.
AddSitemapUrls(w) ==
  /\ run[w].stage = "add"
  /\ queued' = queued \cup run[w].found
  /\ run' = [run EXCEPT ![w] = Idle]
  /\ UNCHANGED <<blob, copy, now, published, checkpoint, missed, owed>>

-----------------------------------------------------------------------------
\* The rest of the run ends in a save exactly if it succeeded with no failed
\* load (RssPipeline says when).
WentWell(w) ==
  /\ run[w].stage = "work"
  /\ \/ ReadAll(w) /\ Become(w, "save")
     \/ ReadFails(w) /\ run' = [run EXCEPT ![w] = Idle]
  /\ UNCHANGED <<blob, now, published, queued, checkpoint, missed, owed>>

FinishTime(w) == now
OverlappingTime(w) == run[w].started - Lookback
SavedTime(w) == run[w].started

Save(w) ==
  /\ run[w].stage = "save"
  /\ WriteAll(w, SavedTime(w)) \/ WriteFails(w)
  /\ run' = [run EXCEPT ![w] = Idle]
  /\ UNCHANGED <<now, published, queued, checkpoint, missed, owed>>

\* Killed, raised, or ended without success.  A checkpoint saved by then
\* stands, although its URLs are not in the frontier.
Abort(w) ==
  /\ run[w].stage # "idle"
  /\ run' = [run EXCEPT ![w] = Idle]
  /\ copy' = IF w \in Runs THEN [copy EXCEPT ![w] = NotSaving] ELSE copy
  /\ missed' = IF run[w].stage = "add" THEN missed \cup run[w].found ELSE missed
  /\ UNCHANGED <<blob, now, published, queued, checkpoint, owed>>

\* The other pipelines save their own start times, none before now.
OtherRead(s) ==
  /\ ~ copy[s].saving
  /\ ReadAll(s)
  /\ UNCHANGED <<blob, now, published, run, queued, checkpoint, missed, owed>>

OtherWrite(s) ==
  /\ WriteAll(s, 0) \/ WriteFails(s)
  /\ UNCHANGED <<now, published, run, queued, checkpoint, missed, owed>>

Init ==
  /\ blob = [k \in Keys |-> FirstWatermark]
  /\ copy = [s \in Savers |-> NotSaving]
  /\ now = 0
  /\ published = [e \in Entries |-> NULL]
  /\ run = [w \in Executions |-> Idle]
  /\ queued = {}
  /\ checkpoint = {}
  /\ missed = {}
  /\ owed = {}

Next ==
  \/ Tick
  \/ \E e \in Entries : Publish(e)
  \/ \E w \in Executions :
       \/ Begin(w) \/ Enqueue(w) \/ Abort(w)
       \/ \E f \in Feeds : Fetch(w, f) \/ SkipFeed(w, f)
  \/ \E w \in Backfills :
       \/ SaveCheckpoint(w) \/ AddSitemapUrls(w)
       \/ \E f \in Feeds : Walk(w, f)
  \/ \E w \in Runs : WentWell(w) \/ Save(w)
  \/ \E s \in Savers \ Runs : OtherRead(s) \/ OtherWrite(s)

Spec == Init /\ [][Next]_vars

TypeOK ==
  /\ WatermarksTypeOK
  /\ now \in Nat
  /\ published \in [Entries -> Nat \cup {NULL}]
  /\ run \in [Executions ->
       [stage : {"idle", "fetch", "sitemaps", "add", "work", "save"}, started : Nat,
        since : Int, todo : SUBSET Feeds, found : SUBSET Entries,
        walked : SUBSET Feeds, listed : SUBSET Entries]]
  /\ checkpoint \subseteq Feeds
  /\ queued \cup missed \cup owed \subseteq Entries

-----------------------------------------------------------------------------
Covered(e) ==
  /\ Wanted(e) /\ published[e] # NULL /\ Watermark(Rss) # NULL
  /\ published[e] < Watermark(Rss)

InHand(e) == \E w \in Backfills : run[w].stage = "add" /\ e \in run[w].found

(* What discovery takes for done is in the frontier.  Every entry published*)
(* before the watermark is, unless its feed could not be read, although    *)
(* entries appear while a run fetches, overlapping runs save out of order, *)
(* runs die before they enqueue, and the other pipelines' saves can undo   *)
(* this one's (they put an older value back).  And so is everything of the *)
(* backfill's time that the sitemaps of a domain listed when a backfill    *)
(* walked it and checkpointed the domain, or it is about to be, unless a   *)
(* document could not be read or the backfill died between its checkpoint  *)
(* and add_urls.                                                           *)
NoDiscoveryGap ==
  \A e \in Entries :
    /\ Covered(e) => e \in queued \cup missed
    /\ e \in owed => e \in queued \cup missed \/ InHand(e)
=============================================================================
