------------------------- MODULE RssDiscovery_proof -------------------------
(***************************************************************************)
(* Proofs about RssDiscovery: what discovery takes for done is in the      *)
(* frontier, for any number of runs, backfills, pipelines and feeds.       *)
(***************************************************************************)
EXTENDS RssDiscovery, TLAPS

(* There is a watermark, or the look-back of a run without one goes back to*)
(* the first entry.                                                        *)
FirstRunsReach == FirstWatermark = NULL => MaxTime <= Lookback

(* The sitemaps lead to each document that lists entries and is not old.   *)
Listing == {DocumentOf[e] : e \in Entries}
SitemapsReach ==
  \A old \in SUBSET Listing : Listing \ old \subseteq DocumentsRead({}, old)

(* Every entry to read a feed for that was published before t is done with,*)
(* if first runs reach back.                                               *)
Done(e) == e \in queued \cup missed
Reached(t) ==
  FirstRunsReach =>
    /\ t <= now
    /\ \A e \in Entries : Wanted(e) /\ published[e] # NULL /\ published[e] < t => Done(e)

(* No watermark in the blob, or on its way to it, goes beyond what is done *)
(* with; and there is one, if there was one at first.                      *)
MarkFine(document) ==
  IF document[Rss] = NULL THEN FirstWatermark = NULL ELSE Reached(document[Rss])
MarksFine ==
  /\ WatermarksTypeOK
  /\ MarkFine(blob)
  /\ \A s \in Savers : copy[s].saving => MarkFine(copy[s].document)

(* A run that fetches has, or has still to fetch, what its save will pass; *)
(* later that is done with.                                                *)
Fetching(s) ==
  FirstRunsReach =>
    /\ s.started <= now
    /\ \A e \in Entries : Wanted(e) /\ published[e] # NULL /\ published[e] < s.started =>
         Done(e) \/ e \in s.found \/ (FeedOf[e] \in s.todo /\ published[e] >= s.since)
RunReaches(s) ==
  /\ s.stage \in {"idle", "fetch", "work", "save"}
  /\ s.stage = "fetch" => Fetching(s)
  /\ s.stage \in {"work", "save"} => Reached(s.started)

(* If the sitemaps reach what they list: a backfill has found what it will *)
(* owe, and what is owed is done with, or in the hands of the backfill that*)
(* walked its domain.                                                      *)
BackfillFinds(s) ==
  /\ s.stage \in {"idle", "fetch", "sitemaps", "add"}
  /\ s.stage = "fetch" => s.listed = {}
  /\ SitemapsReach /\ s.stage = "sitemaps" => \A e \in s.listed : Done(e) \/ e \in s.found
OwedFine == SitemapsReach => \A e \in owed : Done(e) \/ InHand(e)

Clock ==
  /\ now <= MaxTime
  /\ \A e \in Entries : published[e] # NULL => published[e] <= now

DiscoveryInv ==
  /\ TypeOK /\ Clock
  /\ MarksFine
  /\ \A w \in Runs : RunReaches(run[w])
  /\ \A w \in Backfills : BackfillFinds(run[w])
  /\ OwedFine

-----------------------------------------------------------------------------
RunState ==
  [stage : {"idle", "fetch", "sitemaps", "add", "work", "save"}, started : Nat,
   since : Int, todo : SUBSET Feeds, found : SUBSET Entries,
   walked : SUBSET Feeds, listed : SUBSET Entries]

LEMMA Types ==
  ASSUME DiscoveryInv
  PROVE  /\ now \in Nat /\ published \in [Entries -> Nat \cup {NULL}] /\ NULL \notin Int
         /\ run \in [Executions -> RunState]
         /\ blob \in Document /\ copy \in [Savers -> [saving : BOOLEAN, document : Document]]
         /\ Rss \in Keys /\ Runs \subseteq Savers /\ Runs \cap Backfills = {}
         /\ MaxTime \in Nat /\ Lookback \in Nat /\ BackfillSince \in Nat
         /\ queued \subseteq Entries /\ missed \subseteq Entries /\ owed \subseteq Entries
         /\ checkpoint \subseteq Feeds /\ Executions = Runs \cup Backfills
<1> QED BY RssAssumption, NullAssumption
        DEF DiscoveryInv, TypeOK, WatermarksTypeOK, RunState, Executions

(* Entries appear, and more of them are done with.                         *)
Growth ==
  /\ now <= now' /\ now' \in Nat
  /\ \A e \in Entries : \/ published'[e] = published[e]
                        \/ published[e] = NULL /\ published'[e] = now
  /\ queued \subseteq queued' /\ missed \subseteq missed'

LEMMA Grows ==
  ASSUME DiscoveryInv, Growth
  PROVE  /\ \A e \in Entries : Done(e) => Done(e)'
         /\ \A t \in Nat : Reached(t) => Reached(t)'
         /\ \A d \in Document : MarkFine(d) => MarkFine(d)'
         /\ \A s \in RunState : RunReaches(s) => RunReaches(s)'
         /\ \A s \in RunState : BackfillFinds(s) => BackfillFinds(s)'
<1>1. \A e \in Entries : Done(e) => Done(e)'
  BY DEF Done, Growth
<1>2. /\ now \in Nat /\ now' \in Nat /\ now <= now' /\ NULL \notin Int
      /\ \A e \in Entries : published[e] \in Nat \cup {NULL}
  BY Types DEF Growth
<1>3. ASSUME NEW t \in Nat, Reached(t) PROVE Reached(t)'
  <2> SUFFICES ASSUME FirstRunsReach PROVE Reached(t)'
    BY DEF Reached
  <2>1. t <= now'
    BY <1>2, <1>3 DEF Reached
  <2>2. ASSUME NEW e \in Entries, Wanted(e), published'[e] # NULL, published'[e] < t
        PROVE  Done(e)'
    <3>1. published'[e] = published[e]
      BY <1>2, <1>3, <2>2 DEF Growth, Reached
    <3> QED BY <1>1, <1>3, <2>2, <3>1 DEF Reached
  <2> QED BY <2>1, <2>2 DEF Reached, Wanted, Matches
<1>4. ASSUME NEW d \in Document, MarkFine(d) PROVE MarkFine(d)'
  <2>1. d[Rss] = NULL \/ d[Rss] \in Nat
    BY Types DEF Document
  <2> QED BY <1>3, <1>4, <2>1 DEF MarkFine
<1>5. ASSUME NEW s \in RunState, RunReaches(s) PROVE RunReaches(s)'
  <2>1. s.started \in Nat
    BY DEF RunState
  <2>2. ASSUME FirstRunsReach, Fetching(s) PROVE Fetching(s)'
    <3>1. ASSUME NEW e \in Entries, Wanted(e), published'[e] # NULL, published'[e] < s.started
          PROVE  Done(e)' \/ e \in s.found \/ (FeedOf[e] \in s.todo /\ published'[e] >= s.since)
      <4>1. published'[e] = published[e]
        BY <1>2, <2>1, <2>2, <3>1 DEF Growth, Fetching
      <4> QED BY <1>1, <2>2, <3>1, <4>1 DEF Fetching
    <3>2. s.started <= now'
      BY <1>2, <2>1, <2>2 DEF Fetching
    <3> QED BY <3>1, <3>2 DEF Fetching, Wanted, Matches
  <2>3. Reached(s.started) => Reached(s.started)'
    BY <1>3, <2>1
  <2>4. ~ FirstRunsReach => Fetching(s)'
    BY DEF Fetching
  <2> QED BY <1>5, <2>2, <2>3, <2>4 DEF RunReaches
<1>6. ASSUME NEW s \in RunState, BackfillFinds(s) PROVE BackfillFinds(s)'
  <2>1. s.listed \subseteq Entries
    BY DEF RunState
  <2> QED BY <1>1, <1>6, <2>1 DEF BackfillFinds
<1> QED BY <1>1, <1>3, <1>4, <1>5, <1>6

(* Whoever reads the blob, gives up, or dies, the watermarks stay fine.    *)
LEMMA MarksKept ==
  ASSUME DiscoveryInv, Growth, UNCHANGED blob,
         \/ UNCHANGED copy
         \/ \E s \in Savers : copy' \in {[copy EXCEPT ![s] = NotSaving],
                                       [copy EXCEPT ![s] = Saving(blob)]}
  PROVE  MarksFine'
<1>1. /\ blob \in Document /\ copy \in [Savers -> [saving : BOOLEAN, document : Document]]
      /\ MarkFine(blob) /\ \A x \in Savers : copy[x].saving => MarkFine(copy[x].document)
  BY Types DEF DiscoveryInv, MarksFine
<1>2. MarkFine(blob)'
  <2>1. PICK d \in Document : d = blob
    BY <1>1
  <2>2. MarkFine(d)'
    BY <1>1, <2>1, Grows
  <2>3. d = blob'
    BY <2>1
  <2> QED BY <2>2, <2>3 DEF MarkFine, Reached
<1>3. /\ NotSaving \in [saving : BOOLEAN, document : Document] /\ ~ NotSaving.saving
      /\ Saving(blob) \in [saving : BOOLEAN, document : Document] /\ Saving(blob).document = blob
  BY <1>1 DEF NotSaving, Saving, Document
<1>4. copy' \in [Savers -> [saving : BOOLEAN, document : Document]]
  BY <1>1, <1>3
<1>5. ASSUME NEW x \in Savers, copy'[x].saving PROVE MarkFine(copy[x].document)'
  <2>1. copy'[x].document \in {blob, copy[x].document} /\ MarkFine(blob)
        /\ (copy'[x].document = blob \/ copy[x].saving)
    BY <1>1, <1>3, <1>5
  <2>2. PICK d \in Document : d = copy'[x].document
    BY <1>4
  <2>3. MarkFine(d)
    BY <1>1, <2>1, <2>2
  <2>4. MarkFine(d)'
    BY <2>3, Grows
  <2> QED BY <2>2, <2>4 DEF MarkFine, Reached
<1> QED BY <1>1, <1>2, <1>4, <1>5 DEF MarksFine, WatermarksTypeOK

(* A write of a watermark that is reached, or of another key's.            *)
LEMMA WriteKept ==
  ASSUME DiscoveryInv, Growth, NEW s \in Savers, NEW t \in Nat, WriteAll(s, t),
         KeyOf[s] = Rss => Reached(t)
  PROVE  MarksFine'
<1>1. /\ blob' = [copy[s].document EXCEPT ![KeyOf[s]] = t] /\ copy[s].saving
      /\ copy' = [copy EXCEPT ![s] = NotSaving]
      /\ copy \in [Savers -> [saving : BOOLEAN, document : Document]]
      /\ \A x \in Savers : copy[x].saving => MarkFine(copy[x].document)
      /\ NULL \notin Int /\ Rss \in Keys
  BY Types DEF WriteAll, Written, DiscoveryInv, MarksFine
<1>2. /\ blob' \in Document /\ (KeyOf[s] # Rss => blob'[Rss] = copy[s].document[Rss])
      /\ (KeyOf[s] = Rss => blob'[Rss] = t)
  BY <1>1, SaverAssumption DEF Document
<1>3. NotSaving \in [saving : BOOLEAN, document : Document] /\ ~ NotSaving.saving
  BY DEF NotSaving, Document
<1>4. copy' \in [Savers -> [saving : BOOLEAN, document : Document]]
  BY <1>1, <1>3
<1>5. MarkFine(blob)'
  <2>1. PICK d \in Document : d = blob'
    BY <1>2
  <2>2. MarkFine(d)
    BY <1>1, <1>2, <2>1 DEF MarkFine
  <2>3. MarkFine(d)'
    BY <2>2, Grows
  <2> QED BY <2>1, <2>3 DEF MarkFine, Reached
<1>6. ASSUME NEW x \in Savers, copy'[x].saving PROVE MarkFine(copy[x].document)'
  <2>1. copy'[x] = copy[x] /\ copy[x].saving
    BY <1>1, <1>3, <1>6
  <2>2. PICK d \in Document : d = copy[x].document
    BY <1>1
  <2>3. MarkFine(d)'
    BY <1>1, <2>1, <2>2, Grows
  <2> QED BY <2>1, <2>2, <2>3 DEF MarkFine, Reached
<1> QED BY <1>2, <1>4, <1>5, <1>6 DEF MarksFine, WatermarksTypeOK

-----------------------------------------------------------------------------
(* Records with one field set are records.                                 *)
LEMMA FieldSet ==
  ASSUME NEW s \in RunState
  PROVE  /\ \A v \in {"idle", "fetch", "sitemaps", "add", "work", "save"} :
              [s EXCEPT !.stage = v] \in RunState
         /\ \A v \in Nat : [s EXCEPT !.started = v] \in RunState
         /\ \A v \in Int : [s EXCEPT !.since = v] \in RunState
         /\ \A v \in SUBSET Feeds : [s EXCEPT !.todo = v] \in RunState
         /\ \A v \in SUBSET Entries : [s EXCEPT !.found = v] \in RunState
         /\ \A v \in SUBSET Feeds : [s EXCEPT !.walked = v] \in RunState
         /\ \A v \in SUBSET Entries : [s EXCEPT !.listed = v] \in RunState
<1> QED BY DEF RunState

LEMMA IdleState ==
  Idle \in RunState /\ Idle.stage = "idle" /\ RunReaches(Idle) /\ BackfillFinds(Idle)
<1> QED BY DEF Idle, RunState, RunReaches, BackfillFinds

LEMMA StateOf ==
  ASSUME DiscoveryInv, NEW w \in Executions
  PROVE  /\ run[w] \in RunState
         /\ run[w].started \in Nat /\ run[w].since \in Int /\ run[w].todo \subseteq Feeds
         /\ run[w].found \subseteq Entries /\ run[w].walked \subseteq Feeds
         /\ run[w].listed \subseteq Entries
         /\ w \in Runs => RunReaches(run[w]) /\ w \notin Backfills
         /\ w \in Backfills => BackfillFinds(run[w]) /\ w \notin Runs
         /\ w \in Runs \/ w \in Backfills
<1>1. run[w] \in RunState
  BY Types
<1> QED BY <1>1, Types DEF RunState, DiscoveryInv

(* What is owed stays done with or in hand, whatever a run does that is not*)
(* about to add its URLs.                                                  *)
LEMMA OwedStay ==
  ASSUME DiscoveryInv, Growth, NEW w \in Executions, NEW s \in RunState,
         run' = [run EXCEPT ![w] = s],
         run[w].stage = "add" => \A e \in run[w].found : Done(e)'
  PROVE  SitemapsReach => \A e \in owed : Done(e)' \/ InHand(e)'
<1> SUFFICES ASSUME SitemapsReach PROVE \A e \in owed : Done(e)' \/ InHand(e)'
  OBVIOUS
<1>1. /\ run \in [Executions -> RunState] /\ Backfills \subseteq Executions
      /\ owed \subseteq Entries /\ \A e \in Entries : Done(e) => Done(e)'
  BY Types, Grows
<1>2. ASSUME NEW e \in owed PROVE Done(e)' \/ InHand(e)'
  <2>1. CASE Done(e)
    BY <1>1, <1>2, <2>1
  <2>2. CASE InHand(e)
    <3>1. PICK x \in Backfills : run[x].stage = "add" /\ e \in run[x].found
      BY <2>2 DEF InHand
    <3>2. CASE x = w
      BY <3>1, <3>2
    <3>3. CASE x # w
      <4>1. run'[x] = run[x]
        BY <1>1, <3>3
      <4> QED BY <3>1, <4>1 DEF InHand
    <3> QED BY <3>2, <3>3
  <2> QED BY <1>2, <2>1, <2>2 DEF DiscoveryInv, OwedFine
<1> QED BY <1>2

LEMMA OwedKept ==
  ASSUME DiscoveryInv, Growth, UNCHANGED owed, NEW w \in Executions, NEW s \in RunState,
         run' = [run EXCEPT ![w] = s],
         run[w].stage = "add" => \A e \in run[w].found : Done(e)'
  PROVE  OwedFine'
<1> QED BY OwedStay DEF OwedFine

(* A step of one execution keeps the invariant if what it leaves behind of *)
(* that execution, of the watermarks and of what is owed is fine.          *)
LEMMA RunStep ==
  ASSUME DiscoveryInv, Growth, UNCHANGED <<now, published>>,
         NEW w \in Executions, NEW s \in RunState, run' = [run EXCEPT ![w] = s],
         w \in Runs => RunReaches(s)', w \in Backfills => BackfillFinds(s)',
         MarksFine', OwedFine', queued' \subseteq Entries, missed' \subseteq Entries,
         owed' \subseteq Entries, checkpoint' \subseteq Feeds
  PROVE  DiscoveryInv'
<1>1. /\ run \in [Executions -> RunState] /\ run' \in [Executions -> RunState] /\ run'[w] = s
      /\ \A x \in Executions \ {w} : run'[x] = run[x]
      /\ now \in Nat /\ published \in [Entries -> Nat \cup {NULL}]
  BY Types
<1>2. TypeOK'
  BY <1>1 DEF TypeOK, MarksFine, RunState, Growth
<1>3. ASSUME NEW x \in Executions, x # w
      PROVE  (x \in Runs => RunReaches(run[x])') /\ (x \in Backfills => BackfillFinds(run[x])')
  <2>1. PICK q \in RunState : q = run[x]
    BY <1>1
  <2>2. (x \in Runs => RunReaches(q)') /\ (x \in Backfills => BackfillFinds(q)')
    BY <2>1, StateOf, Grows
  <2>3. run'[x] = q
    BY <1>1, <1>3, <2>1
  <2> QED BY <2>2, <2>3 DEF RunReaches, BackfillFinds, Fetching, Reached
<1>4. (w \in Runs => RunReaches(run[w])') /\ (w \in Backfills => BackfillFinds(run[w])')
  BY <1>1 DEF RunReaches, BackfillFinds, Fetching, Reached
<1>5. Clock'
  BY DEF DiscoveryInv, Clock
<1> QED BY <1>2, <1>3, <1>4, <1>5, Types DEF DiscoveryInv

(* Steps in which nobody saves.                                            *)
LEMMA QuietGrowth ==
  ASSUME DiscoveryInv, UNCHANGED <<now, published>>,
         queued \subseteq queued', missed \subseteq missed'
  PROVE  Growth
<1> QED BY Types DEF Growth

-----------------------------------------------------------------------------
LEMMA TickKeeps == ASSUME DiscoveryInv, Tick PROVE DiscoveryInv'
<1>1. /\ now \in Nat /\ MaxTime \in Nat /\ now < MaxTime /\ now' = now + 1
      /\ UNCHANGED <<blob, copy, published, run, queued, checkpoint, missed, owed>>
  BY Types DEF Tick
<1>2. Growth
  BY <1>1 DEF Growth
<1>3. MarksFine'
  BY <1>1, <1>2, MarksKept
<1>4. TypeOK' /\ Clock'
  BY <1>1, <1>3, Types DEF DiscoveryInv, TypeOK, MarksFine, Clock
<1>5. ASSUME NEW x \in Executions
      PROVE  (x \in Runs => RunReaches(run[x])') /\ (x \in Backfills => BackfillFinds(run[x])')
  <2>1. PICK q \in RunState : q = run[x]
    BY StateOf
  <2>2. (x \in Runs => RunReaches(q)') /\ (x \in Backfills => BackfillFinds(q)')
    BY <1>2, <2>1, StateOf, Grows
  <2> QED BY <1>1, <2>1, <2>2 DEF RunReaches, BackfillFinds, Fetching, Reached
<1>6. OwedFine'
  BY <1>1 DEF DiscoveryInv, OwedFine, Done, InHand
<1> QED BY <1>3, <1>4, <1>5, <1>6, Types DEF DiscoveryInv

LEMMA PublishKeeps == ASSUME DiscoveryInv, NEW e \in Entries, Publish(e) PROVE DiscoveryInv'
<1>1. /\ now \in Nat /\ published[e] = NULL /\ published' = [published EXCEPT ![e] = now]
      /\ published \in [Entries -> Nat \cup {NULL}]
      /\ UNCHANGED <<blob, copy, now, run, queued, checkpoint, missed, owed>>
  BY Types DEF Publish
<1>2. Growth
  BY <1>1 DEF Growth
<1>3. MarksFine'
  BY <1>1, <1>2, MarksKept
<1>4. TypeOK' /\ Clock'
  BY <1>1, <1>3, Types DEF DiscoveryInv, TypeOK, MarksFine, Clock
<1>5. ASSUME NEW x \in Executions
      PROVE  (x \in Runs => RunReaches(run[x])') /\ (x \in Backfills => BackfillFinds(run[x])')
  <2>1. PICK q \in RunState : q = run[x]
    BY StateOf
  <2>2. (x \in Runs => RunReaches(q)') /\ (x \in Backfills => BackfillFinds(q)')
    BY <1>2, <2>1, StateOf, Grows
  <2> QED BY <1>1, <2>1, <2>2 DEF RunReaches, BackfillFinds, Fetching, Reached
<1>6. OwedFine'
  BY <1>1 DEF DiscoveryInv, OwedFine, Done, InHand
<1> QED BY <1>3, <1>4, <1>5, <1>6, Types DEF DiscoveryInv

-----------------------------------------------------------------------------
LEMMA BeginKeeps ==
  ASSUME DiscoveryInv, NEW w \in Executions, Begin(w)
  PROVE  DiscoveryInv'
<1> DEFINE started == IF w \in Backfills THEN 0 ELSE now
           s1 == [Idle EXCEPT !.stage = "fetch"]
           s2 == [s1 EXCEPT !.started = started]
           s3 == [s2 EXCEPT !.since = Since(w, now)]
           s == [s3 EXCEPT !.todo = Feeds]
<1>1. /\ run' = [run EXCEPT ![w] = s] /\ run[w].stage = "idle"
      /\ UNCHANGED <<blob, copy, now, published, queued, checkpoint, missed, owed>>
  BY DEF Begin
<1>2. started \in Nat /\ Since(w, now) \in Int
  BY Types DEF Since, Watermark, Document
<1>3. /\ s.stage = "fetch" /\ s.started = started /\ s.since = Since(w, now) /\ s.todo = Feeds
      /\ s.found = {} /\ s.listed = {}
  BY DEF Idle
<1> HIDE DEF started
<1>4. s1 \in RunState
  BY IdleState, FieldSet
<1> HIDE DEF s1
<1>5. s2 \in RunState
  BY <1>2, <1>4, FieldSet
<1> HIDE DEF s2
<1>6. s3 \in RunState
  BY <1>2, <1>5, FieldSet
<1> HIDE DEF s3
<1>7. s \in RunState
  BY <1>6, FieldSet
<1> HIDE DEF s
<1>8. Growth
  BY <1>1, QuietGrowth
<1>9. ASSUME w \in Runs PROVE RunReaches(s)
  <2>1. started = now /\ w \notin Backfills
    BY <1>9, Types DEF started
  <2>2. ASSUME FirstRunsReach, NEW e \in Entries, Wanted(e), published[e] # NULL,
               published[e] < now
        PROVE  Done(e) \/ (FeedOf[e] \in Feeds /\ published[e] >= Since(w, now))
    <3>1. FeedOf[e] \in Feeds /\ published[e] \in Nat
      BY <2>2, RssAssumption, Types
    <3>2. CASE blob[Rss] # NULL
      <4>1. Reached(blob[Rss]) /\ Since(w, now) = blob[Rss] /\ blob[Rss] \in Nat
        BY <2>1, <3>2, Types DEF DiscoveryInv, MarksFine, MarkFine, Since, Watermark, Document
      <4> QED BY <2>2, <3>1, <4>1 DEF Reached
    <3>3. CASE blob[Rss] = NULL
      <4>1. FirstWatermark = NULL /\ Since(w, now) = now - Lookback
        BY <2>1, <3>3 DEF DiscoveryInv, MarksFine, MarkFine, Since, Watermark
      <4>2. now <= Lookback
        BY <2>2, <4>1, Types DEF FirstRunsReach, DiscoveryInv, Clock
      <4> QED BY <3>1, <4>1, <4>2, Types
    <3> QED BY <3>2, <3>3
  <2>3. now <= now
    BY Types
  <2> QED BY <1>3, <2>1, <2>2, <2>3 DEF RunReaches, Fetching
<1>10. BackfillFinds(s)
  BY <1>3 DEF BackfillFinds
<1>11. PICK t \in RunState : t = s
  BY <1>7
<1>12. (w \in Runs => RunReaches(t)') /\ (w \in Backfills => BackfillFinds(t)')
  BY <1>8, <1>9, <1>10, <1>11, Grows
<1>13. MarksFine' /\ OwedFine'
  BY <1>1, <1>7, <1>8, MarksKept, OwedKept
<1> QED BY <1>1, <1>8, <1>11, <1>12, <1>13, Types, RunStep

(* A feed is read, or skipped: then what it lists is missed.               *)
LEMMA FetchKeeps ==
  ASSUME DiscoveryInv, NEW w \in Executions, NEW f \in Feeds, Fetch(w, f)
  PROVE  DiscoveryInv'
<1> DEFINE q == run[w]
           new == {e \in Listed(f) : Wanted(e) /\ Fresh(e, q.since)}
           s1 == [q EXCEPT !.todo = q.todo \ {f}]
           s == [s1 EXCEPT !.found = q.found \cup new]
<1>1. /\ q.stage = "fetch" /\ f \in q.todo
      /\ UNCHANGED <<blob, copy, now, published, queued, checkpoint, missed, owed>>
  BY DEF Fetch
<1>2. q \in RunState /\ new \subseteq Entries /\ q.todo \subseteq Feeds /\ q.found \subseteq Entries
  BY StateOf DEF Listed
<1>3. run' = [run EXCEPT ![w] = s]
  BY <1>2 DEF Fetch, RunState
<1>4. /\ s.stage = "fetch" /\ s.started = q.started /\ s.since = q.since
      /\ s.todo = q.todo \ {f} /\ s.found = q.found \cup new /\ s.listed = q.listed
  BY <1>1, <1>2 DEF RunState
<1>5. \A e \in Entries : Wanted(e) /\ published[e] # NULL /\ FeedOf[e] = f /\ published[e] >= q.since
        => e \in new
  BY DEF Listed, Fresh
<1> HIDE DEF new
<1>6. s1 \in RunState
  BY <1>2, FieldSet
<1> HIDE DEF s1
<1>7. s \in RunState
  BY <1>2, <1>6, FieldSet
<1> HIDE DEF s
<1>8. Growth
  BY <1>1, QuietGrowth
<1>9. (w \in Runs => RunReaches(s)) /\ (w \in Backfills => BackfillFinds(s))
  BY <1>1, <1>4, <1>5, StateOf DEF RunReaches, BackfillFinds, Fetching
<1>10. PICK t \in RunState : t = s
  BY <1>7
<1>11. (w \in Runs => RunReaches(t)') /\ (w \in Backfills => BackfillFinds(t)')
  BY <1>8, <1>9, <1>10, Grows
<1>12. MarksFine' /\ OwedFine'
  BY <1>1, <1>3, <1>7, <1>8, MarksKept, OwedKept
<1> QED BY <1>1, <1>3, <1>8, <1>10, <1>11, <1>12, Types, RunStep

LEMMA SkipFeedKeeps ==
  ASSUME DiscoveryInv, NEW w \in Executions, NEW f \in Feeds, SkipFeed(w, f)
  PROVE  DiscoveryInv'
<1> DEFINE q == run[w]
           s == [q EXCEPT !.todo = q.todo \ {f}]
<1>1. /\ q.stage = "fetch" /\ missed' = missed \cup Listed(f)
      /\ UNCHANGED <<blob, copy, now, published, queued, checkpoint, owed>>
  BY DEF SkipFeed
<1>2. q \in RunState /\ Listed(f) \subseteq Entries /\ q.todo \subseteq Feeds
  BY StateOf DEF Listed
<1>3. run' = [run EXCEPT ![w] = s]
  BY <1>2 DEF SkipFeed, RunState
<1>4. /\ s.stage = "fetch" /\ s.started = q.started /\ s.since = q.since
      /\ s.todo = q.todo \ {f} /\ s.found = q.found /\ s.listed = q.listed
  BY <1>1, <1>2 DEF RunState
<1>5. s \in RunState
  BY <1>2, FieldSet
<1> HIDE DEF s
<1>6. PICK t \in RunState : t = s
  BY <1>5
<1>7. Growth
  BY <1>1, QuietGrowth
<1>8. w \in Runs => RunReaches(t)'
  <2>1. SUFFICES ASSUME w \in Runs, FirstRunsReach PROVE Fetching(t)'
    BY <1>4, <1>6 DEF RunReaches, Fetching
  <2>2. Fetching(q)
    BY <1>1, <2>1, StateOf DEF RunReaches
  <2>3. ASSUME NEW e \in Entries, Wanted(e), published[e] # NULL, published[e] < t.started
        PROVE  Done(e)' \/ e \in t.found \/ (FeedOf[e] \in t.todo /\ published[e] >= t.since)
    <3>1. Done(e) => Done(e)'
      BY <1>7, Grows
    <3>2. FeedOf[e] = f => Done(e)'
      BY <1>1, <2>3 DEF Listed, Done
    <3> QED BY <1>4, <1>6, <2>1, <2>2, <2>3, <3>1, <3>2 DEF Fetching
  <2> QED BY <1>1, <1>4, <1>6, <2>2, <2>3 DEF Fetching, Wanted, Matches
<1>9. w \in Backfills => BackfillFinds(t)'
  BY <1>1, <1>4, <1>6, StateOf DEF BackfillFinds
<1>10. MarksFine' /\ OwedFine'
  BY <1>1, <1>3, <1>5, <1>7, MarksKept, OwedKept
<1>11. missed' \subseteq Entries /\ run' = [run EXCEPT ![w] = t]
  BY <1>1, <1>2, <1>3, <1>6, Types
<1> QED BY <1>1, <1>7, <1>8, <1>9, <1>10, <1>11, Types, RunStep

(* The record that Enqueue leaves of a run, and of a backfill that goes on. *)
LEMMA EnqueuedState ==
  ASSUME NEW s \in RunState, NEW T \in SUBSET Feeds, NEW D \in SUBSET Feeds
  PROVE  /\ [s EXCEPT !.stage = "work", !.found = {}, !.since = 0] \in RunState
         /\ [s EXCEPT !.stage = "sitemaps", !.todo = T, !.found = {}, !.walked = D] \in RunState
<1> DEFINE a1 == [s EXCEPT !.stage = "work"]
           a2 == [a1 EXCEPT !.found = {}]
           b1 == [s EXCEPT !.stage = "sitemaps"]
           b2 == [b1 EXCEPT !.todo = T]
           b3 == [b2 EXCEPT !.found = {}]
<1>1. a1 \in RunState /\ b1 \in RunState
  BY FieldSet
<1> HIDE DEF a1, b1
<1>2. a2 \in RunState /\ b2 \in RunState
  BY <1>1, FieldSet
<1> HIDE DEF a2, b2
<1>3. [a2 EXCEPT !.since = 0] \in RunState
  <2>1. 0 \in Int /\ a2 \in RunState
    BY <1>2
  <2> QED BY ONLY <2>1, FieldSet
<1>4. b3 \in RunState
  BY <1>2, FieldSet
<1> HIDE DEF b3
<1>5. [b3 EXCEPT !.walked = D] \in RunState
  BY <1>4, FieldSet
<1>6. [s EXCEPT !.stage = "work", !.found = {}, !.since = 0] = [a2 EXCEPT !.since = 0]
  BY DEF a1, a2
<1>7. [s EXCEPT !.stage = "sitemaps", !.todo = T, !.found = {}, !.walked = D]
        = [b3 EXCEPT !.walked = D]
  BY DEF b1, b2, b3
<1> QED BY <1>3, <1>5, <1>6, <1>7

LEMMA EnqueueKeeps ==
  ASSUME DiscoveryInv, NEW w \in Executions, Enqueue(w)
  PROVE  DiscoveryInv'
<1> DEFINE q == run[w]
<1>1. /\ q.stage = "fetch" /\ q.todo = {} /\ queued' = queued \cup q.found
      /\ UNCHANGED <<blob, copy, now, published, checkpoint, missed, owed>>
  BY DEF Enqueue
<1>2. q \in RunState /\ q.found \subseteq Entries /\ checkpoint \subseteq Feeds
  BY StateOf, Types
<1>3. Growth
  BY <1>1, QuietGrowth
<1>4. ASSUME NEW s \in RunState, run' = [run EXCEPT ![w] = s],
             (w \in Runs => RunReaches(s)') /\ (w \in Backfills => BackfillFinds(s)')
      PROVE  DiscoveryInv'
  <2>1. MarksFine' /\ OwedFine'
    BY <1>1, <1>3, <1>4, MarksKept, OwedKept
  <2>2. queued' \subseteq Entries
    BY <1>1, <1>2, Types
  <2> QED BY <1>1, <1>3, <1>4, <2>1, <2>2, Types, RunStep
<1>5. PICK done \in CheckpointRead :
        run' = [run EXCEPT ![w] =
          CASE w \notin Backfills -> [q EXCEPT !.stage = "work", !.found = {}, !.since = 0]
            [] w \in Backfills /\ Unwalked(done) = {} -> Idle
            [] w \in Backfills /\ Unwalked(done) # {} ->
                 [q EXCEPT !.stage = "sitemaps", !.todo = Unwalked(done),
                           !.found = {}, !.walked = done]]
  BY <1>2, Types DEF Enqueue
<1>6. CASE w \notin Backfills
  <2> DEFINE s == [q EXCEPT !.stage = "work", !.found = {}, !.since = 0]
  <2>1. run' = [run EXCEPT ![w] = s]
    BY <1>5, <1>6
  <2>2. s \in RunState
    BY <1>2, EnqueuedState
  <2>3. s.stage = "work" /\ s.started = q.started
    BY <1>2 DEF RunState
  <2> HIDE DEF s
  <2>4. PICK t \in RunState : t = s
    BY <2>2
  <2>5. Fetching(q) /\ q.started \in Nat
    BY <1>1, <1>6, StateOf DEF RunReaches
  <2>6. ASSUME FirstRunsReach, NEW e \in Entries, Wanted(e), published[e] # NULL,
               published[e] < t.started
        PROVE  Done(e)'
    BY <1>1, <2>3, <2>4, <2>5, <2>6 DEF Fetching, Done
  <2>7. Reached(t.started)'
    BY <1>1, <2>3, <2>4, <2>5, <2>6 DEF Reached, Fetching, Wanted, Matches
  <2>8. RunReaches(t)'
    BY <2>3, <2>4, <2>7 DEF RunReaches
  <2> QED BY <1>4, <1>6, <2>1, <2>4, <2>8
<1>7. CASE w \in Backfills /\ Unwalked(done) = {}
  <2>1. run' = [run EXCEPT ![w] = Idle]
    BY <1>5, <1>7
  <2>2. RunReaches(Idle)' /\ BackfillFinds(Idle)'
    BY DEF RunReaches, BackfillFinds, Idle
  <2> QED BY <1>4, <2>1, <2>2, IdleState
<1>8. CASE w \in Backfills /\ Unwalked(done) # {}
  <2> DEFINE s == [q EXCEPT !.stage = "sitemaps", !.todo = Unwalked(done),
                           !.found = {}, !.walked = done]
  <2>1. run' = [run EXCEPT ![w] = s]
    BY <1>5, <1>8
  <2>2. done \in SUBSET Feeds /\ Unwalked(done) \in SUBSET Feeds
    BY <1>2 DEF CheckpointRead, Unwalked
  <2>3. s \in RunState
    BY <1>2, <2>2, EnqueuedState
  <2>4. s.stage = "sitemaps" /\ s.listed = q.listed
    BY <1>2 DEF RunState
  <2> HIDE DEF s
  <2>5. PICK t \in RunState : t = s
    BY <2>3
  <2>6. q.listed = {}
    BY <1>1, <1>8, StateOf DEF BackfillFinds
  <2>7. BackfillFinds(t)'
    BY <2>4, <2>5, <2>6 DEF BackfillFinds
  <2>8. w \notin Runs
    BY <1>8, Types
  <2> QED BY <1>4, <2>1, <2>5, <2>7, <2>8
<1> QED BY <1>6, <1>7, <1>8

-----------------------------------------------------------------------------
(* A domain's sitemaps: what is listed of the backfill's time is found, or *)
(* stood in a document that was not read because one was broken.           *)
LEMMA WalkKeeps ==
  ASSUME DiscoveryInv, NEW w \in Backfills, NEW f \in Feeds, Walk(w, f)
  PROVE  DiscoveryInv'
<1> DEFINE q == run[w]
           old == Old(f, q.since)
           due == Due(f, q.since)
<1>1. /\ q.stage = "sitemaps"
      /\ UNCHANGED <<blob, copy, now, published, queued, checkpoint, owed>>
      /\ w \in Executions /\ w \notin Runs
  BY Types DEF Walk
<1>2. PICK broken \in SUBSET Documents :
        \E read \in {[b \in {{}, broken} |-> DocumentsRead(b, Old(f, run[w].since))]},
           d \in {Due(f, run[w].since)} :
          /\ run' = [run EXCEPT
               ![w] = [run[w] EXCEPT !.todo = @ \ {f}, !.walked = @ \cup {f},
                                !.found = @ \cup {e \in d : DocumentOf[e] \in read[broken]},
                                !.listed = @ \cup {e \in d : Fresh(e, run[w].since)}]]
          /\ missed' = missed \cup {e \in Listed(f) : DocumentOf[e] \in read[{}] \ read[broken]}
  BY DEF Walk
<1> DEFINE read == [b \in {{}, broken} |-> DocumentsRead(b, old)]
           have == {e \in due : DocumentOf[e] \in read[broken]}
           owes == {e \in due : Fresh(e, q.since)}
           s1 == [q EXCEPT !.todo = q.todo \ {f}]
           s2 == [s1 EXCEPT !.walked = q.walked \cup {f}]
           s3 == [s2 EXCEPT !.found = q.found \cup have]
           s == [s3 EXCEPT !.listed = q.listed \cup owes]
<1>3. /\ q \in RunState /\ q.todo \subseteq Feeds /\ q.walked \subseteq Feeds
      /\ q.found \subseteq Entries /\ q.listed \subseteq Entries /\ BackfillFinds(q)
      /\ due \subseteq Listed(f) /\ Listed(f) \subseteq Entries
  BY <1>1, StateOf DEF Due, Listed
<1>4. /\ missed' = missed \cup {e \in Listed(f) : DocumentOf[e] \in read[{}] \ read[broken]}
      /\ run' = [run EXCEPT ![w] = s]
      /\ read[{}] = DocumentsRead({}, old)
  <2>1. /\ run' = [run EXCEPT ![w] =
             [run[w] EXCEPT !.todo = @ \ {f}, !.walked = @ \cup {f},
                       !.found = @ \cup have, !.listed = @ \cup owes]]
        /\ missed' = missed \cup {e \in Listed(f) : DocumentOf[e] \in read[{}] \ read[broken]}
    BY <1>2
  <2>2. read[{}] = DocumentsRead({}, old)
    OBVIOUS
  <2> HIDE DEF have, owes, read
  <2>3. [run[w] EXCEPT !.todo = @ \ {f}, !.walked = @ \cup {f},
                       !.found = @ \cup have, !.listed = @ \cup owes] = s
    BY <1>3 DEF RunState
  <2>4. run' = [run EXCEPT ![w] = s]
    BY <2>1, <2>3
  <2> QED BY <2>1, <2>2, <2>4
<1>5. s.stage = "sitemaps" /\ s.found = q.found \cup have /\ s.listed = q.listed \cup owes
  BY <1>1, <1>3 DEF RunState
<1>6. ASSUME SitemapsReach, NEW e \in owes PROVE e \in have \/ e \in missed'
  <2>1. e \in Listed(f) /\ e \in due /\ published[e] >= q.since /\ published[e] \in Nat /\ e \in Entries
    BY <1>3, <1>6, Types DEF Fresh, Listed
  <2>2. DocumentOf[e] \in Listing /\ old \in SUBSET Listing
    BY <2>1 DEF Listing, Old, Listed
  <2>3. q.since \in Int
    BY <1>1, StateOf
  <2>4. DocumentOf[e] \notin old
    BY <2>1, <2>3 DEF Old
  <2>5. DocumentOf[e] \in DocumentsRead({}, old)
    BY <1>6, <2>2, <2>4 DEF SitemapsReach
  <2> QED BY <1>4, <2>1, <2>5
<1>7. have \subseteq Entries /\ owes \subseteq Entries /\ missed' \subseteq Entries
      /\ missed \subseteq missed'
  BY <1>3, <1>4, Types
<1> HIDE DEF have, owes, read
<1>8. s1 \in RunState
  BY <1>3, FieldSet
<1> HIDE DEF s1
<1>9. s2 \in RunState
  BY <1>3, <1>8, FieldSet
<1> HIDE DEF s2
<1>10. s3 \in RunState
  BY <1>3, <1>7, <1>9, FieldSet
<1> HIDE DEF s3
<1>11. s \in RunState
  BY <1>3, <1>7, <1>10, FieldSet
<1> HIDE DEF s
<1>12. PICK t \in RunState : t = s
  BY <1>11
<1>13. Growth
  BY <1>1, <1>7, QuietGrowth
<1>14. BackfillFinds(t)'
  <2>1. ASSUME SitemapsReach, NEW e \in t.listed PROVE Done(e)' \/ e \in t.found
    <3>1. CASE e \in q.listed
      <4>1. Done(e) \/ e \in q.found
        BY <1>1, <1>3, <2>1, <3>1 DEF BackfillFinds
      <4>2. Done(e) => Done(e)'
        BY <1>3, <1>13, <3>1, Grows
      <4> QED BY <1>5, <1>12, <4>1, <4>2
    <3>2. CASE e \in owes
      BY <1>5, <1>6, <1>12, <2>1, <3>2 DEF Done
    <3> QED BY <1>5, <1>12, <2>1, <3>1, <3>2
  <2> QED BY <1>5, <1>12, <2>1 DEF BackfillFinds
<1>15. MarksFine' /\ OwedFine'
  BY <1>1, <1>4, <1>11, <1>13, MarksKept, OwedKept
<1>16. run' = [run EXCEPT ![w] = t]
  BY <1>4, <1>12
<1> QED BY <1>1, <1>7, <1>13, <1>14, <1>15, <1>16, Types, RunStep

(* The checkpoint: the backfill has in hand what it owes from now on.      *)
LEMMA SaveCheckpointKeeps ==
  ASSUME DiscoveryInv, NEW w \in Backfills, SaveCheckpoint(w)
  PROVE  DiscoveryInv'
<1> DEFINE q == run[w]
           s == [q EXCEPT !.stage = "add"]
<1>1. /\ q.stage = "sitemaps" /\ w \in Executions /\ w \notin Runs
      /\ UNCHANGED <<blob, copy, now, published, queued, missed>>
      /\ \/ checkpoint' = q.walked /\ owed' = owed \cup q.listed
         \/ UNCHANGED <<checkpoint, owed>>
  BY Types DEF SaveCheckpoint
<1>2. /\ q \in RunState /\ q.walked \subseteq Feeds /\ q.listed \subseteq Entries /\ BackfillFinds(q)
      /\ run \in [Executions -> RunState]
  BY <1>1, StateOf, Types
<1>3. run' = [run EXCEPT ![w] = s]
  BY <1>1, <1>2 DEF SaveCheckpoint, Become
<1>4. s \in RunState /\ s.stage = "add" /\ s.found = q.found
  <2>1. s \in RunState
    BY <1>2, FieldSet
  <2>2. s.stage = "add" /\ s.found = q.found
    BY <1>2 DEF RunState
  <2> QED BY <2>1, <2>2
<1>5. run'[w] = s
  BY <1>1, <1>2, <1>3
<1>6. Growth
  BY <1>1, QuietGrowth
<1> HIDE DEF s
<1>7. PICK t \in RunState : t = s
  BY <1>4
<1>8. BackfillFinds(t)'
  BY <1>4, <1>7 DEF BackfillFinds
<1>9. SitemapsReach => \A e \in owed : Done(e)' \/ InHand(e)'
  BY <1>1, <1>3, <1>4, <1>6, OwedStay
<1>10. ASSUME SitemapsReach, NEW e \in q.listed PROVE Done(e)' \/ InHand(e)'
  <2>1. Done(e) \/ e \in q.found
    BY <1>1, <1>2, <1>10 DEF BackfillFinds
  <2>2. Done(e) => Done(e)'
    BY <1>2, <1>6, <1>10, Grows
  <2>3. e \in q.found => InHand(e)'
    BY <1>4, <1>5 DEF InHand
  <2> QED BY <2>1, <2>2, <2>3
<1>11. OwedFine'
  BY <1>1, <1>9, <1>10 DEF OwedFine
<1>12. MarksFine'
  BY <1>1, <1>6, MarksKept
<1>13. owed' \subseteq Entries /\ checkpoint' \subseteq Feeds
  BY <1>1, <1>2, Types
<1>14. run' = [run EXCEPT ![w] = t]
  BY <1>3, <1>7
<1> QED BY <1>1, <1>6, <1>8, <1>11, <1>12, <1>13, <1>14, Types, RunStep

LEMMA AddSitemapUrlsKeeps ==
  ASSUME DiscoveryInv, NEW w \in Backfills, AddSitemapUrls(w)
  PROVE  DiscoveryInv'
<1>1. /\ run[w].stage = "add" /\ queued' = queued \cup run[w].found
      /\ run' = [run EXCEPT ![w] = Idle] /\ w \in Executions /\ w \notin Runs
      /\ UNCHANGED <<blob, copy, now, published, checkpoint, missed, owed>>
  BY Types DEF AddSitemapUrls
<1>2. Growth
  BY <1>1, QuietGrowth
<1>3. \A e \in run[w].found : Done(e)'
  BY <1>1 DEF Done
<1>4. BackfillFinds(Idle)'
  BY DEF BackfillFinds, Idle
<1>5. MarksFine' /\ OwedFine'
  BY <1>1, <1>2, <1>3, IdleState, MarksKept, OwedKept
<1>6. queued' \subseteq Entries
  BY <1>1, StateOf, Types
<1> QED BY <1>1, <1>2, <1>4, <1>5, <1>6, IdleState, Types, RunStep

-----------------------------------------------------------------------------
LEMMA WentWellKeeps ==
  ASSUME DiscoveryInv, NEW w \in Runs, WentWell(w)
  PROVE  DiscoveryInv'
<1> DEFINE s == [run[w] EXCEPT !.stage = "save"]
<1>1. /\ run[w].stage = "work" /\ w \in Executions /\ w \in Savers /\ w \notin Backfills
      /\ UNCHANGED <<blob, now, published, queued, checkpoint, missed, owed>>
      /\ run[w] \in RunState /\ RunReaches(run[w])
  BY StateOf, Types DEF WentWell
<1>2. Growth
  BY <1>1, QuietGrowth
<1>3. CASE ReadAll(w) /\ Become(w, "save")
  <2>1. run' = [run EXCEPT ![w] = s]
    BY <1>1, <1>3, Types DEF Become
  <2>2. s \in RunState
    BY <1>1, FieldSet
  <2>3. s.stage = "save" /\ s.started = run[w].started
    BY <1>1 DEF RunState
  <2> HIDE DEF s
  <2>4. PICK t \in RunState : t = s
    BY <2>2
  <2>5. RunReaches(t)
    BY <1>1, <2>3, <2>4 DEF RunReaches
  <2>6. RunReaches(t)'
    BY <1>2, <2>5, Grows
  <2>7. MarksFine'
    BY <1>1, <1>2, <1>3, MarksKept DEF ReadAll
  <2>8. OwedFine'
    BY <1>1, <1>2, <2>1, <2>2, OwedKept
  <2> QED BY <1>1, <1>2, <2>1, <2>4, <2>6, <2>7, <2>8, Types, RunStep
<1>4. CASE ReadFails(w) /\ run' = [run EXCEPT ![w] = Idle]
  <2>1. RunReaches(Idle)'
    BY DEF RunReaches, Idle
  <2>2. MarksFine' /\ OwedFine'
    BY <1>1, <1>2, <1>4, IdleState, MarksKept, OwedKept DEF ReadFails
  <2> QED BY <1>1, <1>2, <1>4, <2>1, <2>2, IdleState, Types, RunStep
<1> QED BY <1>3, <1>4 DEF WentWell

(* A run saves when it started, which is reached by then.                  *)
LEMMA SaveKeeps ==
  ASSUME DiscoveryInv, NEW w \in Runs, Save(w)
  PROVE  DiscoveryInv'
<1>1. /\ run[w].stage = "save" /\ w \in Executions /\ w \in Savers /\ w \notin Backfills
      /\ run' = [run EXCEPT ![w] = Idle]
      /\ UNCHANGED <<now, published, queued, checkpoint, missed, owed>>
      /\ run[w].started \in Nat /\ Reached(run[w].started)
  BY StateOf, Types DEF Save, RunReaches
<1>2. Growth
  BY <1>1, QuietGrowth
<1>3. MarksFine'
  <2>1. CASE WriteAll(w, run[w].started)
    BY <1>1, <1>2, <2>1, WriteKept
  <2>2. CASE WriteFails(w)
    BY <1>1, <1>2, <2>2, MarksKept DEF WriteFails
  <2> QED BY <2>1, <2>2 DEF Save, SavedTime
<1>4. RunReaches(Idle)'
  BY DEF RunReaches, Idle
<1>5. OwedFine'
  BY <1>1, <1>2, IdleState, OwedKept
<1> QED BY <1>1, <1>2, <1>3, <1>4, <1>5, IdleState, Types, RunStep

LEMMA AbortKeeps ==
  ASSUME DiscoveryInv, NEW w \in Executions, Abort(w)
  PROVE  DiscoveryInv'
<1>1. /\ run' = [run EXCEPT ![w] = Idle]
      /\ copy' = IF w \in Runs THEN [copy EXCEPT ![w] = NotSaving] ELSE copy
      /\ missed' = IF run[w].stage = "add" THEN missed \cup run[w].found ELSE missed
      /\ UNCHANGED <<blob, now, published, queued, checkpoint, owed>>
  BY DEF Abort
<1>2. missed' \subseteq Entries /\ missed \subseteq missed'
  BY <1>1, StateOf, Types
<1>3. Growth
  BY <1>1, <1>2, QuietGrowth
<1>4. run[w].stage = "add" => \A e \in run[w].found : Done(e)'
  BY <1>1 DEF Done
<1>5. MarksFine' /\ OwedFine'
  BY <1>1, <1>3, <1>4, IdleState, MarksKept, OwedKept, Types
<1>6. RunReaches(Idle)' /\ BackfillFinds(Idle)'
  BY DEF RunReaches, BackfillFinds, Idle
<1> QED BY <1>1, <1>2, <1>3, <1>5, <1>6, IdleState, Types, RunStep

(* The other pipelines write their own keys.                               *)
LEMMA OtherKeeps ==
  ASSUME DiscoveryInv, NEW s \in Savers \ Runs, OtherRead(s) \/ OtherWrite(s)
  PROVE  DiscoveryInv'
<1>1. UNCHANGED <<now, published, run, queued, checkpoint, missed, owed>> /\ KeyOf[s] # Rss
  BY RssAssumption DEF OtherRead, OtherWrite
<1>2. Growth
  BY <1>1, QuietGrowth
<1>3. MarksFine'
  <2>1. CASE OtherRead(s)
    BY <1>2, <2>1, MarksKept DEF OtherRead, ReadAll
  <2>2. CASE WriteAll(s, 0)
    BY <1>1, <1>2, <2>2, WriteKept
  <2>3. CASE WriteFails(s)
    BY <1>1, <1>2, <2>3, MarksKept DEF WriteFails
  <2> QED BY <2>1, <2>2, <2>3 DEF OtherWrite
<1>4. TypeOK' /\ Clock'
  BY <1>1, <1>3 DEF DiscoveryInv, TypeOK, MarksFine, Clock
<1>5. OwedFine' /\ (\A w \in Runs : RunReaches(run[w])') /\ \A w \in Backfills : BackfillFinds(run[w])'
  BY <1>1 DEF DiscoveryInv, OwedFine, Done, InHand, RunReaches, BackfillFinds, Fetching, Reached
<1> QED BY <1>3, <1>4, <1>5 DEF DiscoveryInv

-----------------------------------------------------------------------------
LEMMA DiscoveryInit == Init => DiscoveryInv
<1> SUFFICES ASSUME Init PROVE DiscoveryInv
  OBVIOUS
<1>1. /\ FirstWatermark \in {0, NULL} /\ MaxTime \in Nat /\ NULL \notin Int /\ Rss \in Keys
      /\ \A w \in Executions : run[w] = Idle
  BY RssAssumption, NullAssumption DEF Init
<1>2. Runs \subseteq Executions /\ Backfills \subseteq Executions
  BY DEF Executions
<1>3. WatermarksTypeOK
  BY <1>1 DEF Init, WatermarksTypeOK, Document, NotSaving
<1>4. run \in [Executions -> RunState]
  BY IdleState DEF Init
<1>5. TypeOK
  BY <1>3, <1>4 DEF Init, TypeOK, RunState
<1>6. Clock
  BY <1>1 DEF Init, Clock
<1>7. MarksFine
  <2>1. blob[Rss] = FirstWatermark
    BY <1>1 DEF Init
  <2>2. \A e \in Entries : published[e] = NULL
    BY DEF Init
  <2>3. MarkFine(blob)
    BY <1>1, <2>1, <2>2 DEF Init, MarkFine, Reached
  <2>4. \A s \in Savers : ~ copy[s].saving
    BY DEF Init, NotSaving
  <2> QED BY <1>3, <2>3, <2>4 DEF MarksFine
<1>8. OwedFine
  BY DEF Init, OwedFine
<1> QED BY <1>1, <1>2, <1>5, <1>6, <1>7, <1>8, IdleState DEF DiscoveryInv

LEMMA DiscoveryStep == DiscoveryInv /\ [Next]_vars => DiscoveryInv'
<1> SUFFICES ASSUME DiscoveryInv, [Next]_vars PROVE DiscoveryInv'
  OBVIOUS
<1>1. CASE UNCHANGED vars
  BY <1>1 DEF vars, DiscoveryInv, TypeOK, WatermarksTypeOK, Document, Clock, MarksFine, MarkFine,
       Reached, Done, RunReaches, Fetching, BackfillFinds, OwedFine, InHand
<1>2. ASSUME NEW e \in Entries, Publish(e) PROVE DiscoveryInv'
  BY <1>2, PublishKeeps
<1>3. ASSUME NEW w \in Executions, Begin(w) \/ Enqueue(w) \/ Abort(w) PROVE DiscoveryInv'
  BY <1>3, BeginKeeps, EnqueueKeeps, AbortKeeps
<1>4. ASSUME NEW w \in Executions, NEW f \in Feeds, Fetch(w, f) \/ SkipFeed(w, f)
      PROVE  DiscoveryInv'
  BY <1>4, FetchKeeps, SkipFeedKeeps
<1>5. ASSUME NEW w \in Backfills, SaveCheckpoint(w) \/ AddSitemapUrls(w) PROVE DiscoveryInv'
  BY <1>5, SaveCheckpointKeeps, AddSitemapUrlsKeeps
<1>6. ASSUME NEW w \in Backfills, NEW f \in Feeds, Walk(w, f) PROVE DiscoveryInv'
  BY <1>6, WalkKeeps
<1>7. ASSUME NEW w \in Runs, WentWell(w) \/ Save(w) PROVE DiscoveryInv'
  BY <1>7, WentWellKeeps, SaveKeeps
<1>8. ASSUME NEW s \in Savers \ Runs, OtherRead(s) \/ OtherWrite(s) PROVE DiscoveryInv'
  BY <1>8, OtherKeeps
<1> QED BY <1>1, <1>2, <1>3, <1>4, <1>5, <1>6, <1>7, <1>8, TickKeeps DEF Next

LEMMA DiscoveryInvariant == Spec => []DiscoveryInv
BY DiscoveryInit, DiscoveryStep, PTL DEF Spec

(* The watermarks, the frontier and the records of the runs keep their     *)
(* types.                                                                  *)
THEOREM DiscoveryTypeCorrect == Spec => []TypeOK
<1>1. DiscoveryInv => TypeOK
  BY DEF DiscoveryInv
<1> QED BY <1>1, DiscoveryInvariant, PTL

(* The part of NoDiscoveryGap that speaks of the watermark.                *)
WatermarkIsReached == \A e \in Entries : Covered(e) => e \in queued \cup missed

(* Whatever the watermark has passed is in the frontier, although runs     *)
(* overlap, die and undo each other's saves: the run that saves the time it*)
(* started at has seen all that was published before.                      *)
THEOREM WatermarkLeavesNoGap ==
  ASSUME FirstRunsReach
  PROVE  Spec => []WatermarkIsReached
<1>1. ASSUME DiscoveryInv, NEW e \in Entries, Covered(e) PROVE e \in queued \cup missed
  <2>1. Reached(blob[Rss])
    BY <1>1 DEF Covered, Watermark, DiscoveryInv, MarksFine, MarkFine
  <2> QED BY <1>1, <2>1 DEF Covered, Watermark, Reached, Done
<1>2. DiscoveryInv => WatermarkIsReached
  BY <1>1 DEF WatermarkIsReached
<1> QED BY <1>2, DiscoveryInvariant, PTL

(* Discovery leaves no gap: what the watermark or a backfill's checkpoint  *)
(* takes for done is in the frontier, or in the hands of the backfill.     *)
THEOREM DiscoveryLeavesNoGap ==
  ASSUME FirstRunsReach, SitemapsReach
  PROVE  Spec => []NoDiscoveryGap
<1>1. DiscoveryInv => \A e \in owed : e \in queued \cup missed \/ InHand(e)
  BY DEF DiscoveryInv, OwedFine, Done
<1>2. DiscoveryInv /\ WatermarkIsReached => NoDiscoveryGap
  BY <1>1 DEF NoDiscoveryGap, WatermarkIsReached
<1> QED BY <1>2, DiscoveryInvariant, WatermarkLeavesNoGap, PTL
=============================================================================
