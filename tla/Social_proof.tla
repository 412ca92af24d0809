---------------------------- MODULE Social_proof ----------------------------
(***************************************************************************)
(* Proofs about the social pipelines.  SocialPipeline: no post that the    *)
(* watermark has passed is left behind, for any number of overlapping      *)
(* runs, handles and posts.  SocialFanout, with the clients and breakers it*)
(* is made of: datasets are complete and open breakers hold, for any       *)
(* platforms, limits and timeouts; fairness is not used.  The two modules  *)
(* are independent of each other.                                          *)
(***************************************************************************)
EXTENDS SocialPipeline, SocialFanout, WellFoundedInduction, FiniteSetTheorems, TLAPS

(* Nothing is dated later than now.                                        *)
NothingAhead ==
  /\ \A p \in Posts : published[p] # NULL => published[p] <= now
  /\ watermark # NULL => watermark <= now
  /\ \A r \in Runs : run[r].started <= now

(* The posts that a watermark of s would pass.                             *)
InReach(s, p) ==
  /\ ShapeOf[p] = "post" /\ published[p] # NULL
  /\ Floor <= published[p] /\ published[p] < s.started

(* What s has still before it with p.                                      *)
Ahead(s, p) ==
  \/ s.stage = "fetch" /\ p \in s.posts
  \/ s.stage = "fetch" /\ published[p] >= s.cutoff /\ HandleOf[p] \in s.todo
  \/ s.stage = "parse" /\ published[p] >= s.cutoff /\ p \in s.posts
  \/ s.stage = "raw" /\ p \in s.posts
  \/ s.stage = "enrich" /\ p \in s.posts /\ p \in raw
  \/ s.stage = "silver" /\ p \in raw /\ (p \in InScope => p \in s.posts)

(* A run accounts for every post it would pass: the post is kept, or       *)
(* excused, or was kept from the run, or a load has failed, or the run has *)
(* it still before it.                                                     *)
Accounted(s) ==
  \A p \in Posts : InReach(s, p) =>
    Kept(p) \/ p \in excused \/ p \in s.unseen \/ s.failed \/ Ahead(s, p)

(* What the stages of a run say of the rest of its record.                 *)
Staged(s) ==
  /\ s.stage \in {"fetch", "parse", "raw"} => ~ s.failed
  /\ s.stage # "fetch" \/ ~ native => s.auth = {} /\ s.api = {}
  /\ s.stage = "fetch" /\ ~ native => s.posts = {}
  /\ s.stage # "parse" => s.posts \subseteq Shaped(Posts, "post")
  /\ s.stage = "silver" => s.posts \subseteq InScope

RunFine(s) == Staged(s) /\ (s.stage # "idle" => Accounted(s))

SocialInv ==
  /\ TypeOK /\ native \in BOOLEAN
  /\ NothingAhead
  /\ \A r \in Runs : RunFine(run[r])
  /\ NoPostLeftBehind

-----------------------------------------------------------------------------
(* Facts about numbers.                                                    *)
NatLess == {ss \in Nat \X Nat : ss[1] < ss[2]}

LEMMA SmallestNat ==
  ASSUME NEW T \in SUBSET Nat, T # {}
  PROVE  \E x \in T : \A y \in T : x <= y
<1>1. IsWellFoundedOn(NatLess, Nat)
  BY NatLessThanWellFounded DEF OpToRel, NatLess
<1>2. PICK x \in T : \A y \in T : ~ (<<y, x>> \in NatLess)
  BY <1>1, WFMin
<1>3. \A y \in T : ~ (y < x)
  BY <1>2 DEF NatLess
<1> QED BY <1>3

LEMMA MaxOfTwo ==
  ASSUME NEW a \in Int, NEW b \in Int
  PROVE  Max({a, b}) = IF a >= b THEN a ELSE b
<1>1. \E x \in {a, b} : \A y \in {a, b} : x >= y
  OBVIOUS
<1>2. Max({a, b}) \in {a, b} /\ \A y \in {a, b} : Max({a, b}) >= y
  BY <1>1 DEF Max
<1> QED BY <1>2

(* A request for posts of a handle that has some gives some.               *)
LEMMA NewestGives ==
  ASSUME NEW S \in SUBSET Posts, S # {},
         \A p \in S : published[p] \in Nat /\ published[p] <= now, now \in Nat
  PROVE  Newest(S) # {}
<1> DEFINE ages == {now - published[p] : p \in S}
<1>1. ages \in SUBSET Nat /\ ages # {}
  OBVIOUS
<1>2. PICK age \in ages : \A other \in ages : age <= other
  BY <1>1, SmallestNat
<1>3. PICK p \in S : \A q \in S : now - published[p] <= now - published[q]
  BY <1>2
<1>4. {q \in S : published[q] > published[p]} = {}
  BY <1>3
<1>5. Cardinality({q \in S : published[q] > published[p]}) < PageCap
  <2>1. Cardinality({}) = 0
    BY FS_EmptySet
  <2>2. Cardinality({q \in S : published[q] > published[p]}) = 0
    BY <1>4, <2>1, Zenon
  <2> QED BY <2>2, SocialAssumption
<1> QED BY <1>3, <1>5 DEF Newest

(* The window of each mode begins at the floor or later.                   *)
LEMMA Cutoffs ==
  ASSUME TypeOK, NEW mode \in {"incremental", "lookback", "backfill"}
  PROVE  /\ Cutoff(mode) \in Nat
         /\ mode = "backfill" => Cutoff(mode) = Floor
         /\ mode = "incremental" /\ watermark = NULL => Cutoff(mode) = Floor
         /\ mode = "incremental" /\ watermark # NULL /\ watermark < Floor => Cutoff(mode) = Floor
         /\ mode = "incremental" /\ watermark # NULL /\ watermark >= Floor
              => Cutoff(mode) = watermark
<1>1. now \in Int /\ Floor \in Nat /\ Lookback \in Nat /\ watermark \in Nat \cup {NULL} /\ NULL \notin Int
  BY SocialAssumption DEF TypeOK
<1>2. CASE mode = "backfill"
  <2>1. Cutoff(mode) = Floor
    BY <1>2 DEF Cutoff
  <2> QED BY <1>1, <1>2, <2>1
<1>3. CASE mode = "lookback"
  <2>1. Cutoff(mode) = Max({now - Lookback, Floor})
    BY <1>3 DEF Cutoff
  <2>2. now - Lookback \in Int /\ Floor \in Int
    BY <1>1
  <2> QED BY <1>1, <1>3, <2>1, <2>2, MaxOfTwo
<1>4. CASE mode = "incremental" /\ watermark # NULL
  <2>1. Cutoff(mode) = Max({watermark, Floor})
    BY <1>4 DEF Cutoff
  <2>2. watermark \in Int /\ Floor \in Int
    BY <1>1, <1>4
  <2> QED BY <1>1, <1>4, <2>1, <2>2, MaxOfTwo
<1>5. CASE mode = "incremental" /\ watermark = NULL
  <2>1. Cutoff(mode) = Floor
    BY <1>5 DEF Cutoff
  <2> QED BY <1>1, <1>5, <2>1
<1> QED BY <1>2, <1>3, <1>4, <1>5

-----------------------------------------------------------------------------
(* Records with one field set are records.                                 *)
LEMMA FieldSet ==
  ASSUME NEW s \in RunState
  PROVE  /\ \A v \in Stages : [s EXCEPT !.stage = v] \in RunState
         /\ \A v \in Nat : [s EXCEPT !.started = v] \in RunState
         /\ \A v \in Nat : [s EXCEPT !.cutoff = v] \in RunState
         /\ \A v \in SUBSET Handles : [s EXCEPT !.todo = v] \in RunState
         /\ \A v \in SUBSET Handles : [s EXCEPT !.auth = v] \in RunState
         /\ \A v \in SUBSET Handles : [s EXCEPT !.api = v] \in RunState
         /\ \A v \in SUBSET Handles : [s EXCEPT !.answered = v] \in RunState
         /\ \A v \in SUBSET Posts : [s EXCEPT !.posts = v] \in RunState
         /\ \A v \in SUBSET Posts : [s EXCEPT !.dlq = v] \in RunState
         /\ \A v \in SUBSET Posts : [s EXCEPT !.unseen = v] \in RunState
<1> QED BY DEF RunState

LEMMA StageSet ==
  ASSUME NEW s \in RunState
  PROVE  /\ [s EXCEPT !.stage = "parse"] \in RunState
         /\ [s EXCEPT !.stage = "enrich"] \in RunState
         /\ [s EXCEPT !.stage = "silver"] \in RunState
<1>1. {"parse", "enrich", "silver"} \subseteq Stages
  BY DEF Stages
<1> QED BY <1>1, FieldSet

LEMMA FlagSet ==
  ASSUME NEW s \in RunState
  PROVE  /\ \A v \in BOOLEAN : [s EXCEPT !.backfill = v] \in RunState
         /\ \A v \in BOOLEAN : [s EXCEPT !.failed = v] \in RunState
<1> QED BY DEF RunState

LEMMA IdleState ==
  Idle \in RunState /\ Idle.stage = "idle" /\ Idle.started = 0
<1> QED BY DEF Idle, RunState, Stages

LEMMA StateOf ==
  ASSUME SocialInv, NEW r \in Runs
  PROVE  /\ run \in [Runs -> RunState] /\ run[r] \in RunState /\ RunFine(run[r])
         /\ run[r].started \in Nat /\ run[r].cutoff \in Nat
         /\ now \in Nat /\ run[r].started <= now
<1>1. run \in [Runs -> RunState] /\ now \in Nat
  BY DEF SocialInv, TypeOK
<1>2. run[r] \in RunState
  BY <1>1
<1> QED BY <1>1, <1>2 DEF SocialInv, RunState, NothingAhead

(* What a run keeps once it has its posts.                                 *)
KeepsOf(u, s, P) ==
  /\ u \in RunState /\ u.stage = "raw" /\ u.posts = P
  /\ u.started = s.started /\ u.unseen = s.unseen
  /\ u.auth = {} /\ u.api = {} /\ u.failed = FALSE

LEMMA FetchedState ==
  ASSUME NEW s \in RunState, NEW P \in SUBSET Posts, NEW D \in SUBSET Posts
  PROVE  KeepsOf(Fetched(s, P, D), s, P)
<1> DEFINE s1 == [Idle EXCEPT !.stage = "raw"]
           s2 == [s1 EXCEPT !.backfill = s.backfill]
           s3 == [s2 EXCEPT !.started = s.started]
           s4 == [s3 EXCEPT !.unseen = s.unseen]
           s5 == [s4 EXCEPT !.posts = P]
<1>1. s1 \in RunState
  BY DEF Idle, RunState, Stages
<1> HIDE DEF s1
<1>2. s2 \in RunState
  BY <1>1, FlagSet DEF RunState
<1> HIDE DEF s2
<1>3. s3 \in RunState
  BY <1>2, FieldSet DEF RunState
<1> HIDE DEF s3
<1>4. s4 \in RunState
  BY <1>3, FieldSet DEF RunState
<1> HIDE DEF s4
<1>5. s5 \in RunState
  BY <1>4, FieldSet
<1> HIDE DEF s5
<1>6. [s5 EXCEPT !.dlq = D] \in RunState
  BY <1>5, FieldSet
<1>7. Fetched(s, P, D) \in RunState
  BY <1>6 DEF Fetched, s5, s4, s3, s2, s1
<1>8. /\ Fetched(s, P, D).stage = "raw" /\ Fetched(s, P, D).posts = P
      /\ Fetched(s, P, D).started = s.started /\ Fetched(s, P, D).unseen = s.unseen
      /\ Fetched(s, P, D).auth = {} /\ Fetched(s, P, D).api = {}
      /\ Fetched(s, P, D).failed = FALSE
  BY DEF Fetched, Idle
<1> QED BY <1>7, <1>8 DEF KeepsOf

-----------------------------------------------------------------------------
(* What a step of r that leaves its record as s does to the rest.          *)
Effect(r, s) ==
  /\ run' = [run EXCEPT ![r] = s]
  /\ UNCHANGED <<native, now, published>>
  /\ raw \subseteq raw' /\ raw' \subseteq Shaped(Posts, "post")
  /\ silver \subseteq silver' /\ silver' \subseteq InScope
  /\ activations \subseteq activations' /\ activations' \subseteq InScope
  /\ deadLetters' \subseteq Posts
  /\ excused \subseteq excused' /\ excused' \subseteq Posts
  /\ \/ watermark' = watermark
     \/ /\ watermark' = run[r].started
        /\ \A p \in Posts : InReach(run[r], p) => Kept(p)' \/ p \in excused'
  /\ RunFine(s)'
  /\ s.started <= now

LEMMA FineStays ==
  ASSUME NEW s \in RunState, RunFine(s), UNCHANGED <<native, published>>,
         raw \subseteq raw', silver \subseteq silver', activations \subseteq activations',
         excused \subseteq excused'
  PROVE  RunFine(s)'
<1>1. \A p \in Posts : Kept(p) => Kept(p)'
  BY DEF Kept
<1>2. \A p \in Posts : Ahead(s, p) => Ahead(s, p)'
  BY DEF Ahead
<1>3. Staged(s)'
  BY DEF RunFine, Staged, Shaped
<1>4. ASSUME Accounted(s) PROVE Accounted(s)'
  BY <1>1, <1>2, <1>4 DEF Accounted, InReach
<1> QED BY <1>3, <1>4 DEF RunFine

LEMMA EffectKeeps ==
  ASSUME SocialInv, NEW r \in Runs, NEW s \in RunState, Effect(r, s)
  PROVE  SocialInv'
<1>1. /\ run' = [run EXCEPT ![r] = s] /\ run \in [Runs -> RunState] /\ run[r].started \in Nat
      /\ UNCHANGED <<native, now, published>> /\ now \in Nat /\ run[r].started <= now
  BY StateOf DEF Effect
<1>2. run' \in [Runs -> RunState] /\ run'[r] = s /\ \A x \in Runs \ {r} : run'[x] = run[x]
  BY <1>1
<1>3. TypeOK'
  BY <1>1, <1>2 DEF Effect, SocialInv, TypeOK, Shaped
<1>4. NothingAhead'
  BY <1>1, <1>2 DEF Effect, SocialInv, TypeOK, NothingAhead
<1>5. ASSUME NEW x \in Runs PROVE RunFine(run[x])'
  <2>1. CASE x = r
    BY <1>2, <2>1 DEF Effect, RunFine, Staged, Accounted, InReach, Ahead
  <2>2. CASE x # r
    <3>1. PICK q \in RunState : q = run[x]
      BY <1>1
    <3>2. RunFine(q)
      BY <3>1, StateOf
    <3>3. RunFine(q)'
      BY <3>2, FineStays DEF Effect
    <3>4. run'[x] = q
      BY <1>2, <2>2, <3>1
    <3> QED BY <3>3, <3>4 DEF RunFine, Staged, Accounted, InReach, Ahead
  <2> QED BY <2>1, <2>2
<1>6. NoPostLeftBehind'
  <2>1. \A p \in Posts : Kept(p) => Kept(p)'
    BY DEF Effect, Kept
  <2>2. CASE watermark' = watermark
    BY <1>1, <2>1, <2>2 DEF Effect, SocialInv, NoPostLeftBehind, Passed
  <2>3. CASE /\ watermark' = run[r].started
             /\ \A p \in Posts : InReach(run[r], p) => Kept(p)' \/ p \in excused'
    BY <1>1, <2>3 DEF NoPostLeftBehind, Passed, InReach
  <2> QED BY <2>2, <2>3 DEF Effect
<1> QED BY <1>1, <1>3, <1>4, <1>5, <1>6 DEF SocialInv

(* Steps that leave the tables and the watermark alone.                    *)
LEMMA QuietEffect ==
  ASSUME SocialInv, NEW r \in Runs, NEW s \in RunState,
         run' = [run EXCEPT ![r] = s],
         UNCHANGED <<native, now, published, watermark, tables, excused>>,
         RunFine(s), s.started <= now
  PROVE  SocialInv'
<1>1. UNCHANGED <<raw, silver, activations, deadLetters>>
  BY DEF tables
<1>2. RunFine(s)'
  BY <1>1, FineStays
<1>3. /\ raw \subseteq Shaped(Posts, "post") /\ silver \subseteq InScope
      /\ activations \subseteq InScope /\ deadLetters \subseteq Posts /\ excused \subseteq Posts
  BY DEF SocialInv, TypeOK
<1>4. Effect(r, s)
  BY <1>1, <1>2, <1>3 DEF Effect
<1> QED BY <1>4, EffectKeeps

LEMMA IdleFine == RunFine(Idle)
<1> QED BY DEF RunFine, Staged, Idle

(* The end of a run without a save, and with one that has accounted for    *)
(* all that its watermark passes.                                          *)
LEMMA EndKeeps ==
  ASSUME SocialInv, NEW r \in Runs, End(r),
         UNCHANGED <<native, now, published, watermark, tables, excused>>
  PROVE  SocialInv'
<1>1. run' = [run EXCEPT ![r] = Idle]
  BY DEF End, Become
<1>2. Idle \in RunState /\ Idle.started <= now
  BY IdleState, StateOf
<1> QED BY <1>1, <1>2, IdleFine, QuietEffect

LEMMA SaveKeeps ==
  ASSUME SocialInv, NEW r \in Runs, End(r), SaveWatermark(r),
         UNCHANGED <<native, now, published, tables>>,
         run[r].auth = {} /\ run[r].api = {},
         \A p \in Posts : InReach(run[r], p) =>
           Kept(p) \/ p \in excused \/ p \in run[r].unseen
  PROVE  SocialInv'
<1>1. CASE UNCHANGED <<watermark, excused>>
  <2>1. UNCHANGED <<native, now, published, watermark, tables, excused>>
    BY <1>1
  <2> QED BY <2>1, EndKeeps
<1>2. CASE watermark' = run[r].started /\ excused' = excused \cup Excuses(run[r])
  <2>1. run' = [run EXCEPT ![r] = Idle]
    BY DEF End, Become
  <2>2. Idle \in RunState /\ Idle.started <= now
    BY IdleState, StateOf
  <2>3. UNCHANGED <<raw, silver, activations, deadLetters>>
    BY DEF tables
  <2>4. /\ raw \subseteq Shaped(Posts, "post") /\ silver \subseteq InScope
        /\ activations \subseteq InScope /\ deadLetters \subseteq Posts /\ excused \subseteq Posts
    BY DEF SocialInv, TypeOK
  <2>5. run[r].unseen \subseteq Posts
    BY StateOf DEF RunState
  <2>6. Excuses(run[r]) = run[r].unseen
    BY <2>5 DEF Excuses
  <2>7. \A p \in Posts : InReach(run[r], p) => Kept(p)' \/ p \in excused'
    BY <1>2, <2>3, <2>6 DEF Kept
  <2>8. RunFine(Idle)'
    BY DEF RunFine, Staged, Idle
  <2>9. Effect(r, Idle)
    BY <1>2, <2>1, <2>2, <2>3, <2>4, <2>5, <2>6, <2>7, <2>8 DEF Effect
  <2> QED BY <2>2, <2>9, EffectKeeps
<1> QED BY <1>1, <1>2 DEF SaveWatermark

-----------------------------------------------------------------------------
LEMMA StartKeeps ==
  ASSUME SocialInv, UNCHANGED native, NEW r \in Runs,
         NEW mode \in {"incremental", "lookback", "backfill"}, Start(r, mode)
  PROVE  SocialInv'
<1> DEFINE U == {p \in Posts : published[p] # NULL /\ published[p] < Cutoff(mode)
                               /\ mode = "lookback"}
           b == mode = "backfill"
           s1 == [Idle EXCEPT !.stage = "fetch"]
           s2 == [s1 EXCEPT !.backfill = b]
           s3 == [s2 EXCEPT !.started = now]
           s4 == [s3 EXCEPT !.cutoff = Cutoff(mode)]
           s5 == [s4 EXCEPT !.todo = Handles]
           s == [s5 EXCEPT !.unseen = U]
<1>1. now \in Nat /\ Cutoff(mode) \in Nat /\ U \in SUBSET Posts /\ b \in BOOLEAN
  BY Cutoffs, StateOf DEF SocialInv
<1>2. run' = [run EXCEPT ![r] = s]
  BY DEF Start, Become
<1>3. /\ s.stage = "fetch" /\ s.started = now /\ s.cutoff = Cutoff(mode) /\ s.todo = Handles
      /\ s.unseen = U /\ s.auth = {} /\ s.api = {} /\ s.posts = {} /\ s.failed = FALSE
  BY DEF Idle
<1> HIDE DEF U, b
<1>4. s1 \in RunState
  BY DEF Idle, RunState, Stages
<1> HIDE DEF s1
<1>5. s2 \in RunState
  BY <1>1, <1>4, FlagSet
<1> HIDE DEF s2
<1>6. s3 \in RunState
  BY <1>1, <1>5, FieldSet
<1> HIDE DEF s3
<1>7. s4 \in RunState
  BY <1>1, <1>6, FieldSet
<1> HIDE DEF s4
<1>8. s5 \in RunState
  BY <1>7, FieldSet
<1> HIDE DEF s5
<1>9. s \in RunState
  BY <1>1, <1>8, FieldSet
<1> HIDE DEF s
<1>10. ASSUME NEW p \in Posts, InReach(s, p)
       PROVE  Kept(p) \/ p \in excused \/ p \in s.unseen \/ Ahead(s, p)
  <2>1. /\ published[p] \in Nat /\ published[p] # NULL /\ Floor \in Nat
        /\ Floor <= published[p] /\ ShapeOf[p] = "post" /\ HandleOf[p] \in Handles
    BY <1>10, SocialAssumption DEF InReach, SocialInv, TypeOK
  <2>2. CASE published[p] >= Cutoff(mode)
    BY <1>3, <2>1, <2>2 DEF Ahead
  <2>3. CASE published[p] < Cutoff(mode) /\ mode = "lookback"
    BY <1>3, <2>1, <2>3 DEF U
  <2>4. CASE published[p] < Cutoff(mode) /\ mode # "lookback"
    <3>1. watermark # NULL /\ published[p] < watermark
      BY <1>1, <2>1, <2>4, Cutoffs DEF SocialInv, TypeOK
    <3> QED BY <2>1, <3>1 DEF SocialInv, NoPostLeftBehind, Passed
  <2> QED BY <1>1, <2>1, <2>2, <2>3, <2>4
<1>11. RunFine(s)
  BY <1>3, <1>10 DEF RunFine, Staged, Accounted
<1>12. UNCHANGED <<native, now, published, watermark, tables, excused>>
  BY DEF Start
<1>13. s.started <= now
  BY <1>1, <1>3
<1> QED BY <1>2, <1>9, <1>11, <1>12, <1>13, QuietEffect

LEMMA PublishKeeps ==
  ASSUME SocialInv, UNCHANGED native, NEW p \in Posts, Publish(p)
  PROVE  SocialInv'
<1>1. /\ published' = [published EXCEPT ![p] = now] /\ published[p] = NULL
      /\ UNCHANGED <<native, now, watermark, run, raw, silver, activations, deadLetters, excused>>
  BY DEF Publish, tables
<1>2. /\ now \in Nat /\ NULL \notin Int /\ published \in [Posts -> Nat \cup {NULL}]
      /\ watermark \in Nat \cup {NULL}
  BY SocialAssumption DEF SocialInv, TypeOK
<1>3. published' \in [Posts -> Nat \cup {NULL}] /\ \A q \in Posts \ {p} : published'[q] = published[q]
  BY <1>1, <1>2
<1>4. TypeOK'
  BY <1>1, <1>3 DEF SocialInv, TypeOK, Shaped
<1>5. NothingAhead'
  BY <1>1, <1>2, <1>3 DEF SocialInv, NothingAhead
<1>6. ASSUME NEW r \in Runs PROVE RunFine(run[r])'
  <2>1. RunFine(run[r]) /\ run[r].started \in Nat /\ run[r].started <= now
    BY StateOf
  <2>2. ASSUME NEW q \in Posts, InReach(run[r], q)'
        PROVE  InReach(run[r], q) /\ q # p
    BY <1>1, <1>2, <1>3, <2>1, <2>2 DEF InReach
  <2>3. \A q \in Posts \ {p} : /\ Kept(q) => Kept(q)'
                               /\ Ahead(run[r], q) => Ahead(run[r], q)'
    BY <1>1, <1>3 DEF Kept, Ahead
  <2>4. Staged(run[r])'
    BY <1>1, <2>1 DEF RunFine, Staged, Shaped
  <2>5. ASSUME Accounted(run[r]) PROVE Accounted(run[r])'
    BY <1>1, <2>2, <2>3, <2>5 DEF Accounted
  <2> QED BY <1>1, <2>1, <2>4, <2>5 DEF RunFine
<1>7. NoPostLeftBehind'
  <2>1. ASSUME NEW q \in Posts, Passed(q)' PROVE Passed(q) /\ q # p
    BY <1>1, <1>2, <1>3, <2>1 DEF Passed, SocialInv, NothingAhead
  <2> QED BY <1>1, <2>1 DEF SocialInv, NoPostLeftBehind, Kept
<1> QED BY <1>1, <1>4, <1>5, <1>6, <1>7 DEF SocialInv

LEMMA TickKeeps ==
  ASSUME SocialInv, UNCHANGED native, Tick
  PROVE  SocialInv'
<1>1. /\ now' = now + 1 /\ now \in Nat
      /\ UNCHANGED <<native, published, watermark, run, raw, silver, activations, deadLetters, excused>>
  BY DEF Tick, tables, SocialInv, TypeOK
<1>2. TypeOK'
  BY <1>1 DEF SocialInv, TypeOK, Shaped
<1>3. NothingAhead'
  <2>1. /\ \A p \in Posts : published[p] \in Nat \cup {NULL}
        /\ watermark \in Nat \cup {NULL}
        /\ \A r \in Runs : run[r].started \in Nat /\ run[r].started <= now
    BY StateOf DEF SocialInv, TypeOK
  <2> QED BY <1>1, <2>1, SocialAssumption DEF SocialInv, NothingAhead
<1>4. \A r \in Runs : RunFine(run[r])'
  BY <1>1 DEF SocialInv, RunFine, Staged, Accounted, InReach, Ahead, Kept, Shaped
<1>5. NoPostLeftBehind'
  BY <1>1 DEF SocialInv, NoPostLeftBehind, Passed, Kept
<1> QED BY <1>1, <1>2, <1>3, <1>4, <1>5 DEF SocialInv

-----------------------------------------------------------------------------
LEMMA AnswersKeep ==
  ASSUME SocialInv, UNCHANGED native, NEW r \in Runs, NEW h \in Handles, Answers(r, h)
  PROVE  SocialInv'
<1> DEFINE q == run[r]
           window == Since(Visible(h), run[r].cutoff)
           given == Newest(window)
           s1 == [q EXCEPT !.todo = @ \ {h}]
           s2 == [s1 EXCEPT !.answered = @ \cup {h}]
           s3 == [s2 EXCEPT !.posts = @ \cup Shaped(given, "post")]
           s4 == [s3 EXCEPT !.dlq = @ \cup Shaped(given, "drift")]
           s == [s4 EXCEPT !.unseen = @ \cup (window \ given)]
<1>1. /\ native /\ run[r].stage = "fetch"
      /\ UNCHANGED <<native, now, published, watermark, tables, excused>>
  BY DEF Answers
<1>2. CASE Shaped(given, "crash") # {}
  <2>1. End(r)
    BY <1>2 DEF Answers
  <2> QED BY <1>1, <2>1, EndKeeps
<1>3. CASE Shaped(given, "crash") = {}
  <2>1. run' = [run EXCEPT ![r] = s]
    BY <1>3 DEF Answers, Become
  <2>2. /\ q \in RunState /\ window \subseteq Posts /\ given \subseteq window
        /\ Shaped(given, "post") \subseteq Posts /\ Shaped(given, "drift") \subseteq Posts
    BY StateOf DEF Since, Visible, Newest, Shaped
  <2>3. /\ s.stage = q.stage /\ s.started = q.started /\ s.cutoff = q.cutoff
        /\ s.todo = q.todo \ {h} /\ s.unseen = q.unseen \cup (window \ given)
        /\ s.auth = q.auth /\ s.api = q.api /\ s.failed = q.failed
        /\ s.posts = q.posts \cup Shaped(given, "post")
    BY <2>2 DEF RunState
  <2>4. /\ \A p \in Posts : published[p] # NULL /\ published[p] >= q.cutoff /\ HandleOf[p] = h
             => p \in window
        /\ \A p \in given : ShapeOf[p] = "post" => p \in Shaped(given, "post")
        /\ Shaped(given, "post") \subseteq Shaped(Posts, "post")
    BY <2>2 DEF Since, Visible, Shaped
  <2> HIDE DEF window, given
  <2>5. s1 \in RunState
    BY <2>2, FieldSet DEF RunState
  <2> HIDE DEF s1
  <2>6. s2 \in RunState
    BY <2>5, FieldSet DEF RunState
  <2> HIDE DEF s2
  <2>7. s3 \in RunState
    BY <2>2, <2>6, FieldSet DEF RunState
  <2> HIDE DEF s3
  <2>8. s4 \in RunState
    BY <2>2, <2>7, FieldSet DEF RunState
  <2> HIDE DEF s4
  <2>9. s \in RunState
    BY <2>2, <2>8, FieldSet DEF RunState
  <2> HIDE DEF s
  <2>10. RunFine(q) /\ q.started <= now
    BY StateOf
  <2>11. Accounted(s)
    <3>1. ASSUME NEW p \in Posts, InReach(s, p)
          PROVE  Kept(p) \/ p \in excused \/ p \in s.unseen \/ s.failed \/ Ahead(s, p)
      <4>1. Kept(p) \/ p \in excused \/ p \in q.unseen \/ q.failed \/ Ahead(q, p)
        BY <1>1, <2>3, <2>10, <3>1 DEF InReach, RunFine, Accounted
      <4>2. CASE Ahead(q, p) /\ HandleOf[p] = h /\ p \notin q.posts
        <5>1. p \in window
          BY <1>1, <2>4, <3>1, <4>2 DEF Ahead, InReach
        <5>2. CASE p \in given
          BY <1>1, <2>3, <2>4, <3>1, <5>2 DEF Ahead, InReach
        <5>3. CASE p \notin given
          BY <2>3, <5>1, <5>3
        <5> QED BY <5>2, <5>3
      <4>3. CASE Ahead(q, p) /\ (HandleOf[p] # h \/ p \in q.posts)
        BY <1>1, <2>3, <4>3 DEF Ahead
      <4> QED BY <2>3, <4>1, <4>2, <4>3
    <3> QED BY <3>1 DEF Accounted
  <2>12. RunFine(s)
    BY <1>1, <2>3, <2>4, <2>10, <2>11 DEF RunFine, Staged
  <2> QED BY <1>1, <2>1, <2>3, <2>9, <2>10, <2>12, QuietEffect
<1> QED BY <1>2, <1>3

LEMMA RefusesKeep ==
  ASSUME SocialInv, UNCHANGED native, NEW r \in Runs, NEW h \in Handles, Refuses(r, h)
  PROVE  SocialInv'
<1> DEFINE q == run[r]
           window == Since(Visible(h), run[r].cutoff)
           s1 == [q EXCEPT !.todo = @ \ {h}]
           t == [s1 EXCEPT !.unseen = @ \cup window]
<1>1. /\ native /\ run[r].stage = "fetch"
      /\ UNCHANGED <<native, now, published, watermark, tables, excused>>
  BY DEF Refuses
<1>2. /\ q \in RunState /\ window \subseteq Posts /\ RunFine(q) /\ q.started <= now
      /\ \A p \in Posts : published[p] # NULL /\ published[p] >= q.cutoff /\ HandleOf[p] = h
           => p \in window
  BY StateOf DEF Since, Visible
<1>3. \/ Become(r, [t EXCEPT !.auth = @ \cup {h}])
      \/ Become(r, [t EXCEPT !.api = @ \cup {h}])
      \/ Become(r, t)
  BY DEF Refuses
<1> HIDE DEF window
<1>4. s1 \in RunState
  BY <1>2, FieldSet DEF RunState
<1>5. /\ t.stage = q.stage /\ t.started = q.started /\ t.cutoff = q.cutoff
      /\ t.todo = q.todo \ {h} /\ t.unseen = q.unseen \cup window
      /\ t.failed = q.failed /\ t.posts = q.posts
  BY <1>2 DEF RunState
<1> HIDE DEF s1
<1>6. t \in RunState
  BY <1>2, <1>4, FieldSet DEF RunState
<1> HIDE DEF t
<1>7. ASSUME NEW s \in RunState, run' = [run EXCEPT ![r] = s],
             s.stage = t.stage, s.started = t.started, s.cutoff = t.cutoff, s.todo = t.todo,
             s.unseen = t.unseen, s.failed = t.failed, s.posts = t.posts
      PROVE  SocialInv'
  <2>1. ASSUME NEW p \in Posts, InReach(s, p)
        PROVE  Kept(p) \/ p \in excused \/ p \in s.unseen \/ s.failed \/ Ahead(s, p)
    <3>1. Kept(p) \/ p \in excused \/ p \in q.unseen \/ q.failed \/ Ahead(q, p)
      BY <1>1, <1>2, <1>5, <1>7, <2>1 DEF InReach, RunFine, Accounted
    <3>2. CASE Ahead(q, p) /\ HandleOf[p] = h /\ p \notin q.posts
      BY <1>1, <1>2, <1>5, <1>7, <2>1, <3>2 DEF Ahead, InReach
    <3>3. CASE Ahead(q, p) /\ (HandleOf[p] # h \/ p \in q.posts)
      BY <1>1, <1>5, <1>7, <3>3 DEF Ahead
    <3> QED BY <1>5, <1>7, <3>1, <3>2, <3>3
  <2>2. RunFine(s)
    BY <1>1, <1>2, <1>5, <1>7, <2>1 DEF RunFine, Staged, Accounted
  <2> QED BY <1>1, <1>2, <1>5, <1>7, <2>2, QuietEffect
<1>8. CASE Become(r, [t EXCEPT !.auth = @ \cup {h}])
  <2> DEFINE s == [t EXCEPT !.auth = @ \cup {h}]
  <2>1. s \in RunState
    BY <1>6, FieldSet DEF RunState
  <2>2. /\ s.stage = t.stage /\ s.started = t.started /\ s.cutoff = t.cutoff /\ s.todo = t.todo
        /\ s.unseen = t.unseen /\ s.failed = t.failed /\ s.posts = t.posts
    BY <1>6 DEF RunState
  <2>3. run' = [run EXCEPT ![r] = s]
    BY <1>8 DEF Become
  <2> HIDE DEF s
  <2> QED BY <1>7, <2>1, <2>2, <2>3
<1>9. CASE Become(r, [t EXCEPT !.api = @ \cup {h}])
  <2> DEFINE s == [t EXCEPT !.api = @ \cup {h}]
  <2>1. s \in RunState
    BY <1>6, FieldSet DEF RunState
  <2>2. /\ s.stage = t.stage /\ s.started = t.started /\ s.cutoff = t.cutoff /\ s.todo = t.todo
        /\ s.unseen = t.unseen /\ s.failed = t.failed /\ s.posts = t.posts
    BY <1>6 DEF RunState
  <2>3. run' = [run EXCEPT ![r] = s]
    BY <1>9 DEF Become
  <2> HIDE DEF s
  <2> QED BY <1>7, <2>1, <2>2, <2>3
<1>10. CASE Become(r, t)
  BY <1>6, <1>7, <1>10 DEF Become
<1> QED BY <1>3, <1>8, <1>9, <1>10

(* A run that has its posts goes on to persist them.                       *)
LEMMA FetchedKeeps ==
  ASSUME SocialInv, NEW r \in Runs, NEW P \in SUBSET Shaped(Posts, "post"),
         NEW D \in SUBSET Posts, Become(r, Fetched(run[r], P, D)),
         UNCHANGED <<native, now, published, watermark, tables, excused>>,
         \A p \in Posts : InReach(run[r], p) =>
           Kept(p) \/ p \in excused \/ p \in run[r].unseen \/ p \in P
  PROVE  SocialInv'
<1> DEFINE s == Fetched(run[r], P, D)
<1>1. run[r] \in RunState /\ run[r].started <= now /\ P \in SUBSET Posts
  BY StateOf DEF Shaped
<1> HIDE DEF s
<1>2. /\ s \in RunState /\ s.stage = "raw" /\ s.posts = P /\ s.failed = FALSE
      /\ s.started = run[r].started /\ s.unseen = run[r].unseen /\ s.auth = {} /\ s.api = {}
  <2>1. PICK q \in RunState : q = run[r]
    BY <1>1
  <2>2. KeepsOf(Fetched(q, P, D), q, P)
    BY <1>1, FetchedState
  <2> QED BY <2>1, <2>2 DEF s, KeepsOf
<1>3. run' = [run EXCEPT ![r] = s]
  BY DEF Become, s
<1>4. Accounted(s)
  BY <1>2 DEF Accounted, Ahead, InReach
<1>5. RunFine(s)
  BY <1>2, <1>4 DEF RunFine, Staged
<1> QED BY <1>1, <1>2, <1>3, <1>5, QuietEffect

LEMMA FetchedXKeeps ==
  ASSUME SocialInv, UNCHANGED native, NEW r \in Runs, FetchedX(r)
  PROVE  SocialInv'
<1> DEFINE q == run[r]
<1>1. /\ native /\ q.stage = "fetch" /\ q.todo = {} /\ UNCHANGED <<native, now, published, tables>>
      /\ q \in RunState /\ RunFine(q)
  BY StateOf DEF FetchedX
<1>2. \A p \in Posts : InReach(q, p) =>
        Kept(p) \/ p \in excused \/ p \in q.unseen \/ p \in q.posts
  BY <1>1 DEF RunFine, Staged, Accounted, Ahead
<1>3. CASE End(r) /\ UNCHANGED <<watermark, excused>>
  BY <1>1, <1>3, EndKeeps
<1>4. CASE Become(r, Fetched(q, q.posts, q.dlq)) /\ UNCHANGED <<watermark, excused>>
  <2>1. q.posts \in SUBSET Shaped(Posts, "post") /\ q.dlq \in SUBSET Posts
    BY <1>1 DEF RunFine, Staged, RunState
  <2> QED BY <1>1, <1>2, <1>4, <2>1, FetchedKeeps
<1>5. CASE q.posts = {} /\ End(r) /\ LegitimateEmpty(q) /\ SaveWatermark(r)
  <2>1. q.auth = {} /\ q.api = {}
    BY <1>5 DEF LegitimateEmpty, Broken
  <2>2. \A p \in Posts : InReach(q, p) => Kept(p) \/ p \in excused \/ p \in q.unseen
    BY <1>2, <1>5
  <2> QED BY <1>1, <1>5, <2>1, <2>2, SaveKeeps
<1> QED BY <1>3, <1>4, <1>5 DEF FetchedX

LEMMA ReadDatasetKeeps ==
  ASSUME SocialInv, UNCHANGED native, NEW r \in Runs, NEW served \in SUBSET Handles,
         ReadDataset(r, served)
  PROVE  SocialInv'
<1> DEFINE q == run[r]
           window(h) == Since(Visible(h), run[r].cutoff - Buffer)
           items == UNION {Newest(window(h)) : h \in served}
           rest == (UNION {window(h) : h \in Handles}) \ items
           s1 == [q EXCEPT !.stage = "parse"]
           s2 == [s1 EXCEPT !.posts = items]
           s == [s2 EXCEPT !.unseen = @ \cup rest]
<1>1. /\ ~ native /\ q.stage = "fetch" /\ UNCHANGED <<native, now, published, tables>>
      /\ q \in RunState /\ RunFine(q) /\ q.started <= now /\ q.cutoff \in Nat /\ Buffer \in Nat
      /\ now \in Nat
  BY StateOf, SocialAssumption DEF ReadDataset
<1>2. /\ \A h \in Handles : window(h) \subseteq Posts
      /\ items \in SUBSET Posts /\ rest \in SUBSET Posts
  BY DEF Since, Visible, Newest
<1>3. \A p \in Posts : InReach(q, p) =>
        /\ published[p] \in Nat /\ published[p] <= now /\ HandleOf[p] \in Handles
        /\ published[p] >= q.cutoff => p \in window(HandleOf[p])
  BY <1>1, SocialAssumption DEF InReach, SocialInv, TypeOK, NothingAhead, Since, Visible
<1>4. \A p \in Posts : InReach(q, p) =>
        Kept(p) \/ p \in excused \/ p \in q.unseen \/ published[p] >= q.cutoff
  BY <1>1 DEF RunFine, Staged, Accounted, Ahead
<1>5. CASE items = {} /\ served = Handles
  <2>1. End(r) /\ SaveWatermark(r)
    BY <1>5 DEF ReadDataset
  <2>2. ASSUME NEW h \in Handles, window(h) # {} PROVE FALSE
    <3>1. \A p \in window(h) : published[p] \in Nat /\ published[p] <= now
      BY DEF SocialInv, TypeOK, NothingAhead, Since, Visible
    <3>2. Newest(window(h)) # {}
      BY <1>1, <1>2, <2>2, <3>1, NewestGives
    <3> QED BY <1>5, <3>2
  <2>3. \A p \in Posts : InReach(q, p) => Kept(p) \/ p \in excused \/ p \in q.unseen
    BY <1>3, <1>4, <2>2
  <2>4. q.auth = {} /\ q.api = {}
    BY <1>1 DEF RunFine, Staged
  <2> QED BY <1>1, <2>1, <2>3, <2>4, SaveKeeps
<1>6. CASE ~ (items = {} /\ served = Handles)
  <2>1. run' = [run EXCEPT ![r] = s] /\ UNCHANGED <<watermark, excused>>
    BY <1>6 DEF ReadDataset, Become
  <2>2. /\ s.stage = "parse" /\ s.posts = items /\ s.unseen = q.unseen \cup rest
        /\ s.started = q.started /\ s.cutoff = q.cutoff /\ s.auth = q.auth /\ s.api = q.api
        /\ s.failed = q.failed
    BY <1>1 DEF RunState
  <2>3. ASSUME NEW p \in Posts, InReach(q, p), published[p] >= q.cutoff
        PROVE  p \in items \/ p \in rest
    <3>1. HandleOf[p] \in Handles /\ p \in window(HandleOf[p])
      BY <1>3, <2>3
    <3>2. \E h \in Handles : p \in window(h)
      BY <3>1
    <3>3. p \in UNION {window(h) : h \in Handles}
      BY <3>2
    <3> HIDE DEF window, items
    <3> QED BY <3>3 DEF rest
  <2> HIDE DEF items, rest
  <2>4. s1 \in RunState
    BY <1>1, StageSet
  <2> HIDE DEF s1
  <2>5. s2 \in RunState
    BY <1>2, <2>4, FieldSet
  <2> HIDE DEF s2
  <2>6. s \in RunState
    BY <1>2, <2>5, FieldSet DEF RunState
  <2> HIDE DEF s
  <2>7. Accounted(s)
    BY <1>4, <2>2, <2>3 DEF Accounted, Ahead, InReach
  <2>8. RunFine(s)
    BY <1>1, <2>2, <2>7 DEF RunFine, Staged
  <2> QED BY <1>1, <2>1, <2>2, <2>6, <2>8, QuietEffect
<1> QED BY <1>5, <1>6

LEMMA ParseKeeps ==
  ASSUME SocialInv, UNCHANGED native, NEW r \in Runs, Parse(r)
  PROVE  SocialInv'
<1> DEFINE q == run[r]
           items == run[r].posts
           posts == {p \in Shaped(items, "post") : InWindow(p, run[r].cutoff)}
           dlq == items \ Shaped(items, "post")
<1>1. /\ q.stage = "parse" /\ UNCHANGED <<native, now, published, tables>>
      /\ q \in RunState /\ RunFine(q)
  BY StateOf DEF Parse
<1>2. items \in SUBSET Posts /\ posts \in SUBSET Shaped(Posts, "post") /\ dlq \in SUBSET Posts
  BY <1>1 DEF RunState, Shaped
<1>3. \A p \in Posts : InReach(q, p) =>
        Kept(p) \/ p \in excused \/ p \in q.unseen \/ p \in posts
  BY <1>1 DEF RunFine, Staged, Accounted, Ahead, InReach, Shaped, InWindow
<1>4. \/ posts # {} /\ Become(r, Fetched(q, posts, dlq)) /\ UNCHANGED <<watermark, excused>>
      \/ End(r) /\ UNCHANGED <<watermark, excused>>
      \/ posts = {} /\ End(r) /\ SaveWatermark(r)
  BY DEF Parse
<1>5. CASE posts # {} /\ Become(r, Fetched(q, posts, dlq)) /\ UNCHANGED <<watermark, excused>>
  BY <1>1, <1>2, <1>3, <1>5, FetchedKeeps
<1>6. CASE End(r) /\ UNCHANGED <<watermark, excused>>
  BY <1>1, <1>6, EndKeeps
<1>7. CASE posts = {} /\ End(r) /\ SaveWatermark(r)
  <2>1. q.auth = {} /\ q.api = {}
    BY <1>1 DEF RunFine, Staged
  <2>2. \A p \in Posts : InReach(q, p) => Kept(p) \/ p \in excused \/ p \in q.unseen
    BY <1>3, <1>7
  <2> QED BY <1>1, <1>7, <2>1, <2>2, SaveKeeps
<1> QED BY <1>4, <1>5, <1>6, <1>7

-----------------------------------------------------------------------------
LEMMA PersistRawKeeps ==
  ASSUME SocialInv, UNCHANGED native, NEW r \in Runs, NEW ok \in BOOLEAN, NEW dlqOk \in BOOLEAN,
         PersistRaw(r, ok, dlqOk)
  PROVE  SocialInv'
<1> DEFINE q == run[r]
           f == ~ ok \/ (~ dlqOk /\ run[r].dlq # {})
           s1 == [q EXCEPT !.stage = "enrich"]
           s2 == [s1 EXCEPT !.dlq = {}]
           s == [s2 EXCEPT !.failed = f]
<1>1. /\ q.stage = "raw" /\ q \in RunState /\ RunFine(q) /\ q.started <= now
      /\ q.posts \subseteq Shaped(Posts, "post") /\ q.dlq \subseteq Posts
      /\ UNCHANGED <<native, now, published, watermark, silver, activations, excused>>
  BY StateOf DEF PersistRaw, RunFine, Staged, RunState
<1>2. /\ run' = [run EXCEPT ![r] = s]
      /\ raw' = IF ok THEN raw \cup q.posts ELSE raw
      /\ deadLetters' = IF dlqOk THEN deadLetters \cup q.dlq ELSE deadLetters
  BY DEF PersistRaw, Become, Load
<1>3. /\ s.stage = "enrich" /\ s.posts = q.posts /\ s.unseen = q.unseen /\ s.failed = f
      /\ s.started = q.started /\ s.auth = q.auth /\ s.api = q.api
  BY <1>1 DEF RunState
<1>4. f \in BOOLEAN /\ (~ f => ok)
  OBVIOUS
<1> HIDE DEF f
<1>5. s1 \in RunState
  BY <1>1, StageSet
<1> HIDE DEF s1
<1>6. s2 \in RunState
  BY <1>5, FieldSet
<1> HIDE DEF s2
<1>7. s \in RunState
  BY <1>4, <1>6, FlagSet
<1> HIDE DEF s
<1>8. PICK t \in RunState : t = s
  BY <1>7
<1>9. /\ t.stage = "enrich" /\ t.posts = q.posts /\ t.unseen = q.unseen /\ t.failed = f
       /\ t.started = q.started /\ t.auth = q.auth /\ t.api = q.api
  BY <1>3, <1>8
<1>10. /\ raw \subseteq raw' /\ raw' \subseteq Shaped(Posts, "post") /\ deadLetters' \subseteq Posts
      /\ silver \subseteq InScope /\ activations \subseteq InScope /\ excused \subseteq Posts
  BY <1>1, <1>2 DEF SocialInv, TypeOK
<1>11. ASSUME NEW p \in Posts, InReach(t, p)'
      PROVE  (Kept(p) \/ p \in excused \/ p \in t.unseen \/ t.failed \/ Ahead(t, p))'
  <2>1. Kept(p) \/ p \in excused \/ p \in q.unseen \/ q.failed \/ p \in q.posts
    BY <1>1, <1>9, <1>11 DEF InReach, RunFine, Accounted, Ahead
  <2>2. Kept(p) => Kept(p)'
    BY <1>1, <1>10 DEF Kept
  <2>3. p \in q.posts /\ ~ f => Ahead(t, p)'
    BY <1>2, <1>9, <1>4 DEF Ahead
  <2>4. ~ q.failed
    BY <1>1 DEF RunFine, Staged
  <2>5. Kept(p)' \/ p \in excused' \/ p \in t.unseen \/ t.failed \/ Ahead(t, p)'
    BY <1>1, <1>9, <2>1, <2>2, <2>3, <2>4
  <2> QED BY <2>5
<1>12. RunFine(t)'
  BY <1>1, <1>9, <1>11 DEF RunFine, Staged, Accounted, Shaped
<1>13. Effect(r, t)
  BY <1>1, <1>2, <1>8, <1>9, <1>10, <1>12 DEF Effect
<1> QED BY <1>13, EffectKeeps

LEMMA EnrichKeeps ==
  ASSUME SocialInv, UNCHANGED native, NEW r \in Runs, Enrich(r)
  PROVE  SocialInv'
<1> DEFINE q == run[r]
           s1 == [q EXCEPT !.stage = "silver"]
           s == [s1 EXCEPT !.posts = q.posts \cap InScope]
<1>1. /\ q.stage = "enrich" /\ q \in RunState /\ RunFine(q) /\ q.started <= now
      /\ UNCHANGED <<native, now, published, watermark, tables, excused>>
      /\ q.posts \subseteq Shaped(Posts, "post") /\ q.posts \in SUBSET Posts
  BY StateOf DEF Enrich, RunFine, Staged, RunState
<1>2. run' = [run EXCEPT ![r] = s]
  BY DEF Enrich, Become
<1>3. /\ s.stage = "silver" /\ s.posts = q.posts \cap InScope /\ s.unseen = q.unseen
      /\ s.failed = q.failed /\ s.started = q.started /\ s.auth = q.auth /\ s.api = q.api
  BY <1>1 DEF RunState
<1>4. s1 \in RunState
  BY <1>1, StageSet
<1> HIDE DEF s1
<1>5. q.posts \cap InScope \in SUBSET Posts
  BY <1>1
<1>6. s \in RunState
  BY <1>4, <1>5, FieldSet
<1> HIDE DEF s
<1>7. Accounted(s)
  BY <1>1, <1>3 DEF RunFine, Accounted, Ahead, InReach
<1>8. RunFine(s)
  BY <1>1, <1>3, <1>7 DEF RunFine, Staged
<1> QED BY <1>1, <1>2, <1>3, <1>6, <1>8, QuietEffect

LEMMA PersistSilverKeeps ==
  ASSUME SocialInv, UNCHANGED native, NEW r \in Runs, NEW ok \in BOOLEAN,
         NEW activationsOk \in BOOLEAN, PersistSilver(r, ok, activationsOk)
  PROVE  SocialInv'
<1> DEFINE q == run[r]
           f == run[r].failed \/ (~ (ok /\ activationsOk) /\ run[r].posts # {})
           s1 == [q EXCEPT !.stage = "finish"]
           s2 == [s1 EXCEPT !.posts = {}]
           s == [s2 EXCEPT !.failed = f]
<1>1. /\ q.stage = "silver" /\ q \in RunState /\ RunFine(q) /\ q.started <= now
      /\ q.posts \subseteq InScope /\ q.failed \in BOOLEAN
      /\ UNCHANGED <<native, now, published, watermark, raw, deadLetters, excused>>
  BY StateOf DEF PersistSilver, RunFine, Staged, RunState
<1>2. /\ silver' = IF ok THEN silver \cup q.posts ELSE silver
      /\ activations' = IF activationsOk THEN activations \cup q.posts ELSE activations
  BY DEF PersistSilver, Load
<1>3. run' = [run EXCEPT ![r] = [q EXCEPT !.stage = "finish", !.posts = {},
        !.failed = @ \/ (~ (ok /\ activationsOk) /\ run[r].posts # {})]]
  BY DEF PersistSilver, Become
<1>4. run' = [run EXCEPT ![r] = s]
  BY <1>1, <1>3 DEF RunState
<1>5. /\ s.stage = "finish" /\ s.posts = {} /\ s.unseen = q.unseen /\ s.failed = f
      /\ s.started = q.started /\ s.auth = q.auth /\ s.api = q.api
  BY <1>1 DEF RunState
<1>6. f \in BOOLEAN /\ (~ f => ~ q.failed /\ (q.posts = {} \/ (ok /\ activationsOk)))
  BY <1>1
<1> HIDE DEF f
<1>7. s1 \in RunState
  <2>1. q \in RunState /\ "finish" \in Stages
    BY <1>1 DEF Stages
  <2> QED BY ONLY <2>1, FieldSet
<1> HIDE DEF s1
<1>8. s2 \in RunState
  BY <1>7, FieldSet
<1> HIDE DEF s2
<1>9. s \in RunState
  BY <1>6, <1>8, FlagSet
<1> HIDE DEF s
<1>10. PICK t \in RunState : t = s
  BY <1>9
<1>11. /\ t.stage = "finish" /\ t.posts = {} /\ t.unseen = q.unseen /\ t.failed = f
       /\ t.started = q.started /\ t.auth = q.auth /\ t.api = q.api
  BY <1>5, <1>10
<1>12. /\ silver \subseteq silver' /\ silver' \subseteq InScope
       /\ activations \subseteq activations' /\ activations' \subseteq InScope
       /\ raw \subseteq Shaped(Posts, "post") /\ deadLetters \subseteq Posts /\ excused \subseteq Posts
  BY <1>1, <1>2 DEF SocialInv, TypeOK
<1>13. ASSUME NEW p \in Posts, InReach(t, p)'
       PROVE  (Kept(p) \/ p \in excused \/ p \in t.unseen \/ t.failed \/ Ahead(t, p))'
  <2>1. \/ Kept(p) \/ p \in excused \/ p \in q.unseen \/ q.failed
        \/ p \in raw /\ (p \in InScope => p \in q.posts)
    BY <1>1, <1>11, <1>13 DEF InReach, RunFine, Accounted, Ahead
  <2>2. Kept(p) => Kept(p)'
    BY <1>1, <1>12 DEF Kept
  <2>3. p \in raw /\ (p \in InScope => p \in q.posts) /\ ~ f => Kept(p)'
    BY <1>1, <1>2, <1>6 DEF Kept
  <2>4. Kept(p)' \/ p \in excused' \/ p \in t.unseen \/ t.failed \/ Ahead(t, p)'
    BY <1>1, <1>6, <1>11, <2>1, <2>2, <2>3
  <2> QED BY <2>4
<1>14. RunFine(t)'
  BY <1>1, <1>11, <1>13 DEF RunFine, Staged, Accounted, Shaped
<1>15. Effect(r, t)
  BY <1>1, <1>4, <1>10, <1>11, <1>12, <1>14 DEF Effect
<1> QED BY <1>15, EffectKeeps

LEMMA FinishKeeps ==
  ASSUME SocialInv, UNCHANGED native, NEW r \in Runs, Finish(r)
  PROVE  SocialInv'
<1> DEFINE q == run[r]
<1>1. /\ q.stage = "finish" /\ End(r) /\ RunFine(q)
      /\ UNCHANGED <<native, now, published, tables>>
  BY StateOf DEF Finish
<1>2. CASE q.failed
  BY <1>1, <1>2, EndKeeps DEF Finish
<1>3. CASE ~ q.failed
  <2>1. SaveWatermark(r) /\ q.auth = {} /\ q.api = {}
    BY <1>1, <1>3 DEF Finish, RunFine, Staged
  <2>2. \A p \in Posts : InReach(q, p) => Kept(p) \/ p \in excused \/ p \in q.unseen
    BY <1>1, <1>3 DEF RunFine, Accounted, Ahead
  <2> QED BY <1>1, <2>1, <2>2, SaveKeeps
<1> QED BY <1>2, <1>3

-----------------------------------------------------------------------------
LEMMA SocialInit == Init => SocialInv
<1> SUFFICES ASSUME Init PROVE SocialInv
  OBVIOUS
<1>1. \A r \in Runs : run[r] = Idle
  BY DEF Init
<1>2. TypeOK
  BY IdleState DEF Init, TypeOK
<1>3. NothingAhead
  BY <1>1, IdleState DEF Init, NothingAhead
<1>4. NoPostLeftBehind
  BY DEF Init, NoPostLeftBehind, Passed
<1> QED BY <1>1, <1>2, <1>3, <1>4, IdleFine DEF SocialInv, Init

LEMMA SocialStep == SocialInv /\ [Next]_vars => SocialInv'
<1> SUFFICES ASSUME SocialInv, [Next]_vars PROVE SocialInv'
  OBVIOUS
<1>1. CASE UNCHANGED vars
  BY <1>1 DEF vars, SocialInv, TypeOK, NothingAhead, RunFine, Staged, Accounted, InReach, Ahead,
       NoPostLeftBehind, Passed, Kept, Shaped
<1>2. CASE Next
  <2>0. UNCHANGED native
    BY <1>2 DEF Next
  <2>1. CASE Tick
    BY <2>0, <2>1, TickKeeps
  <2>2. ASSUME NEW p \in Posts, Publish(p) PROVE SocialInv'
    BY <2>0, <2>2, PublishKeeps
  <2>3. ASSUME NEW r \in Runs, NEW mode \in {"incremental", "lookback", "backfill"}, Start(r, mode)
        PROVE  SocialInv'
    BY <2>0, <2>3, StartKeeps
  <2>4. ASSUME NEW r \in Runs, NEW h \in Handles, Answers(r, h) PROVE SocialInv'
    BY <2>0, <2>4, AnswersKeep
  <2>5. ASSUME NEW r \in Runs, NEW h \in Handles, Refuses(r, h) PROVE SocialInv'
    BY <2>0, <2>5, RefusesKeep
  <2>6. ASSUME NEW r \in Runs, NEW served \in SUBSET Handles, ReadDataset(r, served)
        PROVE  SocialInv'
    BY <2>0, <2>6, ReadDatasetKeeps
  <2>7. ASSUME NEW r \in Runs, FetchedX(r) PROVE SocialInv'
    BY <2>0, <2>7, FetchedXKeeps
  <2>8. ASSUME NEW r \in Runs, Parse(r) PROVE SocialInv'
    BY <2>0, <2>8, ParseKeeps
  <2>9. ASSUME NEW r \in Runs, Enrich(r) PROVE SocialInv'
    BY <2>0, <2>9, EnrichKeeps
  <2>10. ASSUME NEW r \in Runs, Finish(r) PROVE SocialInv'
    BY <2>0, <2>10, FinishKeeps
  <2>11. ASSUME NEW r \in Runs, Abort(r) PROVE SocialInv'
    BY <2>0, <2>11, EndKeeps DEF Abort
  <2>12. ASSUME NEW r \in Runs, NEW ok \in BOOLEAN, NEW alsoOk \in BOOLEAN, PersistRaw(r, ok, alsoOk)
         PROVE  SocialInv'
    BY <2>0, <2>12, PersistRawKeeps
  <2>13. ASSUME NEW r \in Runs, NEW ok \in BOOLEAN, NEW alsoOk \in BOOLEAN, PersistSilver(r, ok, alsoOk)
         PROVE  SocialInv'
    BY <2>0, <2>13, PersistSilverKeeps
  <2> QED BY <1>2, <2>1, <2>2, <2>3, <2>4, <2>5, <2>6, <2>7, <2>8, <2>9, <2>10, <2>11, <2>12, <2>13
       DEF Next
<1> QED BY <1>1, <1>2

(* The tables, the watermark and the records of the runs keep their types. *)
THEOREM SocialTypeCorrect == Spec => []TypeOK
<1>1. SocialInv => TypeOK
  BY DEF SocialInv
<1> QED BY <1>1, SocialInit, SocialStep, PTL DEF Spec

(* Once a watermark has passed a post that parses, the post is in raw and, *)
(* if in scope, in silver with its activations, unless the platform kept it*)
(* from the run: run_pipeline with any number of overlapping, failing and  *)
(* dying runs.                                                             *)
THEOREM NothingLeftBehind == Spec => []NoPostLeftBehind
<1>1. SocialInv => NoPostLeftBehind
  BY DEF SocialInv
<1> QED BY <1>1, SocialInit, SocialStep, PTL DEF Spec

-----------------------------------------------------------------------------
(* Extrema of small sets.                                                  *)
LEMMA MinOfTwo ==
  ASSUME NEW a \in Int, NEW b \in Int
  PROVE  Min({a, b}) = IF a <= b THEN a ELSE b
<1> DEFINE m == IF a <= b THEN a ELSE b
<1>1. m \in {a, b} /\ \A y \in {a, b} : m <= y
  OBVIOUS
<1>2. Min({a, b}) \in {a, b} /\ \A y \in {a, b} : Min({a, b}) <= y
  BY <1>1 DEF Min
<1> QED BY <1>1, <1>2

LEMMA MaxOfThree ==
  ASSUME NEW a \in Int, NEW b \in Int, NEW c \in Int
  PROVE  Max({a, b, c}) \in Int /\ \A y \in {a, b, c} : Max({a, b, c}) >= y
<1>1. \E m \in {a, b, c} : \A y \in {a, b, c} : m >= y
  OBVIOUS
<1> QED BY <1>1 DEF Max

MostTries == Max({StartTries, PollTries, PageTries})

LEMMA Limits ==
  /\ MostTries \in Nat /\ \A call \in {"start", "poll", "page"} : Tries(call) \in 0..MostTries
  /\ LongestInterval \in Nat
  /\ FirstInterval \in 0..LongestInterval /\ LastInterval \in 0..LongestInterval
BY ApifyAssumption, MaxOfTwo, MaxOfThree DEF MostTries, LongestInterval, Tries

LEMMA FreshTries == 0 \in 0..Max({StartTries, PollTries, PageTries})
BY Limits DEF MostTries

-----------------------------------------------------------------------------
(* The inductive invariant.  A client reads pages of a run that succeeded  *)
(* only, never past its end, and counts from the first item; it sleeps     *)
(* only while its time is not over.  A breaker counts the failures since   *)
(* the last success, is closed only below the threshold, and is half open  *)
(* only while its platform runs.                                           *)
RemoteType == [status : {"none", "RUNNING"} \cup Terminal, items : 0..MaxItems]

Sound(c, r) ==
  /\ c.offset <= r.items
  /\ c.call \in {"start", "poll"} => c.offset = 0
  /\ c.call = "page" => r.status = "SUCCEEDED"
  /\ c.result = "items" => r.status = "SUCCEEDED" /\ c.offset = r.items
  /\ c.call # "none" => c.result = "none" /\ (c.elapsed = 0 \/ c.elapsed < PollTimeout)

ClientsInv ==
  /\ client \in [Platforms -> ClientType]
  /\ remote \in [Platforms -> RemoteType]
  /\ \A p \in Platforms : Sound(client[p], remote[p])

Counts(b, failures) ==
  /\ b.failures = failures
  /\ b.state = "closed" => failures < Threshold

BreakersInv ==
  /\ thread \in [Platforms -> {"none", "running"} \cup Results]
  /\ breaker \in [Platforms -> BreakerType]
  /\ streak \in [Platforms -> Nat]
  /\ \A p \in Platforms :
       /\ Counts(breaker[p], streak[p])
       /\ breaker[p].state = "half_open" => thread[p] = "running"

FanoutInv ==
  /\ ClientsInv /\ BreakersInv
  /\ clock \in Nat /\ attempt \in 0..Attempts
  /\ attempt = 0 => \A p \in Platforms : thread[p] = "none"

-----------------------------------------------------------------------------
(* The client.                                                             *)
LEMMA OneClient ==
  ASSUME ClientsInv, NEW p \in Platforms, NEW c \in ClientType, NEW r \in RemoteType,
         Sound(c, r), client' = [client EXCEPT ![p] = c],
         remote' = [remote EXCEPT ![p] = r] \/ (remote' = remote /\ r = remote[p])
  PROVE  ClientsInv'
BY DEF ClientsInv, Sound

LEMMA NewIsSound ==
  /\ NewClient \in ClientType /\ NoRun \in RemoteType
  /\ Sound(NewClient, NoRun) /\ NewClient.result = "none"
  /\ Sound([NewClient EXCEPT !.call = "start"], NoRun)
  /\ [NewClient EXCEPT !.call = "start"] \in ClientType
BY ApifyAssumption, Limits
   DEF NewClient, NoRun, ClientType, RemoteType, Sound, MostTries

LEMMA BeginAndDiscard ==
  ASSUME ClientsInv, NEW p \in Platforms, RunActor(p) \/ Discard(p)
  PROVE  ClientsInv'
<1>1. CASE RunActor(p)
  BY <1>1, OneClient, NewIsSound DEF RunActor, ClientBecomes
<1>2. CASE Discard(p)
  BY <1>2, OneClient, NewIsSound DEF Discard, ClientBecomes
<1> QED BY <1>1, <1>2

(* The steps of a client that is at work.                                  *)
LEMMA EndIsSound ==
  ASSUME ClientsInv, NEW p \in Platforms, NEW result \in {"ApifyError", "crashed"}
  PROVE  Ends(p, result) \in ClientType /\ Sound(Ends(p, result), remote[p])
<1>1. client[p] \in ClientType /\ Sound(client[p], remote[p])
  BY DEF ClientsInv
<1>2. Ends(p, result) \in ClientType
  BY <1>1 DEF ClientType, Ends
<1>3. /\ Ends(p, result).call = "none" /\ Ends(p, result).result = result
      /\ Ends(p, result).offset = client[p].offset
  BY <1>1 DEF ClientType, Ends
<1> QED BY <1>1, <1>2, <1>3 DEF Sound

LEMMA StartedKeeps ==
  ASSUME ClientsInv, NEW p \in Platforms, Started(p)
  PROVE  ClientsInv'
<1> DEFINE c == Then(p, "poll")
           r == [remote[p] EXCEPT !.status = "RUNNING"]
<1>1. client[p] \in ClientType /\ remote[p] \in RemoteType /\ Sound(client[p], remote[p])
  BY DEF ClientsInv
<1>2. client' = [client EXCEPT ![p] = c] /\ remote' = [remote EXCEPT ![p] = r]
  BY DEF Started, ClientBecomes
<1>3. c \in ClientType /\ r \in RemoteType
  BY <1>1, FreshTries DEF Then, ClientType, RemoteType, Terminal
<1>4. Sound(c, r)
  BY <1>1 DEF Started, Calling, Then, Sound, ClientType, RemoteType
<1> QED BY <1>2, <1>3, <1>4, OneClient

LEMMA CallFailsKeeps ==
  ASSUME ClientsInv, NEW p \in Platforms, CallFails(p)
  PROVE  ClientsInv'
<1>1. client[p] \in ClientType /\ remote[p] \in RemoteType /\ Sound(client[p], remote[p])
  BY DEF ClientsInv
<1>2. Retried(p) \in ClientType /\ Sound(Retried(p), remote[p])
  <2>1. CASE client[p].tries + 1 < Tries(client[p].call)
    <3> DEFINE c == [client[p] EXCEPT !.tries = @ + 1]
    <3>1. client[p].tries \in Nat /\ client[p].tries + 1 \in 0..MostTries
      BY <1>1, <2>1, Limits DEF CallFails, ClientType, MostTries
    <3>2. c \in ClientType
      BY <1>1, <3>1 DEF ClientType, MostTries
    <3>3. Sound(c, remote[p])
      BY <1>1 DEF Sound, ClientType
    <3> QED BY <2>1, <3>2, <3>3 DEF Retried
  <2>2. CASE ~ client[p].tries + 1 < Tries(client[p].call)
    BY <2>2, EndIsSound DEF Retried
  <2> QED BY <2>1, <2>2
<1>3. PICK c \in {Retried(p), Ends(p, "ApifyError"), Ends(p, "crashed")} :
        client' = [client EXCEPT ![p] = c]
  BY DEF CallFails, ClientBecomes
<1>4. c \in ClientType /\ Sound(c, remote[p])
  BY <1>2, <1>3, EndIsSound
<1> QED BY <1>1, <1>3, <1>4, OneClient DEF CallFails

LEMMA WaitsIsSound ==
  ASSUME ClientsInv, NEW p \in Platforms, Calling(p, "poll")
  PROVE  Waits(p) \in ClientType /\ Sound(Waits(p), remote[p])
<1> DEFINE c == client[p]
           elapsed == c.elapsed + c.interval
           next == Min({c.interval + 2, LastInterval})
<1>1. c \in ClientType /\ remote[p] \in RemoteType /\ Sound(c, remote[p])
  BY DEF ClientsInv
<1>2. c.interval \in 0..LongestInterval /\ c.elapsed \in Nat
  BY <1>1, Limits, ApifyAssumption DEF ClientType
<1>3. elapsed \in 0..(PollTimeout + LongestInterval)
  BY <1>1, <1>2, Limits, ApifyAssumption DEF Calling, Sound
<1>4. next \in 0..LongestInterval
  <2>1. next = IF c.interval + 2 <= LastInterval THEN c.interval + 2 ELSE LastInterval
    BY <1>2, ApifyAssumption, MinOfTwo, Limits
  <2> QED BY <2>1, <1>2, Limits, ApifyAssumption
<1>5. CASE elapsed < PollTimeout
  <2> DEFINE d == [c EXCEPT !.tries = 0, !.elapsed = elapsed, !.interval = next]
  <2>1. Waits(p) = d
    BY <1>1, <1>5 DEF Waits, ClientType
  <2> HIDE DEF elapsed, next
  <2>2. d \in ClientType
    BY <1>1, <1>3, <1>4, FreshTries DEF ClientType
  <2>3. Sound(d, remote[p])
    BY <1>1, <1>5 DEF Sound, ClientType
  <2> QED BY <2>1, <2>2, <2>3
<1>6. CASE ~ elapsed < PollTimeout
  <2> DEFINE d == [Ends(p, "ApifyError") EXCEPT !.elapsed = elapsed]
  <2>1. Waits(p) = d
    BY <1>6 DEF Waits
  <2>2. Ends(p, "ApifyError") \in ClientType /\ Ends(p, "ApifyError").call = "none"
        /\ Sound(Ends(p, "ApifyError"), remote[p])
    BY EndIsSound, <1>1 DEF Ends, ClientType
  <2> HIDE DEF elapsed
  <2>3. d \in ClientType /\ Sound(d, remote[p])
    BY <2>2, <1>3 DEF ClientType, Sound
  <2> QED BY <2>1, <2>3
<1> QED BY <1>5, <1>6

LEMMA PolledKeeps ==
  ASSUME ClientsInv, NEW p \in Platforms, Polled(p)
  PROVE  ClientsInv'
<1>1. client[p] \in ClientType /\ remote[p] \in RemoteType /\ Sound(client[p], remote[p])
  BY DEF ClientsInv
<1>2. client' = [client EXCEPT ![p] = PolledOnce(p)] /\ remote' = remote
      /\ client[p].call = "poll"
  BY DEF Polled, ClientBecomes, Calling
<1>3. CASE remote[p].status = "SUCCEEDED"
  <2>1. PolledOnce(p) = Then(p, "page")
    BY <1>3 DEF PolledOnce
  <2>2. Then(p, "page") \in ClientType
    BY <1>1, FreshTries DEF Then, ClientType
  <2>3. Sound(Then(p, "page"), remote[p])
    BY <1>1, <1>2, <1>3 DEF Then, Sound, ClientType
  <2> QED BY <1>1, <1>2, <2>1, <2>2, <2>3, OneClient
<1>4. CASE remote[p].status = "FAILED"
  <2>1. PolledOnce(p) = Ends(p, "ApifyError")
    BY <1>4 DEF PolledOnce
  <2> QED BY <1>1, <1>2, <2>1, EndIsSound, OneClient
<1>5. CASE remote[p].status \notin {"SUCCEEDED", "FAILED"}
  <2>1. PolledOnce(p) = Waits(p)
    BY <1>5 DEF PolledOnce
  <2>2. Waits(p) \in ClientType /\ Sound(Waits(p), remote[p])
    BY WaitsIsSound DEF Polled
  <2> QED BY <1>1, <1>2, <2>1, <2>2, OneClient
<1> QED BY <1>3, <1>4, <1>5

(* A short page ends at the last item.                                     *)
LEMMA GotPageKeeps ==
  ASSUME ClientsInv, NEW p \in Platforms, GotPage(p)
  PROVE  ClientsInv'
<1> DEFINE n == PageLength(p)
           c == [client[p] EXCEPT !.tries = 0, !.offset = @ + n]
           d == [c EXCEPT !.call = "none", !.result = "items"]
           left == remote[p].items - client[p].offset
<1>1. client[p] \in ClientType /\ remote[p] \in RemoteType /\ Sound(client[p], remote[p])
  BY DEF ClientsInv
<1>2. client' = [client EXCEPT ![p] = IF LastPage(p, n) THEN d ELSE c] /\ remote' = remote
      /\ client[p].call = "page"
  BY DEF GotPage, ClientBecomes, Calling
<1>3. left \in Nat /\ client[p].offset \in Nat /\ remote[p].items \in 0..MaxItems
  BY <1>1, ApifyAssumption DEF ClientType, RemoteType, Sound
<1>4. n = IF PageSize <= left THEN PageSize ELSE left
  BY <1>3, ApifyAssumption, MinOfTwo DEF PageLength
<1>5. n \in 0..left /\ (LastPage(p, n) => n = left)
  BY <1>3, <1>4, ApifyAssumption DEF LastPage
<1>6. client[p].offset + n \in 0..MaxItems /\ client[p].offset + n <= remote[p].items
      /\ (LastPage(p, n) => client[p].offset + n = remote[p].items)
  BY <1>3, <1>5, ApifyAssumption
<1> HIDE DEF n
<1>7. c \in ClientType
  BY <1>1, <1>6, FreshTries DEF ClientType
<1>8. Sound(c, remote[p])
  BY <1>1, <1>2, <1>6 DEF Sound, ClientType
<1>9. d \in ClientType
  BY <1>7 DEF ClientType
<1>10. LastPage(p, n) => Sound(d, remote[p])
  BY <1>1, <1>2, <1>6 DEF Sound, ClientType
<1>11. CASE LastPage(p, n)
  BY <1>1, <1>2, <1>9, <1>10, <1>11, OneClient
<1>12. CASE ~ LastPage(p, n)
  BY <1>1, <1>2, <1>7, <1>8, <1>12, OneClient
<1> QED BY <1>11, <1>12

LEMMA ScrapesKeeps ==
  ASSUME ClientsInv, NEW p \in Platforms, Scrapes(p)
  PROVE  ClientsInv'
<1>1. client[p] \in ClientType /\ remote[p] \in RemoteType /\ Sound(client[p], remote[p])
  BY DEF ClientsInv
<1>2. client[p].call # "page" /\ client[p].result # "items"
  BY <1>1 DEF Scrapes, Sound
<1>3. CASE remote[p].items < MaxItems
           /\ remote' = [remote EXCEPT ![p].items = @ + 1] /\ client' = client
  <2> DEFINE r == [remote[p] EXCEPT !.items = @ + 1]
  <2>1. r \in RemoteType
    BY <1>1, <1>3, ApifyAssumption DEF RemoteType
  <2>2. Sound(client[p], r)
    BY <1>1, <1>2 DEF Sound, RemoteType, ClientType
  <2>3. client' = [client EXCEPT ![p] = client[p]] /\ remote' = [remote EXCEPT ![p] = r]
    BY <1>3 DEF ClientsInv
  <2> QED BY <1>1, <2>1, <2>2, <2>3, OneClient
<1>4. CASE /\ \E status \in Terminal : remote' = [remote EXCEPT ![p].status = status]
           /\ client' = client
  <2>1. PICK status \in Terminal : remote' = [remote EXCEPT ![p].status = status]
    BY <1>4
  <2> DEFINE r == [remote[p] EXCEPT !.status = status]
  <2>2. r \in RemoteType
    BY <1>1 DEF RemoteType
  <2>3. Sound(client[p], r)
    BY <1>1, <1>2 DEF Sound, RemoteType, ClientType
  <2>4. client' = [client EXCEPT ![p] = client[p]] /\ remote' = [remote EXCEPT ![p] = r]
    BY <1>4, <2>1 DEF ClientsInv
  <2> QED BY <1>1, <2>2, <2>3, <2>4, OneClient
<1> QED BY <1>3, <1>4 DEF Scrapes

LEMMA ActorKeeps ==
  ASSUME ClientsInv, NEW p \in Platforms, ApifyStep(p) \/ Scrapes(p)
  PROVE  ClientsInv'
BY StartedKeeps, CallFailsKeeps, PolledKeeps, GotPageKeeps, ScrapesKeeps DEF ApifyStep

-----------------------------------------------------------------------------
(* The breakers.                                                           *)
LEMMA OneThread ==
  ASSUME BreakersInv, NEW p \in Platforms, NEW b \in BreakerType, NEW n \in Nat,
         NEW state \in {"none", "running"} \cup Results,
         Counts(b, n), b.state = "half_open" => state = "running",
         thread' = [thread EXCEPT ![p] = state], breaker' = [breaker EXCEPT ![p] = b],
         streak' = [streak EXCEPT ![p] = n]
  PROVE  BreakersInv'
BY DEF BreakersInv

LEMMA LaunchKeeps ==
  ASSUME FanoutInv, NEW p \in Platforms, Launch(p)
  PROVE  FanoutInv'
<1> DEFINE b == breaker[p]
           c == Asked(b, clock)
<1>1. b \in BreakerType /\ Counts(b, streak[p]) /\ b.state # "half_open"
      /\ streak[p] \in Nat /\ attempt > 0
  BY DEF FanoutInv, BreakersInv, Launch
<1>2. breaker' = [breaker EXCEPT ![p] = c]
  BY DEF Launch
<1>3. PICK state \in {"running", "circuit_breaker_open"} :
        /\ thread' = [thread EXCEPT ![p] = state]
        /\ Allows(b, clock) <=> state = "running"
  BY DEF Launch
<1>4. c \in BreakerType /\ Counts(c, streak[p]) /\ (c.state = "half_open" => state = "running")
  <2>1. CASE b.state = "open" /\ Allows(b, clock)
    <3>1. c = [b EXCEPT !.state = "half_open", !.probes = 0]
      BY <2>1 DEF Asked
    <3>2. 0 \in 0..HalfOpenMaxCalls
      BY BreakerAssumption
    <3>3. c \in BreakerType
      BY <3>1, <3>2, <1>1 DEF BreakerType
    <3>4. c.state = "half_open" /\ c.failures = b.failures
      BY <3>1, <1>1 DEF BreakerType
    <3> HIDE DEF c
    <3> QED BY <3>3, <3>4, <2>1, <1>1, <1>3 DEF Counts
  <2>2. CASE ~ (b.state = "open" /\ Allows(b, clock))
    BY <2>2, <1>1 DEF Asked
  <2> QED BY <2>1, <2>2
<1>5. BreakersInv'
  <2>1. streak' = [streak EXCEPT ![p] = streak[p]]
    BY DEF Launch, FanoutInv, BreakersInv
  <2> HIDE DEF c
  <2> QED BY <1>1, <1>2, <1>3, <1>4, <2>1, OneThread DEF FanoutInv, Results
<1>6. ClientsInv'
  <2>1. CASE RunActor(p)
    BY <2>1, BeginAndDiscard DEF FanoutInv
  <2>2. CASE UNCHANGED apify
    BY <2>2 DEF FanoutInv, ClientsInv, apify
  <2> QED BY <2>1, <2>2 DEF Launch
<1> QED BY <1>5, <1>6 DEF Launch, FanoutInv

LEMMA SucceedsKeeps ==
  ASSUME FanoutInv, NEW p \in Platforms, Succeeds(p)
  PROVE  FanoutInv'
<1> DEFINE b == OnSuccess(breaker[p])
<1>1. breaker[p] \in BreakerType
  BY DEF FanoutInv, BreakersInv
<1>2. b \in BreakerType /\ Counts(b, 0) /\ b.state # "half_open"
  <2>1. b \in BreakerType /\ b.state = "closed" /\ b.failures = 0
    BY <1>1 DEF OnSuccess, BreakerType
  <2>2. 0 < Threshold
    BY BreakerAssumption
  <2> HIDE DEF b
  <2> QED BY <2>1, <2>2 DEF Counts
<1>3. /\ thread' = [thread EXCEPT ![p] = "success"]
      /\ breaker' = [breaker EXCEPT ![p] = b]
      /\ streak' = [streak EXCEPT ![p] = 0]
  BY DEF Succeeds, FanoutInv, BreakersInv
<1> HIDE DEF b
<1>4. BreakersInv'
  BY <1>2, <1>3, OneThread DEF FanoutInv, Results
<1>5. ClientsInv'
  BY BeginAndDiscard DEF Succeeds, FanoutInv
<1>6. attempt # 0
  BY DEF Succeeds, Returned, FanoutInv
<1> QED BY <1>4, <1>5, <1>6 DEF Succeeds, FanoutInv

LEMMA FailsKeeps ==
  ASSUME FanoutInv, NEW p \in Platforms, Fails(p)
  PROVE  FanoutInv'
<1> DEFINE b == breaker[p]
           c == OnFailure(b, clock)
<1>1. b \in BreakerType /\ Counts(b, streak[p]) /\ streak[p] \in Nat /\ clock \in Nat
  BY DEF FanoutInv, BreakersInv
<1>2. b.failures = streak[p] /\ b.failures + 1 \in Nat
  BY <1>1 DEF Counts
<1>3. /\ c \in BreakerType /\ c.failures = streak[p] + 1
      /\ c.state = IF ShouldOpen(b) THEN "open" ELSE b.state
  <2>1. c = [b EXCEPT !.failures = b.failures + 1, !.failedAt = clock,
                      !.state = IF ShouldOpen(b) THEN "open" ELSE b.state]
    BY DEF OnFailure
  <2> DEFINE s == IF ShouldOpen(b) THEN "open" ELSE b.state
             n == b.failures + 1
  <2>2. s \in {"closed", "open", "half_open"} /\ n \in Nat /\ n = streak[p] + 1
    BY <1>1, <1>2 DEF BreakerType
  <2>3. c = [b EXCEPT !.failures = n, !.failedAt = clock, !.state = s]
    BY <2>1
  <2> HIDE DEF s, n, c
  <2>4. c \in BreakerType /\ c.failures = n /\ c.state = s
    BY <1>1, <2>2, <2>3 DEF BreakerType
  <2> QED BY <2>2, <2>4 DEF s
<1>4. c \in BreakerType /\ Counts(c, streak[p] + 1) /\ c.state # "half_open"
  <2> HIDE DEF c
  <2>1. ~ ShouldOpen(b) => b.state # "half_open" /\ streak[p] + 1 < Threshold
    BY <1>1, <1>2, BreakerAssumption DEF ShouldOpen
  <2> QED BY <1>1, <1>3, <2>1 DEF Counts
<1>5. /\ thread' = [thread EXCEPT ![p] = "failed"]
      /\ breaker' = [breaker EXCEPT ![p] = c]
      /\ streak' = [streak EXCEPT ![p] = streak[p] + 1]
  BY DEF Fails, FanoutInv, BreakersInv
<1> HIDE DEF c
<1>6. BreakersInv'
  <2> DEFINE n == streak[p] + 1
  <2>1. n \in Nat /\ Counts(c, n) /\ streak' = [streak EXCEPT ![p] = n]
    BY <1>1, <1>4, <1>5
  <2> HIDE DEF n
  <2> QED BY <2>1, <1>4, <1>5, OneThread DEF FanoutInv, Results
<1>7. ClientsInv'
  BY BeginAndDiscard DEF Fails, FanoutInv
<1>8. attempt # 0
  BY DEF Fails, Returned, FanoutInv
<1> QED BY <1>6, <1>7, <1>8 DEF Fails, FanoutInv

LEMMA RunAllKeeps == ASSUME FanoutInv, RunAllPlatforms PROVE FanoutInv'
<1>1. attempt \in Nat /\ attempt' = attempt + 1 /\ attempt' \in 0..Attempts
  BY FanoutAssumption DEF FanoutInv, RunAllPlatforms
<1>2. ClientsInv'
  BY DEF FanoutInv, RunAllPlatforms, ClientsInv, apify
<1>3. \A p \in Platforms : thread[p] # "running"
  BY DEF RunAllPlatforms, AtBarrier, Results, FanoutInv
<1>4. BreakersInv'
  BY <1>3 DEF RunAllPlatforms, FanoutInv, BreakersInv
<1> QED BY <1>1, <1>2, <1>4 DEF FanoutInv, RunAllPlatforms

-----------------------------------------------------------------------------
LEMMA InitFanout == FanoutInit => FanoutInv
<1> SUFFICES ASSUME FanoutInit PROVE FanoutInv
  OBVIOUS
<1> USE DEF FanoutInit
<1>1. ClientsInv
  BY NewIsSound DEF ClientsInv
<1>2. NewBreaker \in BreakerType /\ Counts(NewBreaker, 0) /\ NewBreaker.state # "half_open"
  BY BreakerAssumption DEF NewBreaker, BreakerType, Counts
<1>3. BreakersInv
  BY <1>2 DEF BreakersInv
<1> QED BY <1>1, <1>3, FanoutAssumption DEF FanoutInv

LEMMA NextFanout == FanoutInv /\ [FanoutNext]_fanoutVars => FanoutInv'
<1> SUFFICES ASSUME FanoutInv, [FanoutNext]_fanoutVars PROVE FanoutInv'
  OBVIOUS
<1>1. CASE FanoutTick
  BY <1>1 DEF FanoutTick, apify, FanoutInv, ClientsInv, BreakersInv
<1>2. CASE RunAllPlatforms
  BY <1>2, RunAllKeeps
<1>3. ASSUME NEW p \in Platforms, Launch(p) \/ ActorStep(p) \/ Succeeds(p) \/ Fails(p)
      PROVE  FanoutInv'
  <2>1. CASE ActorStep(p)
    <3>1. ClientsInv'
      BY <2>1, ActorKeeps DEF ActorStep, FanoutInv
    <3> QED BY <2>1, <3>1 DEF ActorStep, FanoutInv, BreakersInv
  <2> QED BY <1>3, <2>1, LaunchKeeps, SucceedsKeeps, FailsKeeps
<1>4. CASE UNCHANGED fanoutVars
  BY <1>4 DEF fanoutVars, apify, FanoutInv, ClientsInv, BreakersInv
<1> QED BY <1>1, <1>2, <1>3, <1>4 DEF FanoutNext

LEMMA FanoutInvariant == FanoutSpec => []FanoutInv
BY InitFanout, NextFanout, PTL DEF FanoutSpec

-----------------------------------------------------------------------------
(* Every client, actor run, breaker and thread keeps its type: offsets stay*)
(* within the dataset, waiting ends within one interval of the timeout.    *)
THEOREM FanoutTypeCorrect == FanoutSpec => []FanoutTypeOK
<1>1. FanoutInv => FanoutTypeOK
  BY DEF FanoutInv, ClientsInv, BreakersInv, RemoteType, FanoutTypeOK, ApifyTypeOK
<1> QED BY <1>1, FanoutInvariant, PTL

(* Whatever is returned as a dataset is the whole one of a run that        *)
(* succeeded, for any page size, retries and times.                        *)
THEOREM DatasetsAreComplete == FanoutSpec => []ItemsAreComplete
<1>1. FanoutInv => ItemsAreComplete
  BY DEF FanoutInv, ClientsInv, Sound, ItemsAreComplete
<1> QED BY <1>1, FanoutInvariant, PTL

(* A platform that failed Threshold times in a row is not called before its*)
(* recovery timeout, in whichever attempt.                                 *)
THEOREM OpenBreakersHold == FanoutSpec => NotCalledWhileOpen
<1>1. ASSUME FanoutInv, [FanoutNext]_fanoutVars, NEW p \in Platforms,
             thread[p] = "none", thread'[p] = "running", streak[p] >= Threshold
      PROVE  clock - breaker[p].failedAt >= RecoveryTimeout
  <2>1. Launch(p)
    <3>1. ~ FanoutTick /\ ~ UNCHANGED fanoutVars
      BY <1>1 DEF FanoutTick, fanoutVars
    <3>2. ~ RunAllPlatforms
      BY <1>1 DEF RunAllPlatforms
    <3>3. PICK q \in Platforms : Launch(q) \/ ActorStep(q) \/ Succeeds(q) \/ Fails(q)
      BY <1>1, <3>1, <3>2 DEF FanoutNext
    <3>4. ~ ActorStep(q) /\ ~ Succeeds(q) /\ ~ Fails(q)
      BY <1>1 DEF ActorStep, Succeeds, Fails, FanoutInv, BreakersInv
    <3>5. q = p
      BY <1>1, <3>3, <3>4 DEF Launch, FanoutInv, BreakersInv
    <3> QED BY <3>3, <3>4, <3>5
  <2>2. Allows(breaker[p], clock)
    BY <2>1, <1>1 DEF Launch, FanoutInv, BreakersInv
  <2>3. breaker[p].state = "open"
    BY <1>1, BreakerAssumption DEF FanoutInv, BreakersInv, Counts, BreakerType
  <2> QED BY <2>2, <2>3 DEF Allows, Recovered
<1>2. FanoutInv /\ [FanoutNext]_fanoutVars =>
        [\A p \in Platforms :
           thread[p] = "none" /\ thread'[p] = "running" /\ streak[p] >= Threshold =>
             clock - breaker[p].failedAt >= RecoveryTimeout]_fanoutVars
  BY <1>1
<1> QED BY <1>2, FanoutInvariant, PTL DEF FanoutSpec, NotCalledWhileOpen
=============================================================================
