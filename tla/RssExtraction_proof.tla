------------------------ MODULE RssExtraction_proof ------------------------
(***************************************************************************)
(* Proofs about RssExtraction, for any sets of runs and URLs, any limits,  *)
(* timeouts and retry budget.                                              *)
(***************************************************************************)
EXTENDS RssExtraction, TLAPS

(* Ages stay within one above the limit they are compared with.            *)
LEMMA AgedInRange ==
  ASSUME NEW limit \in Nat, NEW age \in AgesUpTo(limit) \cup {NULL}
  PROVE  /\ Aged(age, limit) \in AgesUpTo(limit) \cup {NULL}
         /\ age # NULL => Aged(age, limit) \in AgesUpTo(limit)
  BY NullAssumption DEF Aged, AgesUpTo

(* What one statement makes of a row is a row.                             *)
LEMMA RowOperations ==
  ASSUME NEW r \in RowType, NEW more \in BOOLEAN
  PROVE  /\ AbsentRow \in RowType
         /\ Inserted \in RowType
         /\ Claimed(r) \in RowType
         /\ Completed(r) \in RowType
         /\ Failed(r) \in RowType
         /\ Deferred(r, more) \in RowType
         /\ Reset(r) \in RowType
         /\ Recirculated(r) \in RowType
         /\ Banned(r) \in RowType
         /\ Older(r) \in RowType
<1> USE LimitAssumption DEF RowType, Statuses, Row
<1>1. /\ 0 \in 0 .. AttemptCap
      /\ AttemptCap \in 0 .. AttemptCap
      /\ Bumped(r.attempts) \in 0 .. AttemptCap
      /\ GivenBack(r.attempts, more) \in 0 .. AttemptCap
  BY DEF Bumped, GivenBack
<1>2. \A limit \in Nat : 0 \in AgesUpTo(limit)
  BY DEF AgesUpTo
<1>3. /\ Aged(r.claimAge, StaleTimeout) \in AgesUpTo(StaleTimeout) \cup {NULL}
      /\ Aged(r.updateAge, RecircTtl) \in AgesUpTo(RecircTtl)
      /\ Aged(r.recircAge, RecircTtl) \in AgesUpTo(RecircTtl) \cup {NULL}
  <2> USE DEF AgesUpTo
  <2>1. /\ r.claimAge \in AgesUpTo(StaleTimeout) \cup {NULL}
        /\ r.updateAge \in AgesUpTo(RecircTtl) /\ r.updateAge # NULL
        /\ r.recircAge \in AgesUpTo(RecircTtl) \cup {NULL}
    BY NullAssumption
  <2> HIDE DEF AgesUpTo, RowType, Statuses, Row
  <2>2. Aged(r.claimAge, StaleTimeout) \in AgesUpTo(StaleTimeout) \cup {NULL}
    BY <2>1, AgedInRange
  <2>3. Aged(r.updateAge, RecircTtl) \in AgesUpTo(RecircTtl)
    BY <2>1, AgedInRange
  <2>4. Aged(r.recircAge, RecircTtl) \in AgesUpTo(RecircTtl) \cup {NULL}
    BY <2>1, AgedInRange
  <2> QED BY <2>2, <2>3, <2>4
<1> QED
  BY <1>1, <1>2, <1>3
  DEF AbsentRow, Inserted, Claimed, Completed, Failed, Deferred, Reset,
      Recirculated, Banned, Older

LEMMA ForgetKeepsType ==
  ASSUME TypeOK, NEW w \in Runs, Forget(w)
  PROVE  TypeOK'
<1> USE DEF TypeOK, FrontierTypeOK, Forget, Goto, Stages, frontierVars
<1>1. runAge' = [x \in Runs |-> IF x = w THEN 0 ELSE runAge[x]]
  OBVIOUS
<1>2. runAge' \in [Runs -> Nat] /\ \A x \in Runs : runAge'[x] <= RunTimeout[x]
  BY <1>1, RunAssumption
<1>3. /\ held' \in [Runs -> SUBSET Urls] /\ discovered' \in [Runs -> SUBSET Urls]
      /\ ok' \in [Runs -> SUBSET Urls] /\ bad' \in [Runs -> SUBSET Urls]
  OBVIOUS
<1> QED BY <1>2, <1>3

LEMMA TypeInductive ==
  ASSUME TypeOK, [Next]_vars
  PROVE  TypeOK'
<1> USE DEF TypeOK, FrontierTypeOK
<1>1. ASSUME Tick PROVE TypeOK'
  <2> USE <1>1 DEF Tick, Grow
  <2>1. rows' \in [Urls -> RowType]
    BY RowOperations DEF Rewrite
  <2>2. pubAge' \in [Urls -> AgesUpTo(PurgeTtl) \cup {NULL}]
    BY AgedInRange, LimitAssumption
  <2>3. runAge' \in [Runs -> Nat] /\ \A w \in Runs : runAge'[w] <= RunTimeout[w]
    BY RunAssumption
  <2> QED BY <2>1, <2>2, <2>3
<1>2. ASSUME NEW w \in Runs, Step(w) PROVE TypeOK'
  <2> USE DEF Goto, Stages
  <2>1. CASE Start(w)
    <3> USE <2>1 DEF Start, frontierVars
    <3>0. runAge' = [x \in Runs |-> IF x = w THEN 0 ELSE runAge[x]]
      OBVIOUS
    <3>1. runAge' \in [Runs -> Nat] /\ \A x \in Runs : runAge'[x] <= RunTimeout[x]
      BY <3>0, RunAssumption
    <3>2. discovered' \in [Runs -> SUBSET Urls]
      OBVIOUS
    <3> QED BY <3>1, <3>2
  <2>2. CASE Deactivate(w)
    BY <2>2, RowOperations DEF Deactivate, DeactivateUol, Rewrite
  <2>3. CASE ResetStale(w)
    BY <2>3, RowOperations DEF ResetStale, ResetStaleInProgress, Rewrite
  <2>4. CASE Purge(w)
    BY <2>4, RowOperations DEF Purge, PurgeOldPending
  <2>5. CASE Add(w)
    <3> USE <2>5 DEF Add, AddUrls
    <3>1. rows' \in [Urls -> RowType]
      BY RowOperations
    <3>2. fails' \in [Urls -> Nat]
      OBVIOUS
    <3>3. discovered' \in [Runs -> SUBSET Urls]
      OBVIOUS
    <3> QED BY <3>1, <3>2, <3>3
  <2>6. CASE Pending(w)
    BY <2>6, RowOperations DEF Pending, GetPending, Rewrite, AfterPending
  <2>7. CASE Recirculate(w)
    BY <2>7, RowOperations DEF Recirculate, RecirculateStale, Rewrite
  <2>8. CASE Scrape(w)
    BY <2>8 DEF Scrape, frontierVars
  <2>9. CASE MarkCompleted(w)
    BY <2>9, RowOperations DEF MarkCompleted, MarkCompletedBatch, Rewrite
  <2>10. CASE MarkFailed(w)
    BY <2>10, RowOperations DEF MarkFailed, MarkFailedBatch, Rewrite
  <2>11. CASE MarkDeferred(w)
    <3>1. PICK more \in BOOLEAN :
            rows' = [u \in Urls |-> IF u \in Stored(held[w])
                                   THEN Deferred(rows[u], more) ELSE rows[u]]
      BY <2>11 DEF MarkDeferred, MarkDeferredBatch, Rewrite
    <3>2. rows' \in [Urls -> RowType]
      BY <3>1, RowOperations
    <3> QED BY <2>11, <3>2 DEF MarkDeferred, MarkDeferredBatch
  <2>12. CASE Retry(w)
    BY <2>12, RowOperations DEF Retry, GetRetryable, Rewrite
  <2>13. CASE Finish(w)
    BY <2>13, ForgetKeepsType DEF Finish
  <2> QED
    BY <1>2, <2>1, <2>2, <2>3, <2>4, <2>5, <2>6, <2>7, <2>8, <2>9, <2>10,
       <2>11, <2>12, <2>13 DEF Step
<1>3. ASSUME NEW w \in Runs, Kill(w) PROVE TypeOK'
  BY <1>3, ForgetKeepsType DEF Kill
<1>4. CASE UNCHANGED vars
  BY <1>4 DEF vars, frontierVars, runVars
<1> QED BY <1>1, <1>2, <1>3, <1>4 DEF Next

LEMMA TypeAtStart == Init => TypeOK
  BY LimitAssumption, RunAssumption
  DEF Init, FrontierInit, TypeOK, FrontierTypeOK, AbsentRow, Row, RowType, Statuses,
      AgesUpTo, Stages

(* Every variable keeps its type; in particular an age never runs past the *)
(* limit it is compared with, and a run never outlives its timeout.        *)
THEOREM TypeCorrect == Spec => []TypeOK
<1>1. Init => TypeOK
  BY TypeAtStart
<1>2. TypeOK /\ [Next]_vars => TypeOK'
  BY TypeInductive
<1> QED BY <1>1, <1>2, PTL DEF Spec

-----------------------------------------------------------------------------
(* Exclusive claims.  A claim is younger than the run that holds it, and a *)
(* run does not outlive the stale timeout: reset_stale_in_progress never   *)
(* takes back what a live run holds.                                       *)
TimelyRuns == \A w \in Runs : RunTimeout[w] <= StaleTimeout

Settling == {"scrape", "markCompleted", "markFailed", "markDeferred"}

HeldWhileSettling == \A w \in Runs : held[w] # {} => pc[w] \in Settling

\* mark_completed_batch and mark_failed_batch empty their lists.
Fated(w) ==
  /\ ok[w] \subseteq held[w] /\ bad[w] \subseteq held[w] \ ok[w]
  /\ ok[w] # {} => pc[w] = "markCompleted"
  /\ bad[w] # {} => pc[w] \in {"markCompleted", "markFailed"}

FatesAreHeld == \A w \in Runs : Fated(w)

ClaimsAreFresh ==
  \A w \in Runs : \A u \in held[w] \ UolUrls :
    /\ rows[u].status = "in_progress"
    /\ rows[u].claimAge # NULL
    /\ rows[u].claimAge <= runAge[w]

Ownership ==
  TypeOK /\ HeldWhileSettling /\ FatesAreHeld /\ ClaimsAreFresh /\ NoDoubleScrape

(* An ordinary row that another run's statement leaves in_progress with    *)
(* its claim untouched stays owned.                                        *)
LEMMA OwnedRowsKept ==
  ASSUME Ownership, TypeOK', NEW w \in Runs,
         \A x \in Runs \ {w} : held'[x] = held[x] /\ pc'[x] = pc[x]
                               /\ ok'[x] = ok[x] /\ bad'[x] = bad[x]
                               /\ runAge'[x] = runAge[x],
         \A x \in Runs \ {w} : \A u \in held[x] \ UolUrls : rows'[u] = rows[u],
         held'[w] # {} => pc'[w] \in Settling,
         Fated(w)',
         \A u \in held'[w] \ UolUrls :
           /\ rows'[u].status = "in_progress"
           /\ rows'[u].claimAge # NULL
           /\ rows'[u].claimAge <= runAge'[w],
         \A u \in held'[w] \ UolUrls : \A x \in Runs \ {w} : u \notin held[x]
  PROVE  Ownership'
<1>1. HeldWhileSettling'
  BY DEF Ownership, HeldWhileSettling
<1>2. FatesAreHeld'
  BY DEF Ownership, FatesAreHeld, Fated
<1>3. ClaimsAreFresh'
  BY DEF Ownership, ClaimsAreFresh, TypeOK
<1>4. NoDoubleScrape'
  BY DEF Ownership, NoDoubleScrape
<1> QED BY <1>1, <1>2, <1>3, <1>4 DEF Ownership

(* A step of a run that holds nothing, before it or after it.              *)
LEMMA UnheldStep ==
  ASSUME Ownership, TypeOK', NEW w \in Runs,
         \A x \in Runs \ {w} : held'[x] = held[x] /\ pc'[x] = pc[x]
                               /\ ok'[x] = ok[x] /\ bad'[x] = bad[x]
                               /\ runAge'[x] = runAge[x],
         \A x \in Runs \ {w} : \A u \in held[x] \ UolUrls : rows'[u] = rows[u],
         held'[w] = {}, ok'[w] = {}, bad'[w] = {}
  PROVE  Ownership'
<1>1. Fated(w)'
  BY DEF Fated
<1> QED BY <1>1, OwnedRowsKept

(* A run that claims rows nobody had in progress owns them.                *)
LEMMA ClaimedByRun ==
  ASSUME Ownership, TypeOK', NEW w \in Runs, held[w] = {}, ok[w] = {}, bad[w] = {},
         NEW S \in SUBSET Urls,
         \A u \in S : rows[u].status # "in_progress",
         rows' = [u \in Urls |-> IF u \in S THEN Claimed(rows[u]) ELSE rows[u]],
         held' = [held EXCEPT ![w] = S],
         NEW stage, pc' = [pc EXCEPT ![w] = stage],
         S # {} => stage \in Settling,
         UNCHANGED <<runAge, ok, bad>>
  PROVE  Ownership'
<1>0. TypeOK
  BY DEF Ownership
<1>1. \A x \in Runs : \A u \in held[x] \ UolUrls :
        u \in Urls \ S /\ rows'[u] = rows[u]
  BY <1>0 DEF Ownership, ClaimsAreFresh, TypeOK
<1>2. \A x \in Runs \ {w} : held'[x] = held[x] /\ pc'[x] = pc[x]
  BY <1>0 DEF TypeOK
<1>3. held'[w] = S /\ pc'[w] = stage
  BY <1>0 DEF TypeOK
<1>4. \A u \in S : rows'[u].status = "in_progress" /\ rows'[u].claimAge = 0
  BY DEF Claimed, Row
<1>5. runAge'[w] \in Nat /\ 0 # NULL
  BY <1>0, NullAssumption DEF TypeOK
<1>6. \A u \in held'[w] \ UolUrls :
        /\ rows'[u].status = "in_progress"
        /\ rows'[u].claimAge # NULL
        /\ rows'[u].claimAge <= runAge'[w]
  BY <1>3, <1>4, <1>5
<1>7. \A u \in held'[w] \ UolUrls : \A x \in Runs \ {w} : u \notin held[x]
  BY <1>1, <1>3
<1>8. Fated(w)'
  BY DEF Fated
<1> QED BY <1>1, <1>2, <1>3, <1>6, <1>7, <1>8, OwnedRowsKept

(* A run may report on rows it holds, and no longer hold them.             *)
LEMMA SettledByRun ==
  ASSUME Ownership, TypeOK', NEW w \in Runs,
         NEW S \in SUBSET held[w],
         \A u \in Urls \ S : rows'[u] = rows[u],
         held' = [held EXCEPT ![w] = @ \ S],
         NEW stage \in Settling, pc' = [pc EXCEPT ![w] = stage],
         \A x \in Runs \ {w} : ok'[x] = ok[x] /\ bad'[x] = bad[x],
         Fated(w)',
         UNCHANGED runAge
  PROVE  Ownership'
<1>0. TypeOK
  BY DEF Ownership
<1>1. \A x \in Runs \ {w} : \A u \in held[x] \ UolUrls :
        u \in Urls /\ u \notin held[w] /\ rows'[u] = rows[u]
  BY <1>0 DEF Ownership, NoDoubleScrape, TypeOK
<1>2. \A x \in Runs \ {w} : held'[x] = held[x] /\ pc'[x] = pc[x]
  BY <1>0 DEF TypeOK
<1>3. held'[w] = held[w] \ S /\ pc'[w] = stage
  BY <1>0 DEF TypeOK
<1>4. \A u \in held'[w] \ UolUrls : rows'[u] = rows[u]
  BY <1>0, <1>3 DEF TypeOK
<1> QED
  BY <1>1, <1>2, <1>3, <1>4, OwnedRowsKept DEF Ownership, ClaimsAreFresh

(* A run that ends, in whatever way, owns nothing.                         *)
LEMMA ForgottenByRun ==
  ASSUME Ownership, TypeOK', NEW w \in Runs, Forget(w)
  PROVE  Ownership'
<1> USE DEF Forget, Goto, frontierVars
<1>1. \A x \in Runs \ {w} : held'[x] = held[x] /\ pc'[x] = pc[x]
                            /\ ok'[x] = ok[x] /\ bad'[x] = bad[x]
                            /\ runAge'[x] = runAge[x]
  BY DEF Ownership, TypeOK
<1>2. held'[w] = {} /\ ok'[w] = {} /\ bad'[w] = {}
  BY DEF Ownership, TypeOK
<1> QED BY <1>1, <1>2, UnheldStep

LEMMA OwnershipInductive ==
  ASSUME TimelyRuns, Ownership, [Next]_vars
  PROVE  Ownership'
<1> USE DEF Settling
<1>0. TypeOK /\ TypeOK'
  BY TypeInductive DEF Ownership
<1>a. \A x \in Runs : \A u \in held[x] \ UolUrls :
        u \in Urls /\ rows[u] \in RowType /\ rows[u].status = "in_progress"
  BY <1>0 DEF Ownership, ClaimsAreFresh, TypeOK, FrontierTypeOK
<1>b. \A x \in Runs : \A u \in held[x] \ UolUrls : ~ Stale(rows[u])
  <2> SUFFICES ASSUME NEW x \in Runs, NEW u \in held[x] \ UolUrls
               PROVE  ~ Stale(rows[u])
    OBVIOUS
  <2>1. rows[u].claimAge # NULL /\ rows[u].claimAge <= runAge[x]
    BY DEF Ownership, ClaimsAreFresh
  <2>2. runAge[x] \in Nat /\ runAge[x] <= RunTimeout[x] /\ RunTimeout[x] <= StaleTimeout
    BY <1>0, TimelyRuns DEF TypeOK, TimelyRuns
  <2>3. rows[u].claimAge \in Nat /\ RunTimeout[x] \in Nat /\ StaleTimeout \in Nat
    BY <1>a, <2>1, LimitAssumption, RunAssumption DEF RowType, AgesUpTo
  <2> QED BY <2>1, <2>2, <2>3 DEF Stale, OlderThan
<1>1. ASSUME Tick PROVE Ownership'
  <2> USE <1>1 DEF Tick
  <2>1. HeldWhileSettling'
    BY DEF Ownership, HeldWhileSettling
  <2>2. FatesAreHeld'
    BY DEF Ownership, FatesAreHeld, Fated
  <2>3. NoDoubleScrape'
    BY DEF Ownership, NoDoubleScrape
  <2>4. ClaimsAreFresh'
    <3> SUFFICES ASSUME NEW x \in Runs, NEW u \in held[x] \ UolUrls
                 PROVE  /\ rows'[u].status = "in_progress"
                        /\ rows'[u].claimAge # NULL
                        /\ rows'[u].claimAge <= runAge'[x]
      BY DEF ClaimsAreFresh
    <3>1. pc[x] # "idle" /\ runAge'[x] = runAge[x] + 1
      BY DEF Ownership, HeldWhileSettling, Live
    <3>2. rows'[u] = Older(rows[u])
      BY <1>a DEF Grow, Rewrite
    <3>3. /\ rows[u].status = "in_progress" /\ rows[u].claimAge # NULL
          /\ rows[u].claimAge <= runAge[x]
      BY DEF Ownership, ClaimsAreFresh
    <3>4. rows[u].claimAge \in AgesUpTo(StaleTimeout) /\ runAge[x] \in Nat
      BY <1>0, <1>a, <3>3 DEF RowType, TypeOK
    <3>5. rows'[u].claimAge = Aged(rows[u].claimAge, StaleTimeout)
      BY <3>2 DEF Older
    <3>6. rows'[u].status = "in_progress"
      BY <3>2, <3>3 DEF Older
    <3>7. rows'[u].claimAge \in Nat /\ rows'[u].claimAge <= rows[u].claimAge + 1
      BY <3>3, <3>4, <3>5, LimitAssumption DEF Aged, AgesUpTo
    <3> QED BY <3>1, <3>3, <3>4, <3>6, <3>7, NullAssumption DEF AgesUpTo
  <2> QED BY <1>0, <2>1, <2>2, <2>3, <2>4 DEF Ownership
<1>2. ASSUME NEW w \in Runs, Step(w) PROVE Ownership'
  <2> DEFINE Kept == \A x \in Runs : \A u \in held[x] \ UolUrls : rows'[u] = rows[u]
             Others == \A x \in Runs \ {w} :
                         /\ held'[x] = held[x] /\ pc'[x] = pc[x] /\ ok'[x] = ok[x]
                         /\ bad'[x] = bad[x] /\ runAge'[x] = runAge[x]
  <2>0. ASSUME Kept, Others, held'[w] = {}, ok'[w] = {}, bad'[w] = {}
        PROVE  Ownership'
    BY <1>0, <2>0, UnheldStep
  <2>a. pc[w] \notin Settling => held[w] = {} /\ ok[w] = {} /\ bad[w] = {}
    BY <1>0 DEF Ownership, HeldWhileSettling, FatesAreHeld, Fated, TypeOK
  <2>b. Fated(w)
    BY DEF Ownership, FatesAreHeld
  <2>1. CASE Start(w)
    <3> USE <2>1 DEF Start, frontierVars, Goto
    <3>1. Kept /\ Others
      BY <1>0 DEF TypeOK
    <3> QED BY <2>0, <2>a, <3>1
  <2>2. CASE Deactivate(w)
    <3> USE <2>2 DEF Deactivate, DeactivateUol, Rewrite, Goto
    <3>1. Kept
      BY <1>a
    <3>2. Others
      BY <1>0 DEF TypeOK
    <3> QED BY <2>0, <2>a, <3>1, <3>2
  <2>3. CASE ResetStale(w)
    <3> USE <2>3 DEF ResetStale, ResetStaleInProgress, Rewrite, Goto
    <3>1. Kept
      BY <1>a, <1>b
    <3>2. Others
      BY <1>0 DEF TypeOK
    <3> QED BY <2>0, <2>a, <3>1, <3>2
  <2>4. CASE Purge(w)
    <3> USE <2>4 DEF Purge, PurgeOldPending, Goto
    <3>1. Kept
      BY <1>a DEF Purgeable
    <3>2. Others
      BY <1>0 DEF TypeOK
    <3> QED BY <2>0, <2>a, <3>1, <3>2
  <2>5. CASE Add(w)
    <3> USE <2>5 DEF Add, AddUrls, Goto
    <3>1. Kept
      BY <1>a
    <3>2. Others
      BY <1>0 DEF TypeOK
    <3> QED BY <2>0, <2>a, <3>1, <3>2
  <2>6. CASE Pending(w)
    <3>1. PICK S \in SUBSET Urls : GetPending(S) /\ held' = [held EXCEPT ![w] = S]
                                   /\ Goto(w, AfterPending(w, S))
      BY <2>6 DEF Pending
    <3>2. \A u \in S : rows[u].status # "in_progress"
      BY <3>1 DEF GetPending, Selection, InStatus
    <3>3. rows' = [u \in Urls |-> IF u \in S THEN Claimed(rows[u]) ELSE rows[u]]
      BY <3>1 DEF GetPending, Rewrite
    <3>4. /\ held[w] = {} /\ ok[w] = {} /\ bad[w] = {}
          /\ UNCHANGED <<runAge, ok, bad>>
      BY <2>6, <2>a DEF Pending
    <3>5. pc' = [pc EXCEPT ![w] = AfterPending(w, S)]
      BY <3>1 DEF Goto
    <3>6. S # {} => AfterPending(w, S) \in Settling
      BY DEF AfterPending
    <3> HIDE DEF Settling
    <3> QED BY <1>0, <3>1, <3>2, <3>3, <3>4, <3>5, <3>6, ClaimedByRun
  <2>7. CASE Recirculate(w)
    <3> USE <2>7 DEF Recirculate, RecirculateStale, Rewrite, Selection, Goto
    <3>1. Kept
      BY <1>a DEF Recirculable
    <3>2. Others
      BY <1>0 DEF TypeOK
    <3> QED BY <2>0, <2>a, <3>1, <3>2
  <2>8. CASE Scrape(w)
    <3> USE <2>8 DEF Scrape, frontierVars, Goto
    <3>1. Others
      BY <1>0 DEF TypeOK
    <3>2. Fated(w)'
      BY <1>0 DEF TypeOK, Fated
    <3>3. pc'[w] \in Settling
      BY <1>0 DEF TypeOK
    <3> QED
      BY <1>0, <3>1, <3>2, <3>3, OwnedRowsKept
      DEF Ownership, ClaimsAreFresh, NoDoubleScrape
  <2>9. CASE MarkCompleted(w)
    <3> USE <2>9 DEF MarkCompleted, MarkCompletedBatch, Rewrite, Goto
    <3>1. ok[w] \subseteq held[w] /\ bad[w] \subseteq held[w]
      BY <2>b DEF Fated
    <3>2. \A u \in Urls \ ok[w] : rows'[u] = rows[u]
      BY DEF Stored
    <3>3. \A x \in Runs \ {w} : ok'[x] = ok[x] /\ bad'[x] = bad[x]
      BY <1>0 DEF TypeOK
    <3>4. Fated(w)'
      BY <1>0, <2>b DEF Fated, TypeOK
    <3>5. "markFailed" \in Settling
      OBVIOUS
    <3> HIDE DEF Settling
    <3> QED BY <1>0, <3>1, <3>2, <3>3, <3>4, <3>5, SettledByRun
  <2>10. CASE MarkFailed(w)
    <3> USE <2>10 DEF MarkFailed, MarkFailedBatch, Rewrite, Goto
    <3>1. ok[w] \subseteq held[w] /\ bad[w] \subseteq held[w]
      BY <2>b DEF Fated
    <3>2. \A u \in Urls \ bad[w] : rows'[u] = rows[u]
      BY DEF Stored
    <3>3. \A x \in Runs \ {w} : ok'[x] = ok[x] /\ bad'[x] = bad[x]
      BY <1>0 DEF TypeOK
    <3>4. Fated(w)'
      BY <1>0, <2>b DEF Fated, TypeOK
    <3>5. "markDeferred" \in Settling
      OBVIOUS
    <3> HIDE DEF Settling
    <3> QED BY <1>0, <3>1, <3>2, <3>3, <3>4, <3>5, SettledByRun
  <2>11. CASE MarkDeferred(w)
    <3> USE <2>11 DEF MarkDeferred, Goto
    <3>1. PICK more \in BOOLEAN :
            rows' = [u \in Urls |-> IF u \in Stored(held[w])
                                   THEN Deferred(rows[u], more) ELSE rows[u]]
      BY DEF MarkDeferredBatch, Rewrite
    <3>2. \A x \in Runs \ {w} : \A u \in held[x] \ UolUrls : rows'[u] = rows[u]
      BY <1>a, <3>1 DEF Ownership, NoDoubleScrape, Stored
    <3>3. held'[w] = {} /\ Others
      BY <1>0 DEF TypeOK
    <3>4. ok'[w] = {} /\ bad'[w] = {}
      BY <2>b DEF Fated
    <3> QED BY <1>0, <3>2, <3>3, <3>4, UnheldStep
  <2>12. CASE Retry(w)
    <3>1. PICK S \in SUBSET Urls :
            /\ GetRetryable(S)
            /\ held' = [held EXCEPT ![w] = S]
            /\ Goto(w, IF S = {} THEN "extracted" ELSE "scrape")
      BY <2>12 DEF Retry
    <3>2. \A u \in S : rows[u].status # "in_progress"
      BY <3>1 DEF GetRetryable, Selection, Retryable
    <3>3. rows' = [u \in Urls |-> IF u \in S THEN Claimed(rows[u]) ELSE rows[u]]
      BY <3>1 DEF GetRetryable, Rewrite
    <3>4. /\ held[w] = {} /\ ok[w] = {} /\ bad[w] = {}
          /\ UNCHANGED <<runAge, ok, bad>>
      BY <2>12, <2>a DEF Retry
    <3>5. pc' = [pc EXCEPT ![w] = IF S = {} THEN "extracted" ELSE "scrape"]
      BY <3>1 DEF Goto
    <3>6. S # {} => (IF S = {} THEN "extracted" ELSE "scrape") \in Settling
      OBVIOUS
    <3> HIDE DEF Settling
    <3> QED BY <1>0, <3>1, <3>2, <3>3, <3>4, <3>5, <3>6, ClaimedByRun
  <2>13. CASE Finish(w)
    BY <1>0, <2>13, ForgottenByRun DEF Finish
  <2> QED
    BY <1>2, <2>1, <2>2, <2>3, <2>4, <2>5, <2>6, <2>7, <2>8, <2>9, <2>10,
       <2>11, <2>12, <2>13 DEF Step
<1>3. ASSUME NEW w \in Runs, Kill(w) PROVE Ownership'
  BY <1>0, <1>3, ForgottenByRun DEF Kill
<1>4. CASE UNCHANGED vars
  BY <1>0, <1>4
  DEF vars, frontierVars, runVars, Ownership, HeldWhileSettling, FatesAreHeld, Fated,
      ClaimsAreFresh, NoDoubleScrape
<1> QED BY <1>1, <1>2, <1>3, <1>4 DEF Next

(* Ownership holds of every behaviour whose runs are timely.               *)
LEMMA OwnershipHolds ==
  ASSUME TimelyRuns PROVE Spec => []Ownership
<1>1. Init => Ownership
  BY TypeAtStart
  DEF Init, Ownership, HeldWhileSettling, FatesAreHeld, Fated, ClaimsAreFresh, NoDoubleScrape
<1>2. Ownership /\ [Next]_vars => Ownership'
  BY OwnershipInductive
<1> QED BY <1>1, <1>2, PTL DEF Spec

(* Two live runs never work on the same URL, provided that no run may live *)
(* longer than a claim: the deployed task timeout (1800 s) against the     *)
(* 30 minutes of reset_stale_in_progress.                                  *)
THEOREM ExclusiveClaims ==
  ASSUME TimelyRuns PROVE Spec => []NoDoubleScrape
<1>1. Ownership => NoDoubleScrape
  BY DEF Ownership
<1> QED BY <1>1, OwnershipHolds, PTL

-----------------------------------------------------------------------------
(* Recirculation.                                                          *)
RecirculatedBefore(r) == r.recircAge # NULL => r.recircAge >= r.updateAge

(* A statement that touches a row sets updated_at to now, and time passes  *)
(* for both timestamps alike.                                              *)
LEMMA UpdatesAreRecent ==
  ASSUME NEW r \in RowType, NEW more \in BOOLEAN, RecirculatedBefore(r)
  PROVE  /\ RecirculatedBefore(AbsentRow)
         /\ RecirculatedBefore(Inserted)
         /\ RecirculatedBefore(Claimed(r))
         /\ RecirculatedBefore(Completed(r))
         /\ RecirculatedBefore(Failed(r))
         /\ RecirculatedBefore(Deferred(r, more))
         /\ RecirculatedBefore(Reset(r))
         /\ RecirculatedBefore(Recirculated(r))
         /\ RecirculatedBefore(Banned(r))
         /\ RecirculatedBefore(Older(r))
<1>1. /\ r.updateAge \in 0 .. (RecircTtl + 1)
      /\ r.recircAge \in 0 .. (RecircTtl + 1) \cup {NULL}
      /\ RecircTtl \in Nat
  BY LimitAssumption DEF RowType, AgesUpTo
<1>2. RecirculatedBefore(Older(r))
  BY <1>1, NullAssumption DEF RecirculatedBefore, Older, Aged
<1> QED
  BY <1>1, <1>2, NullAssumption
  DEF RecirculatedBefore, AbsentRow, Inserted, Claimed, Completed, Failed, Deferred,
      Reset, Recirculated, Banned, Row

LEMMA RecirculationInductive ==
  ASSUME TypeOK, RecirculationIsAnUpdate, [Next]_vars
  PROVE  RecirculationIsAnUpdate'
<1> SUFFICES ASSUME NEW u \in Urls PROVE RecirculatedBefore(rows'[u])
  BY DEF RecirculationIsAnUpdate, RecirculatedBefore
<1>0. rows[u] \in RowType /\ rows \in [Urls -> RowType] /\ RecirculatedBefore(rows[u])
  BY DEF TypeOK, FrontierTypeOK, RecirculationIsAnUpdate, RecirculatedBefore
<1> USE <1>0, UpdatesAreRecent
<1>1. CASE Tick
  BY <1>1 DEF Tick, Grow, Rewrite
<1>2. ASSUME NEW w \in Runs, Step(w) PROVE RecirculatedBefore(rows'[u])
  <2>1. CASE Start(w) \/ Scrape(w) \/ Finish(w)
    BY <2>1 DEF Start, Scrape, Finish, Forget, frontierVars
  <2>2. CASE Deactivate(w)
    BY <2>2 DEF Deactivate, DeactivateUol, Rewrite
  <2>3. CASE ResetStale(w)
    BY <2>3 DEF ResetStale, ResetStaleInProgress, Rewrite
  <2>4. CASE Purge(w)
    BY <2>4 DEF Purge, PurgeOldPending
  <2>5. CASE Add(w)
    BY <2>5 DEF Add, AddUrls
  <2>6. CASE Pending(w)
    BY <2>6 DEF Pending, GetPending, Rewrite
  <2>7. CASE Recirculate(w)
    BY <2>7 DEF Recirculate, RecirculateStale, Rewrite
  <2>8. CASE MarkCompleted(w)
    BY <2>8 DEF MarkCompleted, MarkCompletedBatch, Rewrite
  <2>9. CASE MarkFailed(w)
    BY <2>9 DEF MarkFailed, MarkFailedBatch, Rewrite
  <2>10. CASE MarkDeferred(w)
    <3>1. PICK more \in BOOLEAN :
            rows' = [v \in Urls |-> IF v \in Stored(held[w])
                                   THEN Deferred(rows[v], more) ELSE rows[v]]
      BY <2>10 DEF MarkDeferred, MarkDeferredBatch, Rewrite
    <3> QED BY <3>1
  <2>11. CASE Retry(w)
    BY <2>11 DEF Retry, GetRetryable, Rewrite
  <2> QED
    BY <1>2, <2>1, <2>2, <2>3, <2>4, <2>5, <2>6, <2>7, <2>8, <2>9, <2>10, <2>11
    DEF Step
<1>3. ASSUME NEW w \in Runs, Kill(w) PROVE RecirculatedBefore(rows'[u])
  BY <1>3 DEF Kill, Forget, frontierVars
<1>4. CASE UNCHANGED vars
  BY <1>4 DEF vars, frontierVars
<1> QED BY <1>1, <1>2, <1>3, <1>4 DEF Next

(* recirculated_at is never newer than updated_at: no URL is recirculated  *)
(* twice within the TTL, and the one-shot guard of recirculate_stale is    *)
(* never what holds a URL back.                                            *)
THEOREM RecirculationUpdates == Spec => []RecirculationIsAnUpdate
<1>1. Init => RecirculationIsAnUpdate
  BY NullAssumption
  DEF Init, FrontierInit, RecirculationIsAnUpdate, AbsentRow, Row
<1>2. TypeOK /\ RecirculationIsAnUpdate /\ [Next]_vars => RecirculationIsAnUpdate'
  BY RecirculationInductive
<1> QED BY <1>1, <1>2, TypeCorrect, PTL DEF Spec

-----------------------------------------------------------------------------
(* What a step does to one row.  Ordinary rows are reported on by the run  *)
(* that has them in progress; a UOL row may have become anything since.    *)
Reported(u) ==
  /\ rows[u].status # "absent"
  /\ u \notin UolUrls => rows[u].status = "in_progress"

Untouched(u) == rows'[u] = rows[u] /\ (u \notin UolUrls => fails'[u] = fails[u])
AgedRow(u) == rows'[u] = Older(rows[u]) /\ fails'[u] = fails[u]
InsertedRow(u) == rows[u].status = "absent" /\ rows'[u] = Inserted /\ fails'[u] = 0
ClaimedRow(u) ==
  /\ rows[u].status = "pending" \/ Retryable(rows[u])
  /\ rows'[u] = Claimed(rows[u]) /\ fails'[u] = fails[u]
CompletedRow(u) == Reported(u) /\ rows'[u] = Completed(rows[u]) /\ fails'[u] = 0
FailedRow(u) == Reported(u) /\ rows'[u] = Failed(rows[u]) /\ fails'[u] = fails[u] + 1
DeferredRow(u) ==
  /\ rows[u].status = "in_progress"
  /\ \E more \in BOOLEAN : rows'[u] = Deferred(rows[u], more)
  /\ fails'[u] = fails[u]
ResetRow(u) ==
  rows[u].status = "in_progress" /\ rows'[u] = Reset(rows[u]) /\ fails'[u] = fails[u]
RecirculatedRow(u) ==
  Recirculable(rows[u]) /\ rows'[u] = Recirculated(rows[u]) /\ fails'[u] = fails[u]
PurgedRow(u) ==
  rows[u].status \in {"pending", "failed"} /\ rows'[u] = AbsentRow /\ fails'[u] = 0
BannedRow(u) ==
  /\ u \in UolUrls /\ rows[u].status \in {"pending", "in_progress"}
  /\ rows'[u] = Banned(rows[u])

RowStep(u) ==
  \/ Untouched(u) \/ AgedRow(u) \/ InsertedRow(u) \/ ClaimedRow(u) \/ CompletedRow(u)
  \/ FailedRow(u) \/ DeferredRow(u) \/ ResetRow(u) \/ RecirculatedRow(u) \/ PurgedRow(u)
  \/ BannedRow(u)

(* Every step of the system is one of these to every row: the one place    *)
(* where exclusive claims are used for what a report may overwrite.        *)
LEMMA RowSteps ==
  ASSUME Ownership, [Next]_vars, NEW u \in Urls
  PROVE  RowStep(u)
<1> USE DEF RowStep
<1>0. TypeOK /\ rows[u] \in RowType
  BY DEF Ownership, TypeOK, FrontierTypeOK
<1>1. \A w \in Runs : u \in held[w] \ UolUrls => rows[u].status = "in_progress"
  BY DEF Ownership, ClaimsAreFresh
<1>2. CASE Tick
  BY <1>2, <1>0 DEF Tick, Grow, Rewrite, AgedRow, Untouched
<1>3. ASSUME NEW w \in Runs, Step(w) PROVE RowStep(u)
  <2>0. /\ ok[w] \subseteq held[w] /\ bad[w] \subseteq held[w] /\ held[w] \subseteq Urls
    BY <1>0 DEF Ownership, FatesAreHeld, Fated, TypeOK
  <2>1. CASE Start(w) \/ Scrape(w) \/ Finish(w)
    BY <2>1 DEF Start, Scrape, Finish, Forget, frontierVars, Untouched
  <2>2. CASE Deactivate(w)
    BY <2>2 DEF Deactivate, DeactivateUol, Rewrite, Untouched, BannedRow
  <2>3. CASE ResetStale(w)
    BY <2>3 DEF ResetStale, ResetStaleInProgress, Rewrite, Stale, Untouched, ResetRow
  <2>4. CASE Purge(w)
    BY <2>4 DEF Purge, PurgeOldPending, Purgeable, Untouched, PurgedRow
  <2>5. CASE Add(w)
    BY <2>5 DEF Add, AddUrls, Untouched, InsertedRow
  <2>6. CASE Pending(w)
    BY <2>6 DEF Pending, GetPending, Selection, InStatus, Rewrite, Untouched, ClaimedRow
  <2>7. CASE Recirculate(w)
    BY <2>7 DEF Recirculate, RecirculateStale, Selection, Rewrite, Untouched, RecirculatedRow
  <2>8. CASE MarkCompleted(w)
    BY <2>8, <2>0, <1>1
    DEF MarkCompleted, MarkCompletedBatch, Rewrite, Stored, Untouched, CompletedRow, Reported
  <2>9. CASE MarkFailed(w)
    BY <2>9, <2>0, <1>1
    DEF MarkFailed, MarkFailedBatch, Rewrite, Stored, Untouched, FailedRow, Reported
  <2>10. CASE MarkDeferred(w)
    BY <2>10 DEF MarkDeferred, MarkDeferredBatch, Rewrite, Untouched, DeferredRow, Deferred
  <2>11. CASE Retry(w)
    BY <2>11 DEF Retry, GetRetryable, Selection, Rewrite, Untouched, ClaimedRow
  <2> QED
    BY <1>3, <2>1, <2>2, <2>3, <2>4, <2>5, <2>6, <2>7, <2>8, <2>9, <2>10, <2>11 DEF Step
<1>4. ASSUME NEW w \in Runs, Kill(w) PROVE RowStep(u)
  BY <1>4 DEF Kill, Forget, frontierVars, Untouched
<1>5. CASE UNCHANGED vars
  BY <1>5 DEF vars, frontierVars, Untouched
<1> QED BY <1>2, <1>3, <1>4, <1>5 DEF Next

-----------------------------------------------------------------------------
(* The failure budget.  A row that can be claimed has had fewer failures   *)
(* than the budget, and never more than attempts; a claim is an attempt    *)
(* that has not failed yet.                                                *)
Within(r, n) ==
  /\ r.status \in {"absent", "completed"} => n = 0
  /\ r.status = "pending" => n < MaxRetries /\ n <= r.attempts
  /\ r.status = "in_progress" => n < MaxRetries /\ n < r.attempts
  /\ r.status = "failed" => n <= MaxRetries /\ n <= r.attempts

FailuresAreAttempts == \A u \in Urls \ UolUrls : Within(rows[u], fails[u])

LEMMA BudgetInductive ==
  ASSUME Ownership, FailuresAreAttempts, [Next]_vars
  PROVE  FailuresAreAttempts'
<1> SUFFICES ASSUME NEW u \in Urls \ UolUrls PROVE Within(rows'[u], fails'[u])
  BY DEF FailuresAreAttempts
<1>0. rows[u] \in RowType /\ fails[u] \in Nat /\ Within(rows[u], fails[u])
  BY DEF Ownership, TypeOK, FrontierTypeOK, FailuresAreAttempts
<1>1. rows[u].attempts \in 0 .. AttemptCap /\ rows[u].status \in Statuses
  BY <1>0 DEF RowType
<1>2. RowStep(u)
  BY RowSteps
<1> USE <1>0, <1>1, LimitAssumption DEF Within, Row, Statuses
<1>3. CASE Untouched(u) \/ AgedRow(u) \/ ResetRow(u)
  BY <1>3 DEF Untouched, AgedRow, Older, ResetRow, Reset
<1>4. CASE InsertedRow(u) \/ CompletedRow(u) \/ PurgedRow(u)
  BY <1>4 DEF InsertedRow, Inserted, CompletedRow, Completed, PurgedRow, AbsentRow
<1>5. CASE ClaimedRow(u)
  BY <1>5 DEF ClaimedRow, Claimed, Bumped, Retryable
<1>6. CASE FailedRow(u)
  BY <1>6 DEF FailedRow, Failed, Reported
<1>7. CASE DeferredRow(u)
  BY <1>7 DEF DeferredRow, Deferred, GivenBack
<1>8. CASE RecirculatedRow(u)
  BY <1>8 DEF RecirculatedRow, Recirculated, Recirculable
<1>9. CASE BannedRow(u)
  BY <1>9 DEF BannedRow
<1> QED BY <1>2, <1>3, <1>4, <1>5, <1>6, <1>7, <1>8, <1>9 DEF RowStep

(* No URL is recorded as failed more than MaxRetries times between         *)
(* successes, however runs crash, defer, expire and retry, provided that   *)
(* no run outlives its claims. A run that does sees its stale claim given  *)
(* to another run, since get_pending claims whatever is pending at any     *)
(* attempt count, and both report a failure of the one attempt.            *)
THEOREM FailuresWithinBudget ==
  ASSUME TimelyRuns PROVE Spec => []FailureBudget
<1>1. Init => FailuresAreAttempts
  BY LimitAssumption DEF Init, FrontierInit, FailuresAreAttempts, Within, AbsentRow, Row
<1>2. Ownership /\ FailuresAreAttempts /\ [Next]_vars => FailuresAreAttempts'
  BY BudgetInductive
<1>3. Ownership /\ FailuresAreAttempts => FailureBudget
  <2> SUFFICES ASSUME Ownership, FailuresAreAttempts, NEW u \in Urls \ UolUrls
               PROVE  fails[u] <= MaxRetries
    BY DEF FailureBudget
  <2>1. rows[u].status \in Statuses /\ fails[u] \in Nat /\ Within(rows[u], fails[u])
    BY DEF Ownership, TypeOK, FrontierTypeOK, RowType, FailuresAreAttempts
  <2> QED BY <2>1, LimitAssumption DEF Within, Statuses
<1> QED BY <1>1, <1>2, <1>3, OwnershipHolds, PTL DEF Spec

-----------------------------------------------------------------------------
(* A completed URL leaves "completed" only through recirculate_stale, and  *)
(* only when its last update is older than the TTL: a slow run's reports   *)
(* are on rows it has in progress.                                         *)
THEOREM CompletedStaysCompleted ==
  ASSUME TimelyRuns PROVE Spec => CompletedIsFinal
<1>1. ASSUME Ownership, [Next]_vars
      PROVE  \A u \in Urls \ UolUrls :
               rows[u].status = "completed" =>
                 \/ rows'[u].status = "completed"
                 \/ rows'[u].status = "pending" /\ OlderThan(rows[u].updateAge, RecircTtl)
  <2> SUFFICES ASSUME NEW u \in Urls \ UolUrls, rows[u].status = "completed"
               PROVE  \/ rows'[u].status = "completed"
                      \/ rows'[u].status = "pending" /\ OlderThan(rows[u].updateAge, RecircTtl)
    OBVIOUS
  <2>1. RowStep(u)
    BY <1>1, RowSteps
  <2>2. CASE Untouched(u) \/ AgedRow(u)
    BY <2>2 DEF Untouched, AgedRow, Older
  <2>3. CASE RecirculatedRow(u)
    BY <2>3 DEF RecirculatedRow, Recirculated, Recirculable, Row
  <2> QED
    BY <2>1, <2>2, <2>3
    DEF RowStep, InsertedRow, ClaimedRow, Retryable, CompletedRow, FailedRow, Reported,
        DeferredRow, ResetRow, PurgedRow, BannedRow
<1> QED BY <1>1, OwnershipHolds, PTL DEF Spec, CompletedIsFinal

-----------------------------------------------------------------------------
(* The refinement.  What the queue of leases sees of a row:                *)
SeenAs(r) ==
  IF r.status = "absent" THEN "none"
  ELSE IF r.status = "pending" \/ Retryable(r) THEN "waiting"
  ELSE IF r.status = "in_progress" THEN "leased"
  ELSE IF r.status = "completed" THEN "done" ELSE "dead"

LEMMA ItemIsSeen ==
  ASSUME NEW u \in Urls, rows[u] \in RowType
  PROVE  ItemState(u) = SeenAs(rows[u])
  BY DEF ItemState, SeenAs, Retryable, RowType, Statuses

(* Each statement moves a row along an edge of the queue; one that may      *)
(* find the row in any state moves it along an edge of banned items.       *)
LEMMA RowsMoveAlongEdges ==
  ASSUME Ownership, NEW u \in Urls, RowStep(u)
  PROVE  Lease!Allowed(u, SeenAs(rows[u]), SeenAs(rows'[u]))
<1>1. rows[u].status \in Statuses /\ rows[u].attempts \in 0 .. AttemptCap
  BY DEF Ownership, TypeOK, FrontierTypeOK, RowType
<1> USE <1>1, LimitAssumption
    DEF Lease!Allowed, Lease!Moves, Lease!BannedMoves, SeenAs, Retryable, Row, Statuses
<1>2. CASE Untouched(u) \/ AgedRow(u)
  BY <1>2 DEF Untouched, AgedRow, Older
<1>3. CASE InsertedRow(u)
  BY <1>3 DEF InsertedRow, Inserted
<1>4. CASE ClaimedRow(u)
  BY <1>4 DEF ClaimedRow, Claimed
<1>5. CASE CompletedRow(u)
  BY <1>5 DEF CompletedRow, Completed, Reported
<1>6. CASE FailedRow(u)
  BY <1>6 DEF FailedRow, Failed, Reported
<1>7. CASE DeferredRow(u)
  BY <1>7 DEF DeferredRow, Deferred
<1>8. CASE ResetRow(u)
  BY <1>8 DEF ResetRow, Reset
<1>9. CASE RecirculatedRow(u)
  BY <1>9 DEF RecirculatedRow, Recirculated, Recirculable
<1>10. CASE PurgedRow(u)
  BY <1>10 DEF PurgedRow, AbsentRow
<1>11. CASE BannedRow(u)
  BY <1>11 DEF BannedRow, Banned
<1> QED
  BY <1>2, <1>3, <1>4, <1>5, <1>6, <1>7, <1>8, <1>9, <1>10, <1>11 DEF RowStep

(* RssExtraction implements LeaseQueue: no call of any run, in any         *)
(* interleaving, hands out a finished or given-up URL, finishes an ordinary*)
(* URL that nobody holds, or takes one that is held from the table.        *)
THEOREM ImplementsLeaseQueue ==
  ASSUME TimelyRuns PROVE Spec => LeaseSpec
<1>1. ASSUME Init PROVE Lease!Init
  <2>1. \A u \in Urls : rows[u] \in RowType /\ rows[u].status = "absent"
    BY <1>1, TypeAtStart DEF TypeOK, FrontierTypeOK, Init, FrontierInit, AbsentRow, Row
  <2>2. \A u \in Urls : ItemState(u) = "none"
    BY <2>1, ItemIsSeen DEF SeenAs
  <2> QED BY <2>2 DEF Lease!Init
<1>2. ASSUME Ownership, Ownership', [Next]_vars PROVE Lease!Next
  <2>1. \A u \in Urls : rows[u] \in RowType /\ rows'[u] \in RowType
    BY <1>2 DEF Ownership, TypeOK, FrontierTypeOK
  <2>2. \A u \in Urls : ItemState(u) = SeenAs(rows[u]) /\ ItemState(u)' = SeenAs(rows'[u])
    <3> TAKE u \in Urls
    <3>1. ItemState(u) = SeenAs(rows[u])
      BY <2>1, ItemIsSeen
    <3>2. ItemState(u)' = SeenAs(rows'[u])
      BY <2>1 DEF ItemState, SeenAs, Retryable, RowType, Statuses
    <3> QED BY <3>1, <3>2
  <2>3. \A u \in Urls : Lease!Allowed(u, ItemState(u), ItemState(u)')
    BY <1>2, <2>2, RowSteps, RowsMoveAlongEdges
  <2>4. \A u \in Urls : ItemState(u)' \in Lease!States
    BY <2>2 DEF SeenAs, Lease!States
  <2> QED BY <2>3, <2>4 DEF Lease!Next
<1> QED BY <1>1, <1>2, OwnershipHolds, PTL DEF Spec, LeaseSpec, Lease!Spec
=============================================================================
