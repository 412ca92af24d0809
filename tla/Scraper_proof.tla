--------------------------- MODULE Scraper_proof ----------------------------
(***************************************************************************)
(* Proofs about the two things a scraping task consults.  DomainBreaker:   *)
(* its circuits are dated and open circuits wait, for any number of tasks  *)
(* and processes, any thresholds and timeouts, and Redis coming and going. *)
(* ScrapeBatch: no attempt starts on a parked domain, for any URLs, pages, *)
(* budgets and windows.  The two modules are independent of each other.    *)
(***************************************************************************)
EXTENDS DomainBreaker, ScrapeBatch, FiniteSetTheorems, TLAPS

-----------------------------------------------------------------------------
(* The inductive invariant.  A process has one task in a method at most;   *)
(* until two processes have met in one, what a task has read still holds   *)
(* when it acts on it.                                                     *)
Inside == {t \in Tasks : pc[t] \in InMethod}

OneMethod == \A t, u \in Inside : ProcessOf[t] = ProcessOf[u] => t = u

Watched == Cardinality({ProcessOf[t] : t \in Inside}) > 1 => raced

ReadsHold ==
  ~ raced => \A t \in Tasks :
    /\ pc[t] = "toHalfOpen" => Recovered
    /\ pc[t] = "toClosed" => circuit # "open"

BreakerInv == BreakerTypeOK /\ OpenIsDated /\ OneMethod /\ Watched /\ ReadsHold

(* While nothing has raced, there is one task in a method.                 *)
LEMMA Alone ==
  ASSUME BreakerInv, ~ raced, NEW t \in Inside, NEW u \in Inside
  PROVE  t = u
<1> DEFINE P == {ProcessOf[v] : v \in Inside}
<1>1. IsFiniteSet(Inside)
  BY BreakerAssumption, FS_Subset DEF Inside
<1>2. IsFiniteSet(P)
  <2> DEFINE f == [v \in Inside |-> ProcessOf[v]]
  <2>1. f \in Surjection(Inside, P)
    BY DEF Surjection
  <2> QED BY <2>1, <1>1, FS_Surjection
<1>3. Cardinality(P) \in Nat /\ ~ Cardinality(P) > 1
  BY <1>2, FS_CardinalityType DEF BreakerInv, Watched
<1>4. ProcessOf[t] = ProcessOf[u]
  <2> SUFFICES ASSUME ProcessOf[t] # ProcessOf[u] PROVE FALSE
    OBVIOUS
  <2> DEFINE Q == {ProcessOf[t], ProcessOf[u]}
  <2>1. Q \subseteq P
    OBVIOUS
  <2>2. Cardinality(Q) <= Cardinality(P)
    BY <2>1, <1>2, FS_Subset
  <2>3. IsFiniteSet({ProcessOf[t]}) /\ Cardinality({ProcessOf[t]}) = 1
    BY FS_Singleton
  <2>4. Cardinality({ProcessOf[t]} \cup {ProcessOf[u]}) = 2
    BY <2>3, FS_AddElement
  <2>5. Q = {ProcessOf[t]} \cup {ProcessOf[u]}
    OBVIOUS
  <2> QED BY <2>2, <2>4, <2>5, <1>3
<1> QED BY <1>4 DEF BreakerInv, OneMethod

-----------------------------------------------------------------------------
LEMMA InitBreaker == BreakerInit => BreakerInv
<1> SUFFICES ASSUME BreakerInit PROVE BreakerInv
  OBVIOUS
<1> USE BreakerAssumption DEF BreakerInit
<1>1. Inside = {}
  BY DEF Inside, InMethod
<1>2. BreakerTypeOK
  BY DEF BreakerTypeOK, InMethod
<1>3. Watched
  <2>1. {ProcessOf[t] : t \in Inside} = {}
    BY <1>1
  <2> QED BY <2>1, FS_EmptySet DEF Watched
<1> QED BY <1>1, <1>2, <1>3 DEF BreakerInv, OpenIsDated, OneMethod, ReadsHold

(* The clock runs, or Redis comes or goes: no task moves, and a circuit    *)
(* that has recovered stays so.                                            *)
LEMMA TickKeeps == ASSUME BreakerInv, BreakerTick PROVE BreakerInv'
<1> USE BreakerAssumption DEF BreakerInv, BreakerTypeOK
<1>1. BreakerTypeOK'
  BY DEF BreakerTick, Forgotten
<1>2. OpenIsDated'
  BY DEF BreakerTick, OpenIsDated
<1>3. OneMethod' /\ Watched'
  BY DEF BreakerTick, OneMethod, Watched, Inside
<1>4. Recovered => Recovered'
  BY DEF BreakerTick, Recovered
<1>5. ReadsHold'
  BY <1>4 DEF BreakerTick, ReadsHold
<1> QED BY <1>1, <1>2, <1>3, <1>5

LEMMA OutageKeeps == ASSUME BreakerInv, Outage PROVE BreakerInv'
BY DEF BreakerInv, Outage, keys, BreakerTypeOK, OpenIsDated, OneMethod, Watched, Inside,
       ReadsHold, Recovered

-----------------------------------------------------------------------------
(* A task's step, seen from the outside: it moves to another call, and only*)
(* in a method does it touch the keys.                                     *)
Labels == {"idle", "fetch", "raised"} \cup InMethod

Moves(t, label) ==
  /\ pc' = [pc EXCEPT ![t] = label]
  /\ label \in InMethod /\ t \notin Inside =>
       \A u \in Tasks \ {t} : ProcessOf[u] = ProcessOf[t] => pc[u] \notin InMethod
  /\ label = "toHalfOpen" => Recovered /\ UNCHANGED keys
  /\ label = "toClosed" => circuit # "open" /\ UNCHANGED keys
  /\ t \notin Inside => UNCHANGED keys
  /\ circuit' \in {"closed", "open", "half_open"}
  /\ openedAge' \in 0 .. RecoveryTimeout + 1 \cup {NULL}
  /\ halfOpenCount' \in {0, NULL}
  /\ failures' \in 1 .. FailureThreshold \cup {NULL}
  /\ ttl' \in 0 .. 2 * RecoveryTimeout \cup {NULL}
  /\ OpenIsDated'
  /\ circuit = "open" /\ circuit' # "open" => pc[t] \in {"toHalfOpen", "toClosed"}

LEMMA Steps ==
  ASSUME BreakerInv, NEW t \in Tasks, TaskStep(t)
  PROVE  \E label \in Labels : Moves(t, label)
<1> USE BreakerAssumption DEF BreakerInv, BreakerTypeOK, OpenIsDated, keys
<1>1. CASE IsAllowed(t)
  <2>1. CASE circuit = "closed"
    <3>1. Moves(t, "fetch")
      BY <1>1, <2>1 DEF IsAllowed, Begins, LetThrough, Goto, Moves, Inside, InMethod
    <3> QED BY <3>1 DEF Labels
  <2>2. CASE circuit = "open"
    <3>1. Moves(t, "readOpenedAt")
      BY <1>1, <2>2 DEF IsAllowed, Begins, Goto, Moves, Inside, InMethod
    <3> QED BY <3>1 DEF Labels, InMethod
  <2>3. CASE circuit = "half_open"
    <3>1. Moves(t, "readCount")
      BY <1>1, <2>3 DEF IsAllowed, Begins, Goto, Moves, Inside, InMethod
    <3> QED BY <3>1 DEF Labels, InMethod
  <2> QED BY <2>1, <2>2, <2>3
<1>2. CASE ReadOpenedAt(t)
  <2>1. Moves(t, IF Recovered THEN "toHalfOpen" ELSE "idle")
    BY <1>2 DEF ReadOpenedAt, Goto, Moves, Inside, InMethod, Recovered
  <2> QED BY <2>1 DEF Labels, InMethod
<1>3. CASE ToHalfOpen(t)
  <2>1. Moves(t, "fetch")
    BY <1>3 DEF ToHalfOpen, HalfOpen, Goto, Moves, Inside, InMethod
  <2> QED BY <2>1 DEF Labels, InMethod
<1>4. CASE ReadCount(t)
  <2>1. Moves(t, "fetch") \/ Moves(t, "idle")
    BY <1>4 DEF ReadCount, LetThrough, TurnedAway, Goto, Moves, Inside, InMethod
  <2> QED BY <2>1 DEF Labels
<1>5. CASE BreakerRecordSuccess(t)
  <2>1. Moves(t, IF circuit = "half_open" THEN "toClosed" ELSE "forget")
    BY <1>5 DEF BreakerRecordSuccess, Begins, Goto, Moves, Inside, InMethod
  <2> QED BY <2>1 DEF Labels, InMethod
<1>6. CASE ToClosed(t)
  <2>1. Moves(t, "forget")
    BY <1>6 DEF ToClosed, Close, Forgotten, Goto, Moves, Inside, InMethod
  <2> QED BY <2>1 DEF Labels, InMethod
<1>7. CASE Forget(t)
  <2>1. Moves(t, "idle")
    BY <1>7 DEF Forget, Forgotten, Goto, Moves, Inside, InMethod
  <2> QED BY <2>1 DEF Labels, InMethod
<1>8. CASE RecordFailure(t)
  <2>1. Moves(t, IF circuit = "half_open" THEN "reopen" ELSE "count")
    BY <1>8 DEF RecordFailure, Begins, Goto, Moves, Inside, InMethod
  <2> QED BY <2>1 DEF Labels, InMethod
<1>9. CASE Count(t)
  <2>1. Counted \in 1 .. FailureThreshold
    BY DEF Counted
  <2>2. Moves(t, IF Counted >= FailureThreshold THEN "expireThenOpen" ELSE "expire")
    BY <1>9, <2>1 DEF Count, Goto, Moves, Inside, InMethod
  <2> QED BY <2>2 DEF Labels, InMethod
<1>10. CASE Expire(t)
  <2>1. Moves(t, IF pc[t] = "expire" THEN "idle" ELSE "toOpen")
    BY <1>10 DEF Expire, Goto, Moves, Inside, InMethod
  <2> QED BY <2>1 DEF Labels, InMethod
<1>11. CASE ToOpen(t)
  <2>1. Moves(t, "idle")
    BY <1>11 DEF ToOpen, Open, Goto, Moves, Inside, InMethod
  <2> QED BY <2>1 DEF Labels, InMethod
<1>12. CASE RedisFails(t)
  <2>1. Moves(t, "fetch") \/ Moves(t, "raised") \/ Moves(t, "idle")
    BY <1>12 DEF RedisFails, Begins, Goto, Moves, Inside, InMethod
  <2> QED BY <2>1 DEF Labels
<1>13. CASE NotRecorded(t) \/ Settle(t)
  <2>1. Moves(t, "idle")
    BY <1>13 DEF NotRecorded, Settle, TurnedAway, Goto, Moves, Inside, InMethod
  <2> QED BY <2>1 DEF Labels, InMethod
<1> QED
  BY <1>1, <1>2, <1>3, <1>4, <1>5, <1>6, <1>7, <1>8, <1>9, <1>10, <1>11, <1>12, <1>13
     DEF TaskStep, RedisCall

LEMMA TaskStepKeeps == ASSUME BreakerInv, NEW t \in Tasks, TaskStep(t) PROVE BreakerInv'
<1>1. PICK label \in Labels : Moves(t, label)
  BY Steps
<1>2. Interleaving /\ UNCHANGED available
  BY DEF TaskStep
<1>3. pc' = [pc EXCEPT ![t] = label]
  BY <1>1 DEF Moves
<1>4. pc \in [Tasks -> Labels]
  BY DEF BreakerInv, BreakerTypeOK, Labels
<1>5. pc'[t] = label /\ \A u \in Tasks \ {t} : pc'[u] = pc[u]
  BY <1>3, <1>4
<1>6. BreakerTypeOK'
  <2>1. pc' \in [Tasks -> {"idle", "fetch", "raised"} \cup InMethod]
    BY <1>3, <1>4 DEF Labels
  <2>2. raced' \in BOOLEAN
    BY <1>2 DEF Interleaving, BreakerInv, BreakerTypeOK
  <2>3. available' \in BOOLEAN
    BY <1>2 DEF BreakerInv, BreakerTypeOK
  <2> QED BY <2>1, <2>2, <2>3, <1>1 DEF BreakerTypeOK, Moves
<1>7. OpenIsDated'
  BY <1>1 DEF Moves
<1>8. OneMethod'
  <2> SUFFICES ASSUME NEW u \in Inside', NEW v \in Inside', ProcessOf[u] = ProcessOf[v]
               PROVE  u = v
    BY DEF OneMethod
  <2>1. u \in Tasks /\ v \in Tasks /\ pc'[u] \in InMethod /\ pc'[v] \in InMethod
    BY DEF Inside
  <2>2. CASE t \in Inside
    BY <2>1, <2>2, <1>5 DEF BreakerInv, OneMethod, Inside
  <2>3. CASE t \notin Inside
    BY <2>1, <2>3, <1>1, <1>5 DEF Moves, BreakerInv, OneMethod, Inside
  <2> QED BY <2>2, <2>3
<1>9. Watched'
  <2>1. Inside' = {v \in Tasks : pc'[v] \in InMethod}
    BY DEF Inside
  <2> QED BY <2>1, <1>2 DEF Watched, Interleaving
<1>10. ReadsHold'
  <2> SUFFICES ASSUME ~ raced', NEW u \in Tasks
               PROVE  /\ pc'[u] = "toHalfOpen" => Recovered'
                      /\ pc'[u] = "toClosed" => circuit' # "open"
    BY DEF ReadsHold
  <2>1. ~ raced
    BY <1>2 DEF Interleaving
  <2>2. UNCHANGED keys => Recovered' = Recovered /\ circuit' = circuit
    BY DEF keys, Recovered
  <2>3. CASE u = t
    BY <2>3, <2>2, <1>1, <1>5 DEF Moves
  <2>4. CASE u # t /\ t \in Inside
    <3>1. u \notin Inside
      BY <2>1, <2>4, Alone
    <3> QED BY <3>1, <2>4, <1>5 DEF Inside, InMethod
  <2>5. CASE u # t /\ t \notin Inside
    BY <2>1, <2>2, <2>5, <1>1, <1>5 DEF Moves, BreakerInv, ReadsHold
  <2> QED BY <2>3, <2>4, <2>5
<1> QED BY <1>6, <1>7, <1>8, <1>9, <1>10 DEF BreakerInv

LEMMA NextBreaker == BreakerInv /\ [BreakerNext]_breakerVars => BreakerInv'
<1> SUFFICES ASSUME BreakerInv, [BreakerNext]_breakerVars PROVE BreakerInv'
  OBVIOUS
<1>1. CASE UNCHANGED breakerVars
  BY <1>1 DEF breakerVars, keys, BreakerInv, BreakerTypeOK, OpenIsDated, OneMethod, Watched, Inside,
              ReadsHold, Recovered
<1> QED BY <1>1, TickKeeps, OutageKeeps, TaskStepKeeps DEF BreakerNext

LEMMA BreakerInvariant == BreakerSpec => []BreakerInv
BY InitBreaker, NextBreaker, PTL DEF BreakerSpec

-----------------------------------------------------------------------------
(* Every key and every task keeps its type, whatever Redis does.           *)
THEOREM BreakerTypeCorrect == BreakerSpec => []BreakerTypeOK
<1>1. BreakerInv => BreakerTypeOK
  BY DEF BreakerInv
<1> QED BY <1>1, BreakerInvariant, PTL

(* No run leaves a circuit open without the time it was opened at, however *)
(* the runs' calls interleave and wherever Redis fails.                    *)
THEOREM OpenCircuitsAreDated == BreakerSpec => []OpenIsDated
<1>1. BreakerInv => OpenIsDated
  BY DEF BreakerInv
<1> QED BY <1>1, BreakerInvariant, PTL

(* An open circuit stays open for its recovery time, until two runs have   *)
(* been in a method at once.                                               *)
THEOREM OpenCircuitsWait == BreakerSpec => OpenForRecoveryTime
<1>1. ASSUME BreakerInv, [BreakerNext]_breakerVars, circuit = "open", circuit' # "open", ~ raced
      PROVE  openedAge > RecoveryTimeout
  <2>1. PICK t \in Tasks : TaskStep(t)
    BY <1>1 DEF BreakerNext, BreakerTick, Outage, keys, breakerVars
  <2>2. PICK label \in Labels : Moves(t, label)
    BY <2>1, <1>1, Steps
  <2>3. pc[t] \in {"toHalfOpen", "toClosed"}
    BY <2>2, <1>1 DEF Moves
  <2> QED BY <2>3, <1>1 DEF BreakerInv, ReadsHold, Recovered
<1>2. BreakerInv /\ [BreakerNext]_breakerVars
        => [circuit = "open" /\ circuit' # "open" /\ ~ raced
              => openedAge > RecoveryTimeout]_breakerVars
  BY <1>1
<1> QED BY <1>2, BreakerInvariant, PTL DEF BreakerSpec, OpenForRecoveryTime

(* One run alone never races with itself, whatever its tasks await.        *)
OneProcess == \A t, u \in Tasks : ProcessOf[t] = ProcessOf[u]

LEMMA OneProcessNeverRaces ==
  ASSUME OneProcess, ~ raced, [BreakerNext]_breakerVars
  PROVE  ~ raced'
<1>1. CASE UNCHANGED raced
  BY <1>1
<1>2. ASSUME NEW t \in Tasks, TaskStep(t) PROVE ~ raced'
  <2> DEFINE P == {ProcessOf[u] : u \in {v \in Tasks : pc'[v] \in InMethod}}
  <2>1. P \subseteq {ProcessOf[t]}
    BY <1>2 DEF OneProcess
  <2>2. IsFiniteSet({ProcessOf[t]}) /\ Cardinality({ProcessOf[t]}) = 1
    BY FS_Singleton
  <2>3. IsFiniteSet(P) /\ Cardinality(P) <= 1
    BY <2>1, <2>2, FS_Subset
  <2>4. ~ Cardinality(P) > 1
    BY <2>3, FS_CardinalityType
  <2> QED BY <1>2, <2>4 DEF TaskStep, Interleaving
<1> QED BY <1>1, <1>2 DEF BreakerNext, BreakerTick, Outage, breakerVars

(* For the tasks of one run the docstring's promise has no exception: an   *)
(* open circuit stays open until its recovery timeout has expired.         *)
THEOREM OneRunWaits ==
  ASSUME OneProcess
  PROVE  BreakerSpec => [][circuit = "open" /\ circuit' # "open" => openedAge > RecoveryTimeout]_breakerVars
<1>1. BreakerInit => ~ raced
  BY DEF BreakerInit
<1>2. ~ raced /\ [BreakerNext]_breakerVars => ~ raced'
  BY OneProcessNeverRaces
<1>3. BreakerSpec => []~ raced
  BY <1>1, <1>2, PTL DEF BreakerSpec
<1>4. ~ raced /\ [circuit = "open" /\ circuit' # "open" /\ ~ raced => openedAge > RecoveryTimeout]_breakerVars
        => [circuit = "open" /\ circuit' # "open" => openedAge > RecoveryTimeout]_breakerVars
  OBVIOUS
<1> QED BY <1>3, <1>4, OpenCircuitsWait, PTL DEF OpenForRecoveryTime

-----------------------------------------------------------------------------
(* The scraper's tasks and the cooldown of their domain.                   *)
ParkType == [left : 0 .. Longest, blocks : 0 .. BlockCap, class : Classes]
TaskType ==
  [stage : {"new", "queued", "slot", "delay", "article", "failed", "deferred"}
             \cup Loading \cup Rescue,
   attempt : 0 .. MaxAttempts, why : {"-", "blocked", "unparsed"}]
EngineType == [{"camoufox", "browser"} -> {"cold", "ready", "unavailable"}]

LEMMA LongestIsLongest ==
  /\ Longest \in Nat
  /\ BotCap <= Longest /\ RateCap <= Longest /\ HardWindow <= Longest
<1>1. BotCap \in Nat /\ RateCap \in Nat /\ HardWindow \in Nat
  BY CooldownAssumption
<1>2. \E w \in {BotCap, RateCap, HardWindow} : \A v \in {BotCap, RateCap, HardWindow} : v <= w
  BY <1>1
<1> QED BY <1>1, <1>2 DEF Longest

(* What a block makes of the domain's window.                              *)
LEMMA BlocksArePunished ==
  ASSUME NEW p \in ParkType, NEW class \in Classes \ {"none"}
  PROVE  RecordBlock(p, class) \in ParkType
<1> DEFINE blocks == AtMost(p.blocks + 1, BlockCap)
<1>1. blocks \in 1 .. BlockCap
  BY CooldownAssumption DEF AtMost, ParkType
<1>2. ASSUME blocks >= Threshold(class) PROVE Window(class, blocks) \in 0 .. Longest
  <2>1. CASE class = "parser_hard"
    BY <2>1, LongestIsLongest, CooldownAssumption DEF Window
  <2>2. CASE class # "parser_hard"
    <3> DEFINE power == 2 ^ (blocks - Trigger)
    <3>1. blocks - Trigger \in 0 .. BlockCap
      BY <1>1, <1>2, <2>2, CooldownAssumption DEF Threshold
    <3>2. power \in Nat
      BY <3>1, CooldownAssumption
    <3> HIDE DEF power
    <3>3. RateBase * power \in Nat /\ BotBase * power \in Nat
      BY <3>2, CooldownAssumption
    <3>4. /\ AtMost(RateCap, RateBase * power) \in 0 .. Longest
          /\ AtMost(BotCap, BotBase * power) \in 0 .. Longest
      BY <3>3, LongestIsLongest, CooldownAssumption DEF AtMost
    <3>5. class = "rate_limit" \/ class = "bot_block"
      BY <2>2 DEF Classes
    <3> QED BY <3>4, <3>5 DEF Window, power
  <2> QED BY <2>1, <2>2
<1>3. p.left \in 0 .. Longest
  BY DEF ParkType
<1> HIDE DEF blocks
<1>4. [left |-> IF blocks < Threshold(class) THEN p.left ELSE Window(class, blocks),
       blocks |-> blocks, class |-> class] \in ParkType
  <2>1. Threshold(class) \in Int
    BY CooldownAssumption DEF Threshold
  <2> QED BY <1>1, <1>2, <1>3, <2>1 DEF ParkType
<1> QED BY <1>4 DEF RecordBlock, blocks

LEMMA FreshIsTyped == Fresh \in ParkType /\ IsCool(Fresh)
BY LongestIsLongest, CooldownAssumption DEF Fresh, ParkType, Classes, IsCool

LEMMA Budgets == MaxAttempts \in Nat
BY BatchAssumption DEF MaxAttempts

(* Records with a field set.                                               *)
LEMMA TaskSet ==
  ASSUME NEW t \in TaskType, NEW stage \in {"queued", "slot", "delay", "article", "failed",
                                              "deferred"} \cup Loading \cup Rescue
  PROVE  /\ [t EXCEPT !.stage = stage] \in TaskType
         /\ [t EXCEPT !.stage = stage].attempt = t.attempt
BY DEF TaskType

(* An attempt begins while the domain is not parked, or none does.         *)
LEMMA AttemptAsks ==
  ASSUME NEW t \in TaskType, NEW p
  PROVE  /\ Attempt(t, p) \in TaskType
         /\ Attempt(t, p).attempt > t.attempt => IsCool(p)
<1>1. t.attempt \in 0 .. MaxAttempts /\ MaxAttempts \in Nat
  BY Budgets DEF TaskType
<1>2. CASE t.attempt = MaxAttempts
  BY <1>1, <1>2, TaskSet DEF Attempt
<1>3. CASE t.attempt # MaxAttempts /\ IsCool(p)
  <2>1. Attempt(t, p) = [t EXCEPT !.stage = "fetch", !.attempt = @ + 1]
    BY <1>3 DEF Attempt
  <2>2. t.attempt + 1 \in 0 .. MaxAttempts
    BY <1>1, <1>3
  <2> QED BY <1>3, <2>1, <2>2 DEF TaskType, Loading
<1>4. CASE t.attempt # MaxAttempts /\ ~ IsCool(p)
  <2>1. Attempt(t, p) = [t EXCEPT !.stage = "deferred"]
    BY <1>4 DEF Attempt
  <2> QED BY <1>1, <2>1, TaskSet
<1> QED BY <1>2, <1>3, <1>4

LEMMA RescueAsksNothing ==
  ASSUME NEW t \in TaskType, NEW why \in {"blocked", "unparsed"}
  PROVE  Rescued(t, why) \in TaskType /\ Rescued(t, why).attempt = t.attempt
BY DEF Rescued, TaskType, Rescue

(* What a step of u may do: its record alone changes, the window stays a   *)
(* window, and if it starts an attempt the domain is not parked.           *)
TaskEffect(u) ==
  /\ park' \in ParkType /\ engine' \in EngineType /\ warm' \in BOOLEAN
  /\ \E t \in TaskType : /\ task' = [task EXCEPT ![u] = t]
                         /\ t.attempt > task[u].attempt => IsCool(park')

(* Those that turn u to another stage and leave the window alone.          *)
LEMMA MovingOn ==
  ASSUME TypeOK, NEW u \in Urls, UNCHANGED park,
         engine' \in EngineType, warm' \in BOOLEAN,
         NEW stage \in {"queued", "slot", "delay", "article", "failed", "deferred"}
                         \cup Loading \cup Rescue,
         Become(u, stage)
  PROVE  TaskEffect(u)
<1> DEFINE t == [task[u] EXCEPT !.stage = stage]
<1>1. task[u] \in TaskType
  BY DEF TypeOK, TaskType
<1>2. t \in TaskType /\ t.attempt = task[u].attempt /\ t.attempt \in Nat
  BY <1>1, TaskSet DEF TaskType
<1>3. task' = [task EXCEPT ![u] = t]
  BY DEF Become
<1>4. park' \in ParkType
  BY DEF TypeOK, CooldownTypeOK, ParkType
<1> HIDE DEF t
<1>5. ~ t.attempt > task[u].attempt
  BY <1>2
<1> QED BY <1>2, <1>3, <1>4, <1>5 DEF TaskEffect

(* ... and those that also say what the attempt came to.                   *)
LEMMA Settling ==
  ASSUME TypeOK, NEW u \in Urls, park' \in ParkType, UNCHANGED <<engine, warm>>,
         NEW stage \in {"article", "failed"}, Become(u, stage)
  PROVE  TaskEffect(u)
<1> DEFINE t == [task[u] EXCEPT !.stage = stage]
<1>1. task[u] \in TaskType
  BY DEF TypeOK, TaskType
<1>2. t \in TaskType /\ t.attempt = task[u].attempt /\ t.attempt \in Nat
  BY <1>1, TaskSet DEF TaskType
<1>3. task' = [task EXCEPT ![u] = t]
  BY DEF Become
<1>4. engine' \in EngineType /\ warm' \in BOOLEAN
  BY DEF TypeOK, EngineType
<1> HIDE DEF t
<1>5. ~ t.attempt > task[u].attempt
  BY <1>2
<1> QED BY <1>2, <1>3, <1>4, <1>5 DEF TaskEffect

(* A task's new record, whatever it is.                                    *)
LEMMA Turning ==
  ASSUME TypeOK, NEW u \in Urls, park' \in ParkType, UNCHANGED <<engine, warm>>,
         NEW t \in TaskType, task' = [task EXCEPT ![u] = t],
         t.attempt > task[u].attempt => IsCool(park')
  PROVE  TaskEffect(u)
<1>1. engine' \in EngineType /\ warm' \in BOOLEAN
  BY DEF TypeOK, EngineType
<1> QED BY <1>1 DEF TaskEffect

LEMMA ParkChanges ==
  ASSUME TypeOK
  PROVE  /\ UNCHANGED park => park' \in ParkType
         /\ \A class \in Classes \ {"none"} : Blocked(class) => park' \in ParkType
         /\ Succeeded => park' \in ParkType
<1>1. park \in ParkType
  BY DEF TypeOK, CooldownTypeOK, ParkType
<1> QED
  BY <1>1, BlocksArePunished, FreshIsTyped DEF Blocked, Succeeded, RecordSuccess

(* Before the request.                                                     *)
LEMMA WaitingSteps ==
  ASSUME TypeOK, NEW u \in Urls,
         TurnedDown(u) \/ Begin(u) \/ TakeGlobal(u) \/ TakeDomain(u) \/ Refetch(u)
  PROVE  TaskEffect(u)
<1>1. engine \in EngineType /\ warm \in BOOLEAN
  BY DEF TypeOK, EngineType
<1>2. Opened(u) => engine' \in EngineType /\ warm' \in BOOLEAN
  BY <1>1 DEF Opened, NoEngine, EngineType
<1>3. CASE TurnedDown(u)
  BY <1>2, <1>3, MovingOn DEF TurnedDown
<1>4. CASE Begin(u)
  <2>1. \E stage \in {"queued", "deferred"} : Become(u, stage)
    BY <1>4 DEF Begin
  <2> QED BY <1>2, <1>4, <2>1, MovingOn DEF Begin
<1>5. CASE TakeGlobal(u)
  BY <1>1, <1>5, MovingOn DEF TakeGlobal
<1>6. CASE TakeDomain(u)
  BY <1>1, <1>6, MovingOn DEF TakeDomain
<1>7. CASE Refetch(u)
  BY <1>1, <1>7, MovingOn DEF Refetch, Loading
<1> QED BY <1>3, <1>4, <1>5, <1>6, <1>7

(* The retry loop: its head, and what comes round to it.                   *)
LEMMA RetrySteps ==
  ASSUME TypeOK, NEW u \in Urls, Request(u) \/ RequestRaises(u) \/ Refused(u)
  PROVE  TaskEffect(u)
<1>1. task[u] \in TaskType /\ task[u].attempt \in Nat /\ task \in [Urls -> TaskType]
  BY Budgets DEF TypeOK, TaskType
<1>2. \A p : /\ Attempt(task[u], p) \in TaskType
             /\ Attempt(task[u], p).attempt > task[u].attempt => IsCool(p)
  BY <1>1, AttemptAsks
<1>3. /\ [task[u] EXCEPT !.stage = "failed"] \in TaskType
      /\ ~ [task[u] EXCEPT !.stage = "failed"].attempt > task[u].attempt
  <2>1. /\ [task[u] EXCEPT !.stage = "failed"] \in TaskType
        /\ [task[u] EXCEPT !.stage = "failed"].attempt = task[u].attempt
    BY <1>1, TaskSet
  <2>2. ~ task[u].attempt > task[u].attempt
    BY <1>1
  <2> QED BY <2>1, <2>2
<1>4. Rescued(task[u], "blocked") \in TaskType
      /\ ~ Rescued(task[u], "blocked").attempt > task[u].attempt
  BY <1>1, RescueAsksNothing
<1>5. CASE Request(u)
  <2>1. task' = [task EXCEPT ![u] = Attempt(task[u], park)]
    BY <1>5 DEF Request
  <2> QED BY <1>2, <1>5, <2>1, ParkChanges, Turning DEF Request
<1>6. CASE RequestRaises(u)
  <2>1. PICK error \in {"timeout", "connection_reset"} :
          task' = [task EXCEPT ![u] = IF task[u].attempt < Budget(error)
                                      THEN Attempt(task[u], park)
                                      ELSE [task[u] EXCEPT !.stage = "failed"]]
    BY <1>6 DEF RequestRaises
  <2>2. UNCHANGED <<park, engine, warm>>
    BY <1>6 DEF RequestRaises
  <2>3. CASE task[u].attempt < Budget(error)
    BY <1>2, <2>1, <2>2, <2>3, ParkChanges, Turning
  <2>4. CASE ~ task[u].attempt < Budget(error)
    BY <1>3, <2>1, <2>2, <2>4, ParkChanges, Turning
  <2> QED BY <2>3, <2>4
<1>7. CASE Refused(u)
  <2>1. PICK error :
          /\ IF Class(error) \in {"bot_block", "rate_limit"}
             THEN Blocked(Class(error)) ELSE UNCHANGED park
          /\ task' = [task EXCEPT ![u] =
                        IF task[u].attempt < Budget(error) THEN Attempt(task[u], park')
                        ELSE IF Class(error) = "bot_block" THEN Rescued(task[u], "blocked")
                        ELSE [task[u] EXCEPT !.stage = "failed"]]
    BY <1>7 DEF Refused
  <2>2. UNCHANGED <<engine, warm>>
    BY <1>7 DEF Refused
  <2>3. park' \in ParkType
    BY <2>1, ParkChanges DEF Classes
  <2>4. CASE task[u].attempt < Budget(error)
    <3>1. task' = [task EXCEPT ![u] = Attempt(task[u], park')]
      BY <2>1, <2>4
    <3> QED BY <1>2, <2>2, <2>3, <3>1, Turning
  <2>5. CASE ~ task[u].attempt < Budget(error) /\ Class(error) = "bot_block"
    <3>1. task' = [task EXCEPT ![u] = Rescued(task[u], "blocked")]
      BY <2>1, <2>5
    <3> QED BY <1>4, <2>2, <2>3, <3>1, Turning
  <2>6. CASE ~ task[u].attempt < Budget(error) /\ Class(error) # "bot_block"
    <3>1. task' = [task EXCEPT ![u] = [task[u] EXCEPT !.stage = "failed"]]
      BY <2>1, <2>6
    <3> QED BY <1>3, <2>2, <2>3, <3>1, Turning
  <2> QED BY <2>4, <2>5, <2>6
<1> QED BY <1>5, <1>6, <1>7

(* A page of an answer that is not blocked is missing or cannot be read.   *)
LEMMA Classification ==
  ASSUME NEW p \in Answers, ~ BlockedPage(p)
  PROVE  Class(ClassifyFailure(p)) = "parser_hard"
<1>1. p.status < 400
  BY DEF Answers
<1>2. ClassifyFailure(p) \in {"empty_content", "selector_missing"}
  BY <1>1 DEF ClassifyFailure
<1> QED BY <1>2 DEF Class

(* What an answer with a page comes to.                                    *)
LEMMA AnsweredSteps ==
  ASSUME TypeOK, NEW u \in Urls,
         NotHtml(u) \/ Challenged(u) \/ Parsed(u) \/ NothingParsed(u)
  PROVE  TaskEffect(u)
<1>1. task[u] \in TaskType /\ task[u].attempt \in Nat
  BY Budgets DEF TypeOK, TaskType
<1>2. \A why \in {"blocked", "unparsed"} :
        /\ Rescued(task[u], why) \in TaskType
        /\ ~ Rescued(task[u], why).attempt > task[u].attempt
  BY <1>1, RescueAsksNothing
<1>3. CASE NotHtml(u)
  BY <1>3, ParkChanges, Settling DEF NotHtml
<1>4. CASE Challenged(u)
  <2>1. task' = [task EXCEPT ![u] = Rescued(task[u], "blocked")]
    BY <1>4 DEF Challenged
  <2>2. park' \in ParkType /\ UNCHANGED <<engine, warm>>
    BY <1>4, ParkChanges DEF Challenged, Classes
  <2> QED BY <1>2, <2>1, <2>2, Turning
<1>5. CASE Parsed(u)
  BY <1>5, ParkChanges, Settling DEF Parsed
<1>6. CASE NothingParsed(u)
  <2>1. PICK p \in Answers :
          /\ ~ BlockedPage(p)
          /\ IF ClassifyFailure(p) = "selector_missing"
             THEN /\ task' = [task EXCEPT ![u] = Rescued(task[u], "unparsed")]
                  /\ UNCHANGED park
             ELSE Become(u, "failed") /\ Blocked(Class(ClassifyFailure(p)))
    BY <1>6 DEF NothingParsed
  <2>2. UNCHANGED <<engine, warm>>
    BY <1>6 DEF NothingParsed
  <2>3. CASE ClassifyFailure(p) = "selector_missing"
    <3>1. task' = [task EXCEPT ![u] = Rescued(task[u], "unparsed")] /\ UNCHANGED park
      BY <2>1, <2>3
    <3> QED BY <1>2, <2>2, <3>1, ParkChanges, Turning
  <2>4. CASE ClassifyFailure(p) # "selector_missing"
    <3>1. Class(ClassifyFailure(p)) = "parser_hard"
      BY <2>1, Classification
    <3>2. Blocked("parser_hard") /\ Become(u, "failed")
      BY <2>1, <2>4, <3>1
    <3>3. park' \in ParkType
      BY <3>2, ParkChanges DEF Classes
    <3> QED BY <2>2, <3>2, <3>3, Settling
  <2> QED BY <2>3, <2>4
<1> QED BY <1>3, <1>4, <1>5, <1>6

(* The browsers.                                                           *)
LEMMA RescueSteps ==
  ASSUME TypeOK, NEW u \in Urls,
         Unavailable(u) \/ TakeEngine(u) \/ WarmUp(u) \/ WarmedUp(u) \/ RenderFails(u)
           \/ Rendered(u) \/ Raises(u)
  PROVE  TaskEffect(u)
<1>1. engine \in EngineType /\ warm \in BOOLEAN
  BY DEF TypeOK, EngineType
<1>2. ASSUME RescueFails(u), UNCHANGED <<engine, warm>> PROVE TaskEffect(u)
  <2>1. CASE Become(u, "browser") /\ UNCHANGED park
    BY <1>1, <1>2, <2>1, MovingOn DEF Rescue
  <2>2. CASE Become(u, "failed") /\ (UNCHANGED park \/ Blocked("parser_hard"))
    <3>1. park' \in ParkType
      BY <2>2, ParkChanges DEF Classes
    <3> QED BY <1>2, <2>2, <3>1, Settling
  <2> QED BY <1>2, <2>1, <2>2 DEF RescueFails
<1>3. CASE Unavailable(u) \/ RenderFails(u)
  BY <1>2, <1>3 DEF Unavailable, RenderFails
<1>4. CASE TakeEngine(u)
  <2>1. \E stage \in Rescue : Become(u, stage)
    BY <1>4 DEF TakeEngine, Page, Rescue
  <2> QED BY <1>1, <1>4, <2>1, MovingOn DEF TakeEngine
<1>5. CASE WarmUp(u)
  <2>1. \E stage \in Rescue : Become(u, stage)
    BY <1>5 DEF WarmUp, Rescue
  <2> QED BY <1>1, <1>5, <2>1, MovingOn DEF WarmUp
<1>6. CASE WarmedUp(u)
  BY <1>1, <1>6, MovingOn DEF WarmedUp, Rescue
<1>7. CASE Rendered(u)
  BY <1>7, ParkChanges, Settling DEF Rendered
<1>8. CASE Raises(u)
  <2>1. park' \in ParkType
    BY <1>8, ParkChanges DEF Raises, Classes
  <2> QED BY <1>8, <2>1, Settling DEF Raises
<1> QED BY <1>3, <1>4, <1>5, <1>6, <1>7, <1>8

(* A launch is no task's: the browser's state alone changes.               *)
LEMMA Launching ==
  ASSUME TypeOK, NEW u \in Urls, Launch(u)
  PROVE  UNCHANGED <<park, task, warm>> /\ engine' \in EngineType
BY DEF Launch, TypeOK, EngineType

LEMMA TickKeepsPark ==
  ASSUME TypeOK, Tick
  PROVE  park' \in ParkType
<1>1. park \in ParkType /\ park.left \in 0 .. Longest /\ park.left # 0 /\ Longest \in Nat
  BY LongestIsLongest DEF TypeOK, CooldownTypeOK, ParkType, Tick, IsCool
<1>2. park' = [park EXCEPT !.left = park.left - 1]
  BY <1>1 DEF Tick, Later
<1>3. park.left - 1 \in 0 .. Longest
  BY <1>1
<1> QED BY <1>1, <1>2, <1>3 DEF ParkType

(* Every step leaves the records typed and asks before an attempt.         *)
LEMMA ScrapeStep ==
  ASSUME TypeOK, [Next]_vars
  PROVE  /\ TypeOK'
         /\ \A u \in Urls : task'[u].attempt > task[u].attempt => IsCool(park')
<1>1. /\ park \in ParkType /\ task \in [Urls -> TaskType] /\ engine \in EngineType
      /\ warm \in BOOLEAN
  BY DEF TypeOK, CooldownTypeOK, ParkType, TaskType, EngineType
<1>2. \A u \in Urls : ~ task[u].attempt > task[u].attempt
  BY <1>1, Budgets DEF TaskType
<1>3. CASE UNCHANGED task
  <2>1. park' \in ParkType /\ engine' \in EngineType /\ warm' \in BOOLEAN
    <3>1. CASE UNCHANGED vars
      BY <1>1, <3>1 DEF vars
    <3>2. CASE Tick
      BY <1>1, <3>2, TickKeepsPark DEF Tick
    <3>3. ASSUME NEW u \in Urls, Launch(u)
          PROVE  park' \in ParkType /\ engine' \in EngineType /\ warm' \in BOOLEAN
      BY <1>1, <3>3, Launching
    <3>4. ASSUME NEW u \in Urls, Step(u), ~ Launch(u) PROVE TaskEffect(u)
      BY <3>4, WaitingSteps, RetrySteps, AnsweredSteps, RescueSteps DEF Step
    <3> QED BY <3>1, <3>2, <3>3, <3>4 DEF Next, TaskEffect
  <2>2. TypeOK'
    BY <1>1, <1>3, <2>1 DEF TypeOK, CooldownTypeOK, ParkType, TaskType, EngineType
  <2> QED BY <1>2, <1>3, <2>2
<1>4. CASE ~ UNCHANGED task
  <2>1. PICK u \in Urls : Step(u)
    BY <1>4 DEF Next, Tick, vars
  <2>2. ~ Launch(u)
    BY <1>4, Launching
  <2>3. TaskEffect(u)
    BY <2>1, <2>2, WaitingSteps, RetrySteps, AnsweredSteps, RescueSteps DEF Step
  <2>4. PICK t \in TaskType : /\ task' = [task EXCEPT ![u] = t]
                              /\ t.attempt > task[u].attempt => IsCool(park')
    BY <2>3 DEF TaskEffect
  <2>5. /\ task' \in [Urls -> TaskType] /\ task'[u] = t
        /\ \A v \in Urls \ {u} : task'[v] = task[v]
    BY <1>1, <2>4
  <2>6. TypeOK'
    BY <2>3, <2>5 DEF TaskEffect, TypeOK, CooldownTypeOK, ParkType, TaskType, EngineType
  <2>7. ASSUME NEW v \in Urls, task'[v].attempt > task[v].attempt PROVE IsCool(park')
    BY <1>2, <2>4, <2>5, <2>7
  <2> QED BY <2>6, <2>7
<1> QED BY <1>3, <1>4

LEMMA EngineRecords == NoEngine \in EngineType
<1>1. DOMAIN NoEngine = {"camoufox", "browser"}
  BY DEF NoEngine
<1>2. NoEngine = [e \in {"camoufox", "browser"} |-> NoEngine[e]]
  BY DEF NoEngine
<1>3. NoEngine["camoufox"] = "cold" /\ NoEngine["browser"] = "cold"
  BY DEF NoEngine
<1> QED BY <1>2, <1>3 DEF EngineType

LEMMA InitScrape == Init => TypeOK
<1> SUFFICES ASSUME Init PROVE TypeOK
  OBVIOUS
<1>1. CooldownTypeOK
  BY FreshIsTyped DEF Init, CooldownTypeOK, ParkType
<1>2. task \in [Urls -> TaskType]
  BY Budgets DEF Init, TaskType
<1>3. engine \in EngineType /\ warm \in BOOLEAN
  <2>1. engine = NoEngine /\ warm = FALSE
    BY DEF Init
  <2>2. NoEngine \in EngineType
    BY EngineRecords
  <2> QED BY <2>1, <2>2
<1> QED BY <1>1, <1>2, <1>3 DEF TypeOK, TaskType, EngineType

(* The window, the tasks and the browsers keep their types: no attempt     *)
(* beyond the budget, no window beyond the cap of its class.               *)
THEOREM ScrapeTypeCorrect == Spec => []TypeOK
<1>1. TypeOK /\ [Next]_vars => TypeOK'
  BY ScrapeStep
<1> QED BY <1>1, InitScrape, PTL DEF Spec

(* No attempt begins while its domain is parked, whatever the pages, the   *)
(* number of tasks and slots, the budgets and the lengths of the windows.  *)
THEOREM NoAttemptWhileParked == Spec => NoRequestWhileParked
<1>1. TypeOK /\ [Next]_vars
        => [\A u \in Urls : task'[u].attempt > task[u].attempt => IsCool(park')]_vars
  BY ScrapeStep
<1> QED BY <1>1, ScrapeTypeCorrect, PTL DEF Spec, NoRequestWhileParked
=============================================================================
