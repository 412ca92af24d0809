--------------------------- MODULE DomainBreaker ---------------------------
(***************************************************************************)
(* The circuit breaker of one domain (mapear_rss/extraction/               *)
(* circuit_breaker.py), in four Redis keys that all runs share, and the    *)
(* scraping tasks that consult it.  Every Redis call is one step.  Within  *)
(* a process the calls of one method follow each other with no other task  *)
(* in between, for the client is synchronous and the tasks are coroutines; *)
(* two processes interleave call by call.                                  *)
(***************************************************************************)
EXTENDS Integers, FiniteSets

CONSTANTS
  Tasks,
  ProcessOf,         \* the run each task belongs to
  FailureThreshold,  \* failure_threshold
  RecoveryTimeout,   \* recovery_timeout, in ticks
  HalfOpenRequests,  \* half_open_requests
  RedisMayFail,      \* whether Redis may be unavailable
  NULL               \* no such key

ASSUME BreakerAssumption ==
  /\ IsFiniteSet(Tasks)
  /\ FailureThreshold \in Nat \ {0} /\ RecoveryTimeout \in Nat
  /\ HalfOpenRequests \in Nat \ {0}
  /\ RedisMayFail \in BOOLEAN /\ NULL \notin Int

VARIABLES
  circuit,        \* the key "state", "closed" when it is missing
  openedAge,      \* now - opened_at, saturated above RecoveryTimeout
  halfOpenCount,  \* the key "half_open_count"
  failures,       \* the key "failures", saturated at FailureThreshold
  ttl,            \* time until it expires, NULL when it does not
  pc,             \* the next call of each task
  available,      \* whether Redis answers
  raced           \* history: whether two processes have been in a method at once

keys == <<circuit, openedAge, halfOpenCount, failures, ttl>>
breakerVars == <<keys, pc, available, raced>>

InMethod == {"readOpenedAt", "toHalfOpen", "readCount", "toClosed", "forget", "reopen",
             "count", "expire", "expireThenOpen", "toOpen"}

Goto(t, label) == pc' = [pc EXCEPT ![t] = label]

\* A method begins when no other task of the process is in one.
Begins(t, label) ==
  /\ pc[t] = label
  /\ \A u \in Tasks \ {t} : ProcessOf[u] = ProcessOf[t] => pc[u] \notin InMethod

LetThrough(t) == Goto(t, "fetch")
TurnedAway(t) == Goto(t, "idle")

-----------------------------------------------------------------------------
(* _transition: one MULTI/EXEC each.                                       *)
OpenUndated == circuit' = "open" /\ UNCHANGED <<openedAge, halfOpenCount, failures, ttl>>
Open ==
  /\ circuit' = "open" /\ openedAge' = 0
  /\ UNCHANGED <<halfOpenCount, failures, ttl>>

HalfOpenMisspelt ==
  /\ circuit' = "half-open" /\ halfOpenCount' = 0
  /\ UNCHANGED <<openedAge, failures, ttl>>
HalfOpen ==
  /\ circuit' = "half_open" /\ halfOpenCount' = 0
  /\ UNCHANGED <<openedAge, failures, ttl>>

Forgotten == failures' = NULL /\ ttl' = NULL

Close ==
  /\ circuit' = "closed" /\ openedAge' = NULL /\ halfOpenCount' = NULL
  /\ Forgotten

(* is_allowed; the task is idle again when the URL is refused.             *)
IsAllowed(t) ==
  /\ Begins(t, "idle")
  /\ CASE circuit = "closed" -> LetThrough(t)
       [] circuit = "open" -> Goto(t, "readOpenedAt")
       [] circuit = "half_open" -> Goto(t, "readCount")
  /\ UNCHANGED keys

RecoveredAtOnce == openedAge # NULL
Recovered == openedAge # NULL /\ openedAge > RecoveryTimeout

ReadOpenedAt(t) ==
  /\ pc[t] = "readOpenedAt"
  /\ Goto(t, IF Recovered THEN "toHalfOpen" ELSE "idle")
  /\ UNCHANGED keys

ToHalfOpen(t) ==
  /\ pc[t] = "toHalfOpen"
  /\ HalfOpen
  /\ Goto(t, "fetch")

\* Nothing ever increments half_open_count.
ReadCount(t) ==
  /\ pc[t] = "readCount"
  /\ UNCHANGED keys
  /\ IF halfOpenCount = NULL \/ halfOpenCount < HalfOpenRequests
     THEN LetThrough(t) ELSE TurnedAway(t)

(* The request.  One that is neither a success nor a failure (not HTML, no *)
(* article in it) is not recorded.                                         *)
NotRecorded(t) ==
  /\ pc[t] = "fetch"
  /\ Goto(t, "idle")
  /\ UNCHANGED keys

(* record_success                                                          *)
BreakerRecordSuccess(t) ==
  /\ Begins(t, "fetch")
  /\ Goto(t, IF circuit = "half_open" THEN "toClosed" ELSE "forget")
  /\ UNCHANGED keys

ToClosed(t) ==
  /\ pc[t] = "toClosed"
  /\ Close
  /\ Goto(t, "forget")

Forget(t) ==
  /\ pc[t] = "forget"
  /\ Forgotten
  /\ Goto(t, "idle")
  /\ UNCHANGED <<circuit, openedAge, halfOpenCount>>

(* record_failure                                                          *)
RecordFailure(t) ==
  /\ Begins(t, "fetch")
  /\ Goto(t, IF circuit = "half_open" THEN "reopen" ELSE "count")
  /\ UNCHANGED keys

Counted == IF failures = NULL THEN 1 ELSE IF failures < FailureThreshold THEN failures + 1 ELSE failures

Count(t) ==
  /\ pc[t] = "count"
  /\ failures' = Counted
  /\ Goto(t, IF Counted >= FailureThreshold THEN "expireThenOpen" ELSE "expire")
  /\ UNCHANGED <<circuit, openedAge, halfOpenCount, ttl>>

\* EXPIRE of a key that another process has deleted meanwhile does nothing.
Expire(t) ==
  /\ pc[t] \in {"expire", "expireThenOpen"}
  /\ ttl' = IF failures = NULL THEN NULL ELSE 2 * RecoveryTimeout
  /\ Goto(t, IF pc[t] = "expire" THEN "idle" ELSE "toOpen")
  /\ UNCHANGED <<circuit, openedAge, halfOpenCount, failures>>

ToOpen(t) ==
  /\ pc[t] \in {"reopen", "toOpen"}
  /\ Open
  /\ Goto(t, "idle")

(* A call raises ConnectionError.  The first read of is_allowed and all of *)
(* record_* are guarded; the later calls of is_allowed are not.            *)
RedisFails(t) ==
  /\ ~ available
  /\ \/ Begins(t, "idle") /\ Goto(t, "fetch")
     \/ pc[t] \in {"readOpenedAt", "toHalfOpen", "readCount"} /\ Goto(t, "raised")
     \/ pc[t] \in InMethod \ {"readOpenedAt", "toHalfOpen", "readCount"} /\ Goto(t, "idle")
  /\ UNCHANGED keys

\* gather collects the exception; the task's URL has failed.
Settle(t) == pc[t] = "raised" /\ TurnedAway(t) /\ UNCHANGED keys

BreakerTick ==
  /\ openedAge' = IF openedAge = NULL \/ openedAge > RecoveryTimeout THEN openedAge
                  ELSE openedAge + 1
  /\ IF ttl = 0 THEN Forgotten
     ELSE ttl' = (IF ttl = NULL THEN NULL ELSE ttl - 1) /\ UNCHANGED failures
  /\ UNCHANGED <<circuit, halfOpenCount, pc, available, raced>>

Outage ==
  /\ RedisMayFail
  /\ available' = ~ available
  /\ UNCHANGED <<keys, pc, raced>>

BreakerInit ==
  /\ circuit = "closed" /\ openedAge = NULL /\ halfOpenCount = NULL
  /\ failures = NULL /\ ttl = NULL
  /\ pc = [t \in Tasks |-> "idle"]
  /\ available = TRUE
  /\ raced = FALSE

Interleaving ==
  raced' = (raced \/ Cardinality({ProcessOf[u] : u \in {v \in Tasks : pc'[v] \in InMethod}}) > 1)

RedisCall(t) ==
  /\ available
  /\ \/ IsAllowed(t) \/ ReadOpenedAt(t) \/ ToHalfOpen(t) \/ ReadCount(t)
     \/ BreakerRecordSuccess(t) \/ ToClosed(t) \/ Forget(t)
     \/ RecordFailure(t) \/ Count(t) \/ Expire(t) \/ ToOpen(t)

TaskStep(t) ==
  /\ RedisCall(t) \/ RedisFails(t) \/ NotRecorded(t) \/ Settle(t)
  /\ Interleaving
  /\ UNCHANGED available

BreakerNext == BreakerTick \/ Outage \/ \E t \in Tasks : TaskStep(t)

BreakerSpec == BreakerInit /\ [][BreakerNext]_breakerVars

\* Requests to the domain keep coming, every request has a timeout, and from
\* some time on Redis answers.
FairBreakerSpec ==
  /\ BreakerSpec
  /\ WF_breakerVars(BreakerTick)
  /\ \A t \in Tasks : WF_breakerVars(TaskStep(t))
  /\ <>[]available

BreakerTypeOK ==
  /\ circuit \in {"closed", "open", "half_open"}
  /\ openedAge \in 0 .. RecoveryTimeout + 1 \cup {NULL}
  /\ halfOpenCount \in {0, NULL}
  /\ failures \in 1 .. FailureThreshold \cup {NULL}
  /\ ttl \in 0 .. 2 * RecoveryTimeout \cup {NULL}
  /\ pc \in [Tasks -> {"idle", "fetch", "raised"} \cup InMethod]
  /\ available \in BOOLEAN
  /\ raced \in BOOLEAN

-----------------------------------------------------------------------------
(* An open circuit can always recover: is_allowed never half-opens one     *)
(* whose opened_at is missing, and the transition to "closed" of another   *)
(* process deletes that key.                                               *)
OpenIsDated == circuit = "open" => openedAge # NULL

(* An open circuit stays open until the recovery timeout has expired       *)
(* (module docstring), counted from the failure that opened it last, as    *)
(* long as no two runs have interleaved their calls.  Nothing keeps them   *)
(* from it: a run that has read an old opened_at half-opens the circuit    *)
(* that another has just opened again.                                     *)
OpenForRecoveryTime ==
  [][circuit = "open" /\ circuit' # "open" /\ ~ raced => openedAge > RecoveryTimeout]_breakerVars

(* A domain is not cut off for good: while requests for it keep coming, an *)
(* open circuit is tested again.                                           *)
Recovers == circuit = "open" ~> circuit # "open"
=============================================================================
