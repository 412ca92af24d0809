-------------------------- MODULE PlatformBreaker --------------------------
(***************************************************************************)
(* CircuitBreaker of mapear_infra/circuit_breaker.py, one per platform and *)
(* process.  Its methods run under a lock: each is one step.               *)
(***************************************************************************)
EXTENDS Integers

CONSTANTS Threshold, RecoveryTimeout, HalfOpenMaxCalls

ASSUME BreakerAssumption ==
  /\ Threshold \in Nat \ {0}
  /\ {RecoveryTimeout, HalfOpenMaxCalls} \subseteq Nat

NewBreaker == [state |-> "closed", failures |-> 0, failedAt |-> 0, probes |-> 0]

BreakerType == [state : {"closed", "open", "half_open"}, failures : Nat,
                failedAt : Nat, probes : 0..HalfOpenMaxCalls]

RecoveredEarly(b, time) == time - b.failedAt >= 0
Recovered(b, time) == time - b.failedAt >= RecoveryTimeout

\* allow_call: the answer, and what it leaves behind.  The call that finds the
\* timeout over is let through without being counted as a probe.
Allows(b, time) ==
  CASE b.state = "closed" -> TRUE
    [] b.state = "open" -> Recovered(b, time)
    [] b.state = "half_open" -> b.probes < HalfOpenMaxCalls

Asked(b, time) ==
  CASE b.state = "open" /\ Allows(b, time) -> [b EXCEPT !.state = "half_open", !.probes = 0]
    [] b.state = "half_open" /\ Allows(b, time) -> [b EXCEPT !.probes = @ + 1]
    [] OTHER -> b

OnSuccess(b) == [b EXCEPT !.state = "closed", !.failures = 0]

ShouldOpen(b) == b.failures + 1 >= Threshold \/ b.state = "half_open"
OnFailure(b, time) ==
  [b EXCEPT !.failures = @ + 1, !.failedAt = time,
            !.state = IF ShouldOpen(b) THEN "open" ELSE @]
=============================================================================
