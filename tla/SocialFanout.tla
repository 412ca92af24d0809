---------------------------- MODULE SocialFanout ----------------------------
(***************************************************************************)
(* run_all_platforms of mapear_social/parallel.py: one thread per platform,*)
(* each behind its breaker, and a barrier that waits for all of them.  The *)
(* breakers may be handed from one attempt to the next in the same process.*)
(* A platform's pipeline is seen as the actor run it waits for and, behind *)
(* it, an outcome of its own (SocialPipeline has the rest).                *)
(***************************************************************************)
EXTENDS ApifyClient, PlatformBreaker, FiniteSets

CONSTANTS
  Attempts,  \* bound on the attempts of one process
  MaxClock    \* bound on the clock

ASSUME FanoutAssumption == {Attempts, MaxClock} \subseteq Nat

VARIABLES
  clock,
  attempt,  \* number of the attempt under way or done; 0 before the first
  thread,   \* "none", "running" or the result of this attempt
  breaker,
  streak    \* history: failures of a platform since its last success

fanoutVars == <<apify, clock, attempt, thread, breaker, streak>>

Results == {"success", "failed", "circuit_breaker_open"}
AtBarrier == \A p \in Platforms : thread[p] \in Results

FanoutTick ==
  /\ clock < MaxClock
  /\ clock' = clock + 1
  /\ UNCHANGED <<apify, attempt, thread, breaker, streak>>

\* _orchestrate, after the results of the attempt before were reported.
RunAllPlatforms ==
  /\ attempt < Attempts
  /\ attempt = 0 \/ AtBarrier
  /\ attempt' = attempt + 1
  /\ thread' = [p \in Platforms |-> "none"]
  /\ UNCHANGED <<apify, clock, breaker, streak>>

\* _run_platform_in_thread up to the call.
Launch(p) ==
  /\ attempt > 0 /\ thread[p] = "none"
  /\ breaker' = [breaker EXCEPT ![p] = Asked(@, clock)]
  /\ IF Allows(breaker[p], clock)
     THEN thread' = [thread EXCEPT ![p] = "running"] /\ RunActor(p)
     ELSE /\ thread' = [thread EXCEPT ![p] = "circuit_breaker_open"]
          /\ UNCHANGED apify
  /\ UNCHANGED <<clock, attempt, streak>>

ActorStep(p) ==
  /\ ApifyStep(p) \/ Scrapes(p)
  /\ UNCHANGED <<clock, attempt, thread, breaker, streak>>

Returned(p) == thread[p] = "running" /\ client[p].result # "none"

\* With the items the pipeline goes on, and may still end in SystemExit or an
\* exception; without them it ends in one.
Succeeds(p) ==
  /\ Returned(p) /\ client[p].result = "items"
  /\ Discard(p)
  /\ thread' = [thread EXCEPT ![p] = "success"]
  /\ breaker' = [breaker EXCEPT ![p] = OnSuccess(@)]
  /\ streak' = [streak EXCEPT ![p] = 0]
  /\ UNCHANGED <<clock, attempt>>

FailsOnlyOnExit(p) ==
  /\ Returned(p) /\ client[p].result # "crashed"
  /\ Discard(p)
  /\ thread' = [thread EXCEPT ![p] = "failed"]
  /\ breaker' = [breaker EXCEPT ![p] = OnFailure(@, clock)]
  /\ streak' = [streak EXCEPT ![p] = @ + 1]
  /\ UNCHANGED <<clock, attempt>>
Fails(p) ==
  /\ Returned(p)
  /\ Discard(p)
  /\ thread' = [thread EXCEPT ![p] = "failed"]
  /\ breaker' = [breaker EXCEPT ![p] = OnFailure(@, clock)]
  /\ streak' = [streak EXCEPT ![p] = @ + 1]
  /\ UNCHANGED <<clock, attempt>>

FanoutInit ==
  /\ client = [p \in Platforms |-> NewClient]
  /\ remote = [p \in Platforms |-> NoRun]
  /\ clock = 0 /\ attempt = 0
  /\ thread = [p \in Platforms |-> "none"]
  /\ breaker = [p \in Platforms |-> NewBreaker]
  /\ streak = [p \in Platforms |-> 0]

FanoutNext ==
  \/ FanoutTick \/ RunAllPlatforms
  \/ \E p \in Platforms : Launch(p) \/ ActorStep(p) \/ Succeeds(p) \/ Fails(p)

\* The client's own steps and the threads'; nothing of the actor's.
Fairness ==
  \A p \in Platforms :
    /\ WF_fanoutVars(Launch(p)) /\ WF_fanoutVars(Succeeds(p) \/ Fails(p))
    /\ WF_fanoutVars(ApifyStep(p) /\ UNCHANGED <<clock, attempt, thread, breaker, streak>>)

FanoutSpec == FanoutInit /\ [][FanoutNext]_fanoutVars /\ Fairness

FanoutTypeOK ==
  /\ ApifyTypeOK
  /\ clock \in Nat /\ attempt \in 0..Attempts
  /\ thread \in [Platforms -> {"none", "running"} \cup Results]
  /\ breaker \in [Platforms -> BreakerType]
  /\ streak \in [Platforms -> Nat]

-----------------------------------------------------------------------------
(* A platform whose breaker opened is not called again before the recovery  *)
(* timeout, in whichever attempt.                                           *)
NotCalledWhileOpen ==
  [][\A p \in Platforms :
       thread[p] = "none" /\ thread'[p] = "running" /\ streak[p] >= Threshold =>
         clock - breaker[p].failedAt >= RecoveryTimeout]_fanoutVars

(* "A single-platform failure never blocks the others": every attempt gets  *)
(* to its barrier, whatever the calls, the actors and the pipelines do.     *)
EveryAttemptEnds == [](attempt > 0 => <>AtBarrier)
=============================================================================
