---------------------------- MODULE ApifyClient ----------------------------
(***************************************************************************)
(* run_actor of mapear_social/apify_client.py, once per platform: start an *)
(* actor run, poll it to a terminal state, fetch its dataset page by page. *)
(* Each HTTP call has its retries (mapear_infra/retry.py): 429 and 5xx are *)
(* tried again, any other error is raised at once.                         *)
(***************************************************************************)
EXTENDS Integers, FiniteSetsExt

CONSTANTS
  Platforms,
  StartTries, PollTries, PageTries,  \* max_attempts of the three calls
  FirstInterval, LastInterval,       \* seconds between polls: 3, up to 30
  PollTimeout,                       \* poll_timeout_seconds
  PageSize,                          \* dataset_page_size
  MaxItems                           \* bound on the dataset of an actor run

ASSUME ApifyAssumption ==
  /\ {StartTries, PollTries, PageTries, FirstInterval, PageSize} \subseteq Nat \ {0}
  /\ {LastInterval, PollTimeout, MaxItems} \subseteq Nat

VARIABLES
  client,   \* the client of each platform
  remote    \* the actor run it follows, on Apify's side (a run begun by a call
            \* whose answer was lost is followed by nobody)

apify == <<client, remote>>

NoRun == [status |-> "none", items |-> 0]
Terminal == {"SUCCEEDED", "FAILED"}  \* FAILED also for ABORTED and TIMED-OUT

NewClient == [call |-> "none", tries |-> 0, elapsed |-> 0,
              interval |-> FirstInterval, offset |-> 0, result |-> "none"]

Calling(p, call) == client[p].call = call
ClientBecomes(p, c) == client' = [client EXCEPT ![p] = c]
\* The next call, with all its tries.
Then(p, call) == [client[p] EXCEPT !.call = call, !.tries = 0]
Ends(p, result) == [client[p] EXCEPT !.call = "none", !.result = result]

-----------------------------------------------------------------------------
RunActor(p) ==
  /\ ClientBecomes(p, [NewClient EXCEPT !.call = "start"])
  /\ remote' = [remote EXCEPT ![p] = NoRun]

\* The client is closed; what its actor run still does is nobody's concern.
Discard(p) ==
  /\ ClientBecomes(p, NewClient)
  /\ remote' = [remote EXCEPT ![p] = NoRun]

Tries(call) ==
  CASE call = "start" -> StartTries
    [] call = "poll" -> PollTries
    [] call = "page" -> PageTries

\* 429 or 5xx: once more, or the last error is raised.
Retried(p) ==
  IF client[p].tries + 1 < Tries(client[p].call)
  THEN [client[p] EXCEPT !.tries = @ + 1]
  ELSE Ends(p, "crashed")

Started(p) ==
  /\ Calling(p, "start")
  /\ ClientBecomes(p, Then(p, "poll"))
  /\ remote' = [remote EXCEPT ![p].status = "RUNNING"]

\* Transient errors are tried again; 4xx is an ActorPayloadError, and errors
\* of the transport are not among the retried ones.
CallFails(p) ==
  /\ client[p].call # "none"
  /\ ClientBecomes(p, Retried(p)) \/ ClientBecomes(p, Ends(p, "ApifyError")) \/ ClientBecomes(p, Ends(p, "crashed"))
  /\ UNCHANGED remote

\* The actor, on Apify's side.
Scrapes(p) ==
  /\ remote[p].status = "RUNNING"
  /\ \/ remote[p].items < MaxItems /\ remote' = [remote EXCEPT ![p].items = @ + 1]
     \/ \E status \in Terminal : remote' = [remote EXCEPT ![p].status = status]
  /\ UNCHANGED client

Waits(p) ==
  LET c == client[p]
      elapsed == c.elapsed + c.interval
  IN IF elapsed < PollTimeout
     THEN [c EXCEPT !.tries = 0, !.elapsed = elapsed,
                    !.interval = Min({@ + 2, LastInterval})]
     ELSE [Ends(p, "ApifyError") EXCEPT !.elapsed = elapsed]

\* A terminal status is acted on; otherwise sleep, unless the time is over.
PolledOnce(p) ==
  CASE remote[p].status = "SUCCEEDED" -> Then(p, "page")
    [] remote[p].status = "FAILED" -> Ends(p, "ApifyError")
    [] OTHER -> Waits(p)
Polled(p) ==
  /\ Calling(p, "poll")
  /\ ClientBecomes(p, PolledOnce(p))
  /\ UNCHANGED remote

FullPageLength(p) == PageSize
PageLength(p) == Min({PageSize, remote[p].items - client[p].offset})
LastPageAlways(p, n) == n <= PageSize
LastPage(p, n) == n < PageSize

\* A short page, or an empty one, is the last.
GotPage(p) ==
  /\ Calling(p, "page")
  /\ LET n == PageLength(p)
         c == [client[p] EXCEPT !.tries = 0, !.offset = @ + n]
     IN ClientBecomes(p, IF LastPage(p, n) THEN [c EXCEPT !.call = "none", !.result = "items"] ELSE c)
  /\ UNCHANGED remote

ApifyStep(p) == Started(p) \/ CallFails(p) \/ Polled(p) \/ GotPage(p)

LongestInterval == Max({FirstInterval, LastInterval})

ClientType ==
  [call : {"none", "start", "poll", "page"}, tries : 0..Max({StartTries, PollTries, PageTries}),
   elapsed : 0..(PollTimeout + LongestInterval), interval : 0..LongestInterval,
   offset : 0..MaxItems, result : {"none", "items", "ApifyError", "crashed"}]

ApifyTypeOK ==
  /\ client \in [Platforms -> ClientType]
  /\ remote \in [Platforms -> [status : {"none", "RUNNING"} \cup Terminal, items : 0..MaxItems]]

-----------------------------------------------------------------------------
(* What run_actor returns is the whole dataset of a run that succeeded: not *)
(* a page less, and nothing of a run that was still scraping or failed.     *)
ItemsAreComplete ==
  \A p \in Platforms : client[p].result = "items" =>
    remote[p].status = "SUCCEEDED" /\ client[p].offset = remote[p].items
=============================================================================
