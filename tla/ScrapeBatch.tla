---------------------------- MODULE ScrapeBatch ----------------------------
(***************************************************************************)
(* Scraper.scrape_batch (mapear_rss/extraction/scraper.py) on the URLs of  *)
(* one domain: one asyncio task per URL, two at a time on the domain.      *)
(* Tasks interleave where they await (the semaphores, the delay, the       *)
(* request, the browsers); what lies between two awaits is one step.  A run*)
(* scrapes two batches, the pending URLs and then the retries, with one    *)
(* cooldown map; HTTP client and browsers are new for each batch.          *)
(*                                                                         *)
(* A page that is blocked, or that nothing can be read from, is fetched    *)
(* again by Camoufox and then, on targeted domains, by Playwright.         *)
(*                                                                         *)
(* The circuit breaker is in Redis and shared with other runs: here it and *)
(* robots.txt may turn any URL down (DomainBreaker models it).             *)
(***************************************************************************)
EXTENDS DomainCooldown, FetchChain, FiniteSets

CONSTANTS
  Urls,
  Retries,          \* the URLs of the second batch
  Pages,            \* what the domain may answer, to a client or a browser
  Targeted,         \* the domain is one of playwright_targeted_domains
  BlockedBudget,    \* max_retries_blocked
  TransientBudget,  \* max_retries_transient
  GlobalSlots, DomainSlots,
  EngineSlots       \* pages a browser may load at once

ASSUME BatchAssumption ==
  /\ Retries \subseteq Urls /\ Targeted \in BOOLEAN
  /\ {BlockedBudget, TransientBudget, GlobalSlots, DomainSlots, EngineSlots}
       \subseteq Nat \ {0}

VARIABLES
  task,     \* stage and attempt of each URL's task; why: what made it turn to
            \* the browsers
  engine,   \* the two browsers: not launched, running or unavailable
  warm      \* the batch's browser has visited the home page

vars == <<park, task, engine, warm>>

\* retry_budget with the configured overrides, 2 by default.
Budget(error) ==
  CASE error \in {"timeout", "connection_reset", "http_5xx"} -> TransientBudget
    [] error \in {"blocked_bot", "http_403", "http_429"} -> BlockedBudget
    [] error = "http_404" -> 1
    [] OTHER -> 2

MaxAttempts == IF BlockedBudget > TransientBudget THEN BlockedBudget ELSE TransientBudget

At(u, stages) == task[u].stage \in stages
Finished(u) == At(u, {"article", "failed", "deferred"})
Loading == {"fetch", "refetch"}
Rescue == {"camoufox", "camoufox page", "browser", "context", "warming", "browser page"}

HoldsDomainForGood == {u \in Urls : At(u, {"delay", "failed"} \cup Loading \cup Rescue)}
HoldsDomain == {u \in Urls : At(u, {"delay"} \cup Loading \cup Rescue)}
HoldsGlobal == HoldsDomain \cup {u \in Urls : At(u, {"slot"})}

Turn(u) == u \in Retries => \A v \in Urls \ Retries : Finished(v)
Mates(u) == IF u \in Retries THEN Retries ELSE Urls \ Retries

Become(u, stage) == task' = [task EXCEPT ![u].stage = stage]

NoEngine == [camoufox |-> "cold", browser |-> "cold"]

-----------------------------------------------------------------------------
\* A batch opens its own browsers and closes them when all its tasks are done.
Opened(u) ==
  LET first == \A v \in Mates(u) : At(v, {"new"}) IN
  /\ engine' = IF first THEN NoEngine ELSE engine
  /\ warm' = (~ first /\ warm)

\* Every task of a batch runs up to its first await before any awaits end.
TurnedDown(u) ==
  /\ At(u, {"new"}) /\ Turn(u)
  /\ Become(u, "failed") /\ Opened(u)
  /\ UNCHANGED park

Begin(u) ==
  /\ At(u, {"new"}) /\ Turn(u)
  /\ Become(u, IF IsCool(park) THEN "queued" ELSE "deferred") /\ Opened(u)
  /\ UNCHANGED park

AllBegun(u) == \A v \in Mates(u) : ~ At(v, {"new"})

TakeGlobal(u) ==
  /\ At(u, {"queued"}) /\ AllBegun(u)
  /\ Cardinality(HoldsGlobal) < GlobalSlots
  /\ Become(u, "slot")
  /\ UNCHANGED <<park, engine, warm>>

TakeDomain(u) ==
  /\ At(u, {"slot"})
  /\ Cardinality(HoldsDomain) < DomainSlots
  /\ Become(u, "delay")
  /\ UNCHANGED <<park, engine, warm>>

\* The head of the retry loop: what was allowed before the delay, or before
\* the last attempt, is looked up again.
AttemptUnchecked(t, p) ==
  IF t.attempt = MaxAttempts THEN [t EXCEPT !.stage = "failed"]
  ELSE [t EXCEPT !.stage = "fetch", !.attempt = @ + 1]
Attempt(t, p) ==
  IF t.attempt = MaxAttempts THEN [t EXCEPT !.stage = "failed"]
  ELSE IF IsCool(p) THEN [t EXCEPT !.stage = "fetch", !.attempt = @ + 1]
  ELSE [t EXCEPT !.stage = "deferred"]

Request(u) ==
  /\ At(u, {"delay"})
  /\ task' = [task EXCEPT ![u] = Attempt(@, park)]
  /\ UNCHANGED <<park, engine, warm>>

\* HttpxScraper.fetch itself tries twice, two seconds apart, and asks nobody
\* before the second time.
Refetch(u) ==
  /\ At(u, {"fetch"})
  /\ Become(u, "refetch")
  /\ UNCHANGED <<park, engine, warm>>

Blocked(class) == park' = RecordBlock(park, class)

Succeeded == park' = RecordSuccess(park)

\* _try_browser_fallbacks: Camoufox is enabled.
Rescued(t, why) == [t EXCEPT !.stage = "camoufox", !.why = why]

\* A timeout surfaces after the second try only, other transport errors at
\* once.
RequestRaises(u) ==
  /\ At(u, Loading)
  /\ \E error \in {"timeout", "connection_reset"} :
       /\ error = "timeout" => At(u, {"refetch"})
       /\ task' = [task EXCEPT ![u] =
            IF @.attempt < Budget(error) THEN Attempt(@, park)
            ELSE [@ EXCEPT !.stage = "failed"]]
  /\ UNCHANGED <<park, engine, warm>>

\* Out of attempts, a page behind a block goes to the browsers.
Refused(u) ==
  /\ At(u, Loading)
  /\ \E error \in {ClassifyFailure(p) : p \in {q \in Pages : q.status >= 400}} :
       /\ IF Class(error) \in {"bot_block", "rate_limit"}
          THEN Blocked(Class(error)) ELSE UNCHANGED park
       /\ task' = [task EXCEPT ![u] =
            IF @.attempt < Budget(error) THEN Attempt(@, park')
            ELSE IF Class(error) = "bot_block" THEN Rescued(@, "blocked")
            ELSE [@ EXCEPT !.stage = "failed"]]
  /\ UNCHANGED <<engine, warm>>

Answers == {p \in Pages : p.status < 400}

NotHtml(u) ==
  /\ At(u, Loading)
  /\ \E p \in Answers : ~ p.html
  /\ Become(u, "failed")
  /\ UNCHANGED <<park, engine, warm>>

\* An anti-bot page served with status 200.
Challenged(u) ==
  /\ At(u, Loading)
  /\ \E p \in Answers : p.html /\ BlockedPage(p)
  /\ Blocked("bot_block")
  /\ task' = [task EXCEPT ![u] = Rescued(@, "blocked")]
  /\ UNCHANGED <<engine, warm>>

Parsed(u) ==
  /\ At(u, Loading)
  /\ \E p \in Answers : p.html /\ ~ BlockedPage(p) /\ Parses(p)
  /\ Succeeded
  /\ Become(u, "article")
  /\ UNCHANGED <<engine, warm>>

NothingParsed(u) ==
  /\ At(u, Loading)
  /\ \E error \in {ClassifyFailure(p) :
                     p \in {q \in Answers : q.html /\ ~ BlockedPage(q) /\ ~ Parses(q)}} :
       IF error = "selector_missing"
       THEN task' = [task EXCEPT ![u] = Rescued(@, "unparsed")] /\ UNCHANGED park
       ELSE Become(u, "failed") /\ Blocked(Class(error))
  /\ UNCHANGED <<engine, warm>>

-----------------------------------------------------------------------------
\* After Camoufox comes Playwright; after the last one the page is given up.
\* A domain whose pages nothing can read is parked only then.
RescueFails(u) ==
  IF At(u, {"camoufox", "camoufox page"}) /\ Targeted
  THEN Become(u, "browser") /\ UNCHANGED park
  ELSE /\ Become(u, "failed")
       /\ IF task[u].why = "unparsed" THEN Blocked("parser_hard") ELSE UNCHANGED park

Page(e) == IF e = "camoufox" THEN "camoufox page" ELSE "context"
LoadedBy(e) == {u \in Urls : At(u, IF e = "camoufox" THEN {"camoufox page"}
                                    ELSE {"context", "warming", "browser page"})}

\* _ensure_browser launches at most once a batch, under a lock.
Launch(u) ==
  \E e \in {"camoufox", "browser"} :
    /\ At(u, {e}) /\ engine[e] = "cold"
    /\ \E state \in {"ready", "unavailable"} : engine' = [engine EXCEPT ![e] = state]
    /\ UNCHANGED <<park, task, warm>>

Unavailable(u) ==
  \E e \in {"camoufox", "browser"} :
    /\ At(u, {e}) /\ engine[e] = "unavailable"
    /\ RescueFails(u)
    /\ UNCHANGED <<engine, warm>>

\* The cookies of the domain are read under its lock.
Unlocked == \A v \in Urls : ~ At(v, {"warming"})

TakeEngine(u) ==
  \E e \in {"camoufox", "browser"} :
    /\ At(u, {e}) /\ engine[e] = "ready"
    /\ Cardinality(LoadedBy(e)) < EngineSlots
    /\ e = "browser" => Unlocked
    /\ Become(u, Page(e))
    /\ UNCHANGED <<park, engine, warm>>

\* The first page of a domain visits the home page before, with the lock.
WarmUp(u) ==
  /\ At(u, {"context"}) /\ Unlocked
  /\ Become(u, IF warm THEN "browser page" ELSE "warming")
  /\ UNCHANGED <<park, engine, warm>>

\* Loaded or not, the home page is not visited again.
WarmedUp(u) ==
  /\ At(u, {"warming"})
  /\ Become(u, "browser page")
  /\ warm' = TRUE
  /\ UNCHANGED <<park, engine>>

\* Playwright's errors are caught: the result then has no page; or the page
\* is empty, blocked or unreadable once more.
RenderFails(u) ==
  /\ At(u, {"camoufox page", "context", "browser page"})
  /\ RescueFails(u)
  /\ UNCHANGED <<engine, warm>>

Rendered(u) ==
  /\ At(u, {"camoufox page", "browser page"})
  /\ \E p \in Pages : Rescues(p)
  /\ Succeeded
  /\ Become(u, "article")
  /\ UNCHANGED <<engine, warm>>

\* An exception that the task does not catch, from the breaker's Redis calls
\* above all: gather collects it.  A block is recorded before such a call.
Raises(u) ==
  /\ \/ At(u, Loading \cup {"camoufox page", "browser page"}) /\ UNCHANGED park
     \/ At(u, Loading) /\ \E class \in {"bot_block", "rate_limit"} : Blocked(class)
  /\ Become(u, "failed")
  /\ UNCHANGED <<engine, warm>>

Tick ==
  /\ ~ IsCool(park)
  /\ park' = Later(park)
  /\ UNCHANGED <<task, engine, warm>>

Init ==
  /\ park = Fresh
  /\ task = [u \in Urls |-> [stage |-> "new", attempt |-> 0, why |-> "-"]]
  /\ engine = NoEngine
  /\ warm = FALSE

Step(u) ==
  \/ TurnedDown(u) \/ Begin(u) \/ TakeGlobal(u) \/ TakeDomain(u) \/ Request(u)
  \/ Refetch(u) \/ RequestRaises(u) \/ Refused(u) \/ NotHtml(u) \/ Challenged(u)
  \/ Parsed(u) \/ NothingParsed(u) \/ Launch(u) \/ Unavailable(u) \/ TakeEngine(u)
  \/ WarmUp(u) \/ WarmedUp(u) \/ RenderFails(u) \/ Rendered(u) \/ Raises(u)

Next == (\E u \in Urls : Step(u)) \/ Tick

Spec == Init /\ [][Next]_vars

\* The event loop runs what is ready, and every request has a timeout.
FairSpec == Spec /\ \A u \in Urls : WF_vars(Step(u))

TypeOK ==
  /\ CooldownTypeOK
  /\ task \in [Urls -> [stage : {"new", "queued", "slot", "delay", "article", "failed",
                                 "deferred"} \cup Loading \cup Rescue,
                        attempt : 0 .. MaxAttempts,
                        why : {"-", "blocked", "unparsed"}]]
  /\ engine \in [{"camoufox", "browser"} -> {"cold", "ready", "unavailable"}]
  /\ warm \in BOOLEAN

-----------------------------------------------------------------------------
(* While a domain is parked no attempt on it is started, although tasks    *)
(* were let in before, waited for a slot, and wake up after another task   *)
(* was blocked: parking is there "so the scraper stops hammering it".      *)
(* (The HTTP client's own second try, and the browsers, do go on.)         *)
NoRequestWhileParked ==
  [][\A u \in Urls : task'[u].attempt > task[u].attempt => IsCool(park')]_vars

(* Every batch ends: no task retries for ever or waits for ever for a slot,*)
(* a browser or the domain's lock.                                         *)
AllSettled == <>(\A u \in Urls : Finished(u))
=============================================================================
