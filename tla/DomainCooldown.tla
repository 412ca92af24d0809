--------------------------- MODULE DomainCooldown ---------------------------
(***************************************************************************)
(* DomainCooldown (mapear_rss/extraction/domain_cooldown.py) for one       *)
(* domain: a window during which the domain is left alone, armed after     *)
(* enough blocks in a row and growing with them.  Every method runs under  *)
(* the lock.  Domains do not interact; the tasks that call it are in       *)
(* ScrapeBatch.                                                            *)
(***************************************************************************)
EXTENDS Integers

CONSTANTS
  Trigger, HardTrigger,   \* trigger_threshold, parser_hard_trigger
  BotBase, BotCap,        \* base_seconds and max_seconds, in ticks
  RateBase, RateCap,      \* the same for HTTP 429
  HardWindow,             \* parser_hard_seconds
  BlockCap                \* bound: consecutive_blocks saturates here

\* At the cap both thresholds are reached and the windows no longer grow.  That
\* powers are naturals is arithmetic, which the proofs cannot do by themselves.
ASSUME CooldownAssumption ==
  /\ {Trigger, HardTrigger, BotBase, RateBase, HardWindow, BlockCap} \subseteq Nat \ {0}
  /\ BotCap \in Nat /\ BotCap >= BotBase
  /\ RateCap \in Nat /\ RateCap >= RateBase
  /\ BlockCap >= Trigger /\ BlockCap >= HardTrigger
  /\ BotBase * 2 ^ (BlockCap - Trigger) >= BotCap
  /\ RateBase * 2 ^ (BlockCap - Trigger) >= RateCap
  /\ \A n \in 0 .. BlockCap : 2 ^ n \in Nat

VARIABLE park   \* left: cooldown_until - now; blocks: consecutive_blocks;
                \* class: last_error_class

Classes == {"none", "bot_block", "rate_limit", "parser_hard"}

AtMost(a, b) == IF a < b THEN a ELSE b

Fresh == [left |-> 0, blocks |-> 0, class |-> "none"]

IsCool(p) == p.left = 0

WindowUncapped(class, blocks) ==
  IF class = "parser_hard" THEN HardWindow ELSE BotBase * 2 ^ (blocks - Trigger)
Window(class, blocks) ==
  CASE class = "parser_hard" -> HardWindow
    [] class = "rate_limit" -> AtMost(RateCap, RateBase * 2 ^ (blocks - Trigger))
    [] class = "bot_block" -> AtMost(BotCap, BotBase * 2 ^ (blocks - Trigger))

Threshold(class) == IF class = "parser_hard" THEN HardTrigger ELSE Trigger

\* One counter for all classes.
RecordBlock(p, class) ==
  LET blocks == AtMost(p.blocks + 1, BlockCap) IN
  [left   |-> IF blocks < Threshold(class) THEN p.left ELSE Window(class, blocks),
   blocks |-> blocks,
   class  |-> class]

RecordSuccess(p) == Fresh

\* A moment later.
Later(p) == IF p.left = 0 THEN p ELSE [p EXCEPT !.left = @ - 1]

Longest == CHOOSE w \in {BotCap, RateCap, HardWindow} :
             \A v \in {BotCap, RateCap, HardWindow} : v <= w

CooldownTypeOK ==
  park \in [left : 0 .. Longest, blocks : 0 .. BlockCap,
            class : Classes]
=============================================================================
