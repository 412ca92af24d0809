----------------------------- MODULE FetchChain -----------------------------
(***************************************************************************)
(* What the scraper makes of one answer: block detection                   *)
(* (block_detector.py), the error type and its class (domain_cooldown.py), *)
(* and the parser's five ways to an article (article_parser.py).           *)
(*                                                                         *)
(* A page is                                                               *)
(*   status, html    the status; whether the content type is text/html     *)
(*   body            length: "empty", "short" (< 512 bytes), "small"       *)
(*                   (< 2048), "full"                                      *)
(*   markers         families of anti-bot markers in body or headers       *)
(*   texts           the stages that yield 100 characters or more          *)
(*   nodes           JSON-LD nodes in document order, @graph flattened:    *)
(*                   article (an article @type), long (articleBody),       *)
(*                   titled (a headline that is a string)                  *)
(*   titled          the other stages whose result carries a title         *)
(*   heading         og:title, an h1 or a title element                    *)
(*   valid           RawArticle accepts title and text                     *)
(***************************************************************************)
EXTENDS Integers
LOCAL SeqExt == INSTANCE SequencesExt

CONSTANT SiteSelector   \* the domain has an entry in _DOMAIN_SELECTORS

Markers == {"cloudflare", "captcha", "js_challenge", "waf"}

EmptyBody(p) == p.body = "empty"

\* A bare refusal counts as a firewall's.
SmallRefusal(p) ==
  p.status \in {403, 429, 503} /\ p.body # "full" /\ p.markers = {}

Detect(p) == p.markers \cup (IF SmallRefusal(p) THEN {"waf"} ELSE {})

BlockedPage(p) == Detect(p) # {}

ClassifyFailure(p) ==
  IF BlockedPage(p) THEN "blocked_bot" ELSE
  CASE p.status = 403 -> "http_403"
    [] p.status = 429 -> "http_429"
    [] p.status = 404 -> "http_404"
    [] p.status \in 500 .. 599 -> "http_5xx"
    [] p.status \in 400 .. 499 \ {403, 404, 429} -> "http_4xx"
    [] OTHER -> IF EmptyBody(p) THEN "empty_content" ELSE "selector_missing"

\* error_class_for
Class(error) ==
  CASE error \in {"blocked_bot", "http_403"} -> "bot_block"
    [] error = "http_429" -> "rate_limit"
    [] error \in {"selector_missing", "empty_content"} -> "parser_hard"
    [] OTHER -> "transient"

-----------------------------------------------------------------------------
\* The first article node with a body, whatever its headline is.
JsonLdNode(p) == SeqExt!SelectInSeq(p.nodes, LAMBDA n : n.article /\ n.long)

Yields(p, stage) ==
  CASE stage = "jsonld" -> JsonLdNode(p) # 0
    [] stage = "selector" -> SiteSelector /\ stage \in p.texts
    [] OTHER -> stage \in p.texts

Stages == <<"precision", "jsonld", "selector", "recall", "readability">>

Stage(p) == SeqExt!SelectInSeq(Stages, LAMBDA stage : Yields(p, stage))

OwnTitle(p, stage) ==
  CASE stage = "jsonld" -> p.nodes[JsonLdNode(p)].titled
    [] stage = "selector" -> p.heading
    [] OTHER -> stage \in p.titled

\* ArticleParser.parse: the first stage with text decides; when that one has
\* no title, no later stage is asked.
Parses(p) ==
  /\ ~ EmptyBody(p)
  /\ Stage(p) # 0
  /\ OwnTitle(p, Stages[Stage(p)]) \/ p.heading
  /\ p.valid

\* What a browser fallback makes of the page it rendered.
Rescues(p) == ~ EmptyBody(p) /\ ~ BlockedPage(p) /\ Parses(p)
=============================================================================
