--------------------------- MODULE MCScrapeBatch ---------------------------
(* Model-checking instances of ScrapeBatch. *)
EXTENDS ScrapeBatch

CONSTANTS u1, u2, u3

Plain == [status |-> 200, html |-> TRUE, body |-> "full", markers |-> {}, texts |-> {},
          nodes |-> <<>>, titled |-> {}, heading |-> TRUE, valid |-> TRUE]
Node(long, titled) == [article |-> TRUE, long |-> long, titled |-> titled]

\* One page for each way through detection and parsing.
MCPages ==
  {[Plain EXCEPT !.texts = {"precision", "recall"}, !.titled = {"precision"}],
   [Plain EXCEPT !.nodes = <<Node(FALSE, TRUE), Node(TRUE, FALSE)>>],
   [Plain EXCEPT !.nodes = <<Node(TRUE, FALSE)>>, !.texts = {"recall"},
                 !.titled = {"recall"}, !.heading = FALSE],
   [Plain EXCEPT !.texts = {"selector"}],
   [Plain EXCEPT !.texts = {"readability"}, !.valid = FALSE],
   Plain,
   [Plain EXCEPT !.body = "empty"],
   [Plain EXCEPT !.html = FALSE],
   [Plain EXCEPT !.markers = {"captcha"}, !.body = "small"],
   [Plain EXCEPT !.status = 403], [Plain EXCEPT !.status = 403, !.body = "small"],
   [Plain EXCEPT !.status = 429], [Plain EXCEPT !.status = 429, !.body = "short"],
   [Plain EXCEPT !.status = 404], [Plain EXCEPT !.status = 410],
   [Plain EXCEPT !.status = 500], [Plain EXCEPT !.status = 503, !.markers = {"cloudflare"}]}
=============================================================================
