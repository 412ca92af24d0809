---------------------------- MODULE SitemapWalk -----------------------------
(***************************************************************************)
(* SitemapExtractor (mapear_rss/discovery/sitemap_extractor.py) on one     *)
(* domain: which documents it reads, depth first from the usual places and *)
(* those robots.txt names, and which of their URLs it takes for articles.  *)
(***************************************************************************)
EXTENDS Integers
LOCAL INSTANCE SequencesExt

CONSTANTS
  Documents,    \* sitemap documents of a domain
  Candidates,   \* sitemap.xml, sitemap_index.xml, and robots.txt's, in order
  ChildrenOf,   \* the documents an index names, in order; none for a urlset
  MaxDepth      \* _MAX_DEPTH

ASSUME DocumentAssumption ==
  /\ Candidates \in Seq(Documents) /\ ChildrenOf \in [Documents -> Seq(Documents)]
  /\ MaxDepth \in Nat

WithDepth(documents, depth) ==
  [i \in DOMAIN documents |-> [doc |-> documents[i], depth |-> depth]]

Opening == [todo |-> WithDepth(Candidates, 0), visited |-> {}, read |-> {}]

\* Too deep, or once more: it yields nothing and is not marked.
Refused(next, walk) == next.depth > MaxDepth \/ next.doc \in walk.visited

\* A document that cannot be fetched in two attempts, or parsed, is visited
\* all the same.  An index leaves out the children with an old lastmod.
Visit(walk, broken, old) ==
  LET next == Head(walk.todo)
      links == SelectSeq(ChildrenOf[next.doc], LAMBDA d : d \notin old) IN
  IF Refused(next, walk) THEN [walk EXCEPT !.todo = Tail(@)]
  ELSE IF next.doc \in broken
  THEN [walk EXCEPT !.todo = Tail(@), !.visited = @ \cup {next.doc}]
  ELSE [todo |-> WithDepth(links, next.depth + 1) \o Tail(walk.todo),
        visited |-> walk.visited \cup {next.doc},
        read |-> walk.read \cup {next.doc}]

\* Enough for every candidate and every link.
Steps ==
  FoldLeft(LAMBDA n, d : n + Len(ChildrenOf[d]), Len(Candidates), SetToSeq(Documents))

DocumentsRead(broken, old) ==
  FoldLeft(LAMBDA walk, i : IF walk.todo = <<>> THEN walk ELSE Visit(walk, broken, old),
           Opening, [i \in 1 .. Steps |-> i]).read

\* _is_article_url: shape says whether the URL has a query, a listing path, a
\* /yyyy/mm/ path, how many segments, and whether the last one is long.
IsArticleUrl(shape) ==
  /\ ~ shape.query /\ ~ shape.listing
  /\ shape.dated \/ shape.segments >= 3 \/ (shape.segments > 0 /\ shape.slug)
=============================================================================
