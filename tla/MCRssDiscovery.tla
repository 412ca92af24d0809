--------------------------- MODULE MCRssDiscovery ---------------------------
(* Model-checking instances of RssDiscovery. *)
EXTENDS RssDiscovery, TLC

CONSTANTS r1, r2, x1, b1, f1, e1

SaverKeys == (r1 :> "rss") @@ (r2 :> "rss") @@ (x1 :> "x")
\* The properties are about one entry at a time.
EntryFeeds == (e1 :> f1)
EntryWords == (e1 :> {"Natal", "Ouro"})
EntryDocuments == (e1 :> "news")
EntryShapes == (e1 :> [query |-> FALSE, listing |-> FALSE, dated |-> FALSE,
                       segments |-> 2, slug |-> TRUE])

\* sitemap.xml names an index that names the news; sitemap_index.xml names
\* sitemap.xml; robots.txt names that once more.
Sitemaps == <<"index", "other", "index">>
Children == ("index" :> <<"posts">>) @@ ("posts" :> <<"news">>) @@ ("news" :> <<>>)
            @@ ("other" :> <<"index">>)

Symmetry == Permutations({r1, r2})
=============================================================================
