------------------------ MODULE ConnectedComponents ------------------------
(***************************************************************************)
(* The connected components of a graph, its edges sets of nodes: what the  *)
(* union-find of author_resolver._connected_components computes, and what  *)
(* Louvain leaves of a graph whose components are cliques.                 *)
(***************************************************************************)

(* No edge leaves a closed set; a component is a smallest closed set.      *)
Closed(nodes, edges) == \A e \in edges : e \subseteq nodes \/ e \cap nodes = {}

Components(nodes, edges) ==
    {c \in SUBSET nodes \ {{}} :
        /\ Closed(c, edges)
        /\ \A d \in SUBSET c \ {{}, c} : ~Closed(d, edges)}

=============================================================================
