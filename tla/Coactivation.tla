---------------------------- MODULE Coactivation ----------------------------
(***************************************************************************)
(* Who activates with whom: the co-activation pairs, the communities and   *)
(* their scores that one (day, region) group of activations yields         *)
(* (mapear_nlp.graph: coactivation.py, community.py, scoring.py).          *)
(*   - an activation is [author, target, at, hash]; at is in hours;        *)
(*   - a node of the graph is the set of accounts behind it: the members   *)
(*     of a persona (persona_id is a hash of them) or one account;         *)
(*   - scores and overlaps are in percent; NoScore is Python's None;       *)
(*   - louvain_communities is networkx's.  In the graphs of the instances  *)
(*     every component is a clique, which Louvain keeps in one piece: a    *)
(*     community is a component, [id, members]; ids are given anew each    *)
(*     day, and cluster_tracker.py follows a community across days.  A     *)
(*     series_id is a hash of the members of the series' first day: here   *)
(*     those members.                                                      *)
(***************************************************************************)
EXTENDS Integers, Sequences, FiniteSetsExt, ConnectedComponents
LOCAL SeqExt == INSTANCE SequencesExt

CONSTANTS
    WindowHours, MinOverlap, MinSize, SyncCap,
    SeriesThreshold     \* percent of members two days must share

ASSUME CoactivationAssumption ==
    /\ WindowHours \in Nat \ {0}
    /\ MinOverlap \in Nat \ {0}
    /\ MinSize \in Nat \ {0, 1}
    /\ SyncCap \in Nat \ {0}
    /\ SeriesThreshold \in 0 .. 100

NoScore == -1

Percent(part, whole) == IF whole = 0 THEN 0 ELSE (100 * part) \div whole

-----------------------------------------------------------------------------
(* personas is a partial function from accounts to their persona.          *)
AuthorKey(author, personas) ==
    IF author \in DOMAIN personas THEN personas[author] ELSE {author}

Nodes(acts, personas) == {AuthorKey(r.author, personas) : r \in acts}
Of(acts, personas, n) == {r \in acts : AuthorKey(r.author, personas) = n}
Targets(acts) == {r.target : r \in acts}
Hashes(acts) == {r.hash : r \in acts}

(* The rows within the window that ends with an activation at hour last.   *)
InWindow(acts, last) == {r \in acts : r.at \in (last - WindowHours) .. last}

(* A pair co-posts once for each distinct hour at which, in some window,   *)
(* the later of the two shows up first.                                    *)
FirstSeen(acts) == Min({r.at : r \in acts})

Anchors(A, B) ==
    {Max({FirstSeen(InWindow(A, t)), FirstSeen(InWindow(B, t))}) :
        t \in {u \in {r.at : r \in A \cup B} :
                  InWindow(A, u) # {} /\ InWindow(B, u) # {}}}

CoPostCount(A, B) ==
    MapThenSumSet(LAMBDA t : Cardinality(Anchors({r \in A : r.target = t},
                                                 {r \in B : r.target = t})),
                  Targets(A) \cup Targets(B))

Jaccard(S, T) == Percent(Cardinality(S \cap T), Cardinality(S \cup T))

(* The mean similarity of the embedded contents; cosine[h][k] in percent.  *)
Similarity(A, B, cosine) ==
    LET left == Hashes(A) \cap DOMAIN cosine
        right == Hashes(B) \cap DOMAIN cosine
    IN  IF left = {} \/ right = {} THEN NoScore
        ELSE MapThenSumSet(LAMBDA p : cosine[p[1]][p[2]], left \X right)
             \div Cardinality(left \X right)

ComputeCoactivationScores(acts, personas, cosine) ==
    LET of(n) == Of(acts, personas, n)
        pair(a, b) == [edge |-> {a, b},
                       count |-> CoPostCount(of(a), of(b)),
                       jaccard |-> Jaccard(Targets(of(a)), Targets(of(b))),
                       similarity |-> Similarity(of(a), of(b), cosine)]
        all == {LET a == CHOOSE n \in e : TRUE
                    b == CHOOSE n \in e : n # a
                IN  pair(a, b) : e \in kSubset(2, Nodes(acts, personas))}
    IN  {p \in all : p.count >= MinOverlap}

-----------------------------------------------------------------------------
(* The communities, numbered from the largest down, ties by their members; *)
(* the small ones keep their number but are not reported.                  *)
Least(c) == Min(UNION c)

Precedes(c, d) ==
    \/ Cardinality(c) > Cardinality(d)
    \/ Cardinality(c) = Cardinality(d) /\ Least(c) < Least(d)

DetectCommunities(pairs) ==
    LET edges == {p.edge : p \in pairs}
        found == Components(UNION edges, edges)
    IN  {[id |-> Cardinality({d \in found : Precedes(d, c)}), members |-> c] :
            c \in {d \in found : Cardinality(d) >= MinSize}}

-----------------------------------------------------------------------------
SynchronyUncapped(p) == Percent(p.count, SyncCap)
Synchrony(p) == Percent(Min({p.count, SyncCap}), SyncCap)

(* 40 % synchrony, 40 % alignment, 20 % content; without content the       *)
(* other two share the whole.                                              *)
Composite(p) ==
    IF p.similarity = NoScore THEN (Synchrony(p) + p.jaccard) \div 2
    ELSE (4 * Synchrony(p) + 4 * p.jaccard + 2 * p.similarity) \div 10

ScoreCommunity(c, pairs) ==
    LET inside == {p \in pairs : p.edge \subseteq c.members}
    IN  IF inside = {} THEN 0
        ELSE MapThenSumSet(Composite, inside) \div Cardinality(inside)

-----------------------------------------------------------------------------
(* The pairs <<today's community, yesterday's>> that overlap enough, the   *)
(* best first; Python's sort is stable, so ties keep the order of the ids. *)
Candidates(today, yesterday) ==
    {p \in today \X yesterday : Jaccard(p[1].members, p[2].members) >= SeriesThreshold}

BetterMatch(p, q) ==
    LET j(r) == Jaccard(r[1].members, r[2].members)
    IN  \/ j(p) > j(q)
        \/ j(p) = j(q) /\ p[1].id < q[1].id
        \/ j(p) = j(q) /\ p[1].id = q[1].id /\ p[2].id < q[2].id

Disjoint(p, q) == p[1] # q[1] /\ p[2] # q[2]

MatchCommunities(today, yesterday) ==
    SeqExt!FoldLeft(LAMBDA taken, p : IF \A q \in taken : Disjoint(p, q)
                                      THEN taken \cup {p} ELSE taken,
                    {}, SeqExt!SetToSortSeq(Candidates(today, yesterday), BetterMatch))

(* One day's rows, given the rows of the day before in the list, whatever  *)
(* the calendar says of the distance between the two.                      *)
Assign(day, today, yesterday, before) ==
    LET matched == MatchCommunities(today, yesterday)
        row(c) ==
            LET from == {p \in matched : p[1] = c}
            IN  IF from = {}
                THEN [date |-> day, cid |-> c.id, sid |-> c.members, start |-> day,
                      isNew |-> TRUE]
                ELSE LET d == (CHOOSE p \in from : TRUE)[2]
                         r == CHOOSE b \in before : b.cid = d.id
                     IN  [date |-> day, cid |-> c.id, sid |-> r.sid, start |-> r.start,
                          isNew |-> FALSE]
    IN  {row(c) : c \in today}

(* byDate maps each date that has pairs to its communities.                *)
TrackClusterSeries(byDate) ==
    LET step(acc, day) ==
            LET rows == Assign(day, byDate[day],
                               IF acc.last = {} THEN {} ELSE byDate[Max(acc.last)],
                               acc.before)
            IN  [last |-> acc.last \cup {day}, before |-> rows, all |-> acc.all \cup rows]
    IN  SeqExt!FoldLeft(step, [last |-> {}, before |-> {}, all |-> {}],
                        SeqExt!SetToSortSeq(DOMAIN byDate, <)).all

=============================================================================
