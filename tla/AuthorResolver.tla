--------------------------- MODULE AuthorResolver ---------------------------
(***************************************************************************)
(* Which accounts of different platforms are one person: resolve_personas  *)
(* of mapear_domain.entity_resolution.author_resolver.  A record is one    *)
(* (platform, author_id) of a batch: its normalised handle and display     *)
(* name are sequences of letters (0 is the blank between two words, <<>>   *)
(* a missing name) and hashes the contents it posted.  Similarities are    *)
(* in hundredths of a percent.  resolve_personas first merges rows of one  *)
(* key; a batch here has one record per key, as the extraction's GROUP BY  *)
(* delivers it.                                                            *)
(***************************************************************************)
EXTENDS Integers, Sequences, FiniteSetsExt, ConnectedComponents
LOCAL SeqExt == INSTANCE SequencesExt

One == 10000

HandleSimilarity == 9000
DisplaySimilarity == 9000
MinSharedContent == 1
BridgeFloor == 6000

-----------------------------------------------------------------------------
(* Jaro's matching: each letter of a takes the first letter of b that is   *)
(* equal, near enough and not taken yet.                                   *)
Near(a, b, i) ==
    LET window == Max({0, Max({Len(a), Len(b)}) \div 2 - 1})
    IN  {j \in DOMAIN b : j \in (i - window) .. (i + window)}

Matching(a, b) ==
    SeqExt!FoldLeft(LAMBDA m, i :
                        LET free == {j \in Near(a, b, i) :
                                        b[j] = a[i] /\ \A p \in m : p[2] # j}
                        IN  IF free = {} THEN m ELSE m \cup {<<i, Min(free)>>},
                    {}, [i \in DOMAIN a |-> i])

(* The matched positions that hold different letters when both sides are   *)
(* read in their own order.                                                *)
Transposed(a, b, m) ==
    LET left == SeqExt!SetToSortSeq({p[1] : p \in m}, <)
        right == SeqExt!SetToSortSeq({p[2] : p \in m}, <)
    IN  Cardinality({k \in DOMAIN left : a[left[k]] # b[right[k]]})

JaroOf(a, b, m) ==
    LET n == Cardinality(m)
    IN  CASE a = <<>> \/ b = <<>> -> 0
          [] a = b /\ a # <<>> -> One
          [] OTHER -> IF n = 0 THEN 0
                      ELSE ((n * One) \div Len(a) + (n * One) \div Len(b)
                            + ((2 * n - Transposed(a, b, m)) * One) \div (2 * n))
                           \div 3

CommonPrefix(a, b) ==
    Max({k \in 0 .. Min({4, Len(a), Len(b)}) :
            SubSeq(a, 1, k) = SubSeq(b, 1, k)})

Boosted(jaro, prefix) ==
    IF jaro \in {0, One} THEN jaro ELSE jaro + (prefix * (One - jaro)) \div 10
JaroWinkler(a, b) == Boosted(JaroOf(a, b, Matching(a, b)), CommonPrefix(a, b))

-----------------------------------------------------------------------------
(* Two records are compared only if they share a bucket.                   *)
FirstWord(name) ==
    SubSeq(name, 1, Min({k \in DOMAIN name : name[k] = 0} \cup {Len(name) + 1}) - 1)

BlockingKeysWithoutContent(r) ==
    (IF r.handle = <<>> THEN {}
     ELSE {<<"h", SubSeq(r.handle, 1, Min({4, Len(r.handle)}))>>})
    \cup (IF r.display = <<>> THEN {} ELSE {<<"d", FirstWord(r.display)>>})

BlockingKeys(r) ==
    BlockingKeysWithoutContent(r) \cup {<<"c", h>> : h \in r.hashes}

(* Handles of one length that differ in one letter are a series of         *)
(* accounts, not one person.                                               *)
LooksEnumerated(a, b) ==
    /\ Len(a) = Len(b)
    /\ Cardinality({i \in DOMAIN a : a[i] # b[i]}) = 1

Overlap(a, b) == Cardinality(a.hashes \cap b.hashes)

(* What the similarities of handles and display names and the number of    *)
(* shared contents say of two records; a name both have must be alike.     *)
Decide(handles, displays, named, enumerated, shared) ==
    LET byNames == /\ handles >= HandleSimilarity /\ named
                   /\ displays >= DisplaySimilarity /\ ~enumerated
        bridged == shared >= MinSharedContent /\ handles >= BridgeFloor
    IN  CASE byNames ->
               [decision |-> "match", confidence |-> (handles + displays) \div 2]
          [] ~byNames /\ bridged ->
               [decision |-> "match",
                confidence |-> Min({One, handles + Min({3000, 1000 * shared})})]
          [] OTHER ->
               [decision |-> IF handles >= HandleSimilarity THEN "ambiguous" ELSE "no_match",
                confidence |-> handles]

ScorePair(a, b) ==
    Decide(JaroWinkler(a.handle, b.handle), JaroWinkler(a.display, b.display),
           a.display # <<>> /\ b.display # <<>>,
           LooksEnumerated(a.handle, b.handle), Overlap(a, b))

(* The pairs that are compared: a shared bucket, two platforms.            *)
Compared(a, b) ==
    /\ a.platform # b.platform
    /\ BlockingKeys(a) \cap BlockingKeys(b) # {}

Scored(records) ==
    {[pair |-> {e[1], e[2]}, score |-> ScorePair(e[1], e[2])] :
        e \in {e \in records \X records : Compared(e[1], e[2])}}
Matches(records) == {m \in Scored(records) : m.score.decision = "match"}

(* A persona is as sure as the weakest match inside it.                    *)
Weakest(members, matches) ==
    Min({(CHOOSE m \in matches : m.pair = p).score.confidence :
            p \in {m.pair : m \in {m \in matches : m.pair \subseteq members}}})

PersonasOf(records, matches) ==
    {[members |-> c, confidence |-> Weakest(c, matches)] :
        c \in {d \in Components(records, {m.pair : m \in matches}) : Cardinality(d) >= 2}}
ResolvePersonas(records) == PersonasOf(records, Matches(records))

=============================================================================
