------------------------------ MODULE Mentions ------------------------------
(***************************************************************************)
(* Whom and what a text mentions: NERExtractor (mapear_nlp/ner), the       *)
(* RegionMatcher (mapear_nlp/matchers) and the merge of both in the social *)
(* pipeline.  A text is [words, mayorOf, claims]: its words, the cities of *)
(* its phrases "prefeito de <city>" and its phrases "prefeito <who>, de    *)
(* <where>".  What spaCy or the Natural Language API recognises in it is   *)
(* an input: a set of [text, label].                                       *)
(***************************************************************************)
EXTENDS Integers, Sequences, FiniteSetsExt, Functions
LOCAL INSTANCE TLC

(* The monitored region: load_region and Region of mapear_domain/region.   *)
(* What the seed files say is a constant.  A name is the set of its words, *)
(* normalised (lower case, no accents), so that "the name occurs in the    *)
(* text" is inclusion.                                                     *)
CONSTANTS
  CityRows,      \* cities_mayors.csv: [city, mayor, party]
  GovernorRows,  \* governor.csv: [name, role, party]
  CandidateRows, \* names of governor_candidates.csv
  Politicians,   \* targets.csv, in order: [person_id, name, aliases, role, city,
                 \*                         party, handles, is_incumbent]
  CityAliases, MayorAliases, GovernorAliases, PoliticianAliases,  \* aliases.json
  StripHandle,   \* a handle as written |-> without "@", host and final "/"
  NONE

People == DOMAIN Politicians
ASSUME PoliticiansAssumption == Len(Politicians) \in Nat /\ People = 1..Len(Politicians)

CityNames == {r.city : r \in CityRows} \cup Range(CityAliases)
MayorNames == {r.mayor : r \in CityRows} \cup Range(MayorAliases)
IncumbentGovernorNames == {g.name : g \in {g \in GovernorRows : g.role = "governor"}}
GovernorNames ==
  {g.name : g \in GovernorRows} \cup CandidateRows
  \cup Range(GovernorAliases) \cup Range(PoliticianAliases)
PartyNames == ({r.party : r \in CityRows} \cup {g.party : g \in GovernorRows}) \ {{}}

\* The first of the four mappings that knows the name decides.
NormalizeEntity(name) ==
  CASE name \in DOMAIN CityAliases -> CityAliases[name]
    [] name \in DOMAIN MayorAliases /\ name \notin DOMAIN CityAliases -> MayorAliases[name]
    [] name \in DOMAIN GovernorAliases
         /\ name \notin DOMAIN CityAliases \cup DOMAIN MayorAliases -> GovernorAliases[name]
    [] name \in DOMAIN PoliticianAliases
         /\ name \notin DOMAIN CityAliases \cup DOMAIN MayorAliases \cup DOMAIN GovernorAliases
       -> PoliticianAliases[name]
    [] OTHER -> name

\* The first politician of that handle, compared as it is written.
PoliticianByHandle(platform, handle) ==
  LET owners == {i \in People : /\ platform \in DOMAIN Politicians[i].handles
                                /\ Politicians[i].handles[platform] = handle}
  IN IF owners = {} THEN NONE ELSE Min(owners)

CityForPersonId(id) ==
  LET named == {i \in People : Politicians[i].person_id = id}
  IN IF named = {} THEN NONE ELSE Politicians[Min(named)].city

-----------------------------------------------------------------------------
(* What a text mentions of it.                                             *)

CONSTANTS
  NoiseWords,     \* words only a link, a handle, a hashtag or a platform has
  Stoplist,       \* ner_stoplist.yaml
  GovernorPhrases \* "governador", "governo do estado"

PersonLabels == {"PER", "PERSON"}
SkipLabels == {"OTHER", "NUMBER", "DATE", "EVENT"}

-----------------------------------------------------------------------------
\* The alternations try the longest alias first, and what it has matched is
\* not searched again for a shorter one.
Longest(names, words) ==
  {n \in names : /\ n \subseteq words /\ n # {}
                 /\ \A m \in names : m \subseteq words => ~(n \subseteq m /\ n # m)}

FindMatches(names, words) == {NormalizeEntity(n) : n \in Longest(names, words)}

IsNoisePerson(e) == e.label \in PersonLabels /\ e.text \in Stoplist
FilterEntities(entities) ==
  {e \in entities : /\ e.label \notin SkipLabels
                    /\ e.text \cap NoiseWords = {}
                    /\ ~IsNoisePerson(e)}

\* Persons a text refers to by their office.
Coreferences(text) ==
  (IF \E p \in GovernorPhrases : p \subseteq text.words THEN IncumbentGovernorNames ELSE {})
  \cup {r.mayor : r \in {r \in CityRows : r.city \in text.mayorOf}}

\* mentioned_persons keeps the order mayors, governors, offices, entities; a
\* name counts where it comes first.  The order within each is that of a set.
MentionedPersons(text, entities, mayors, governors) ==
  LET groups == <<mayors, governors, Coreferences(text),
                  {e.text : e \in {e \in entities : e.label \in PersonLabels}}>>
      at(name) == CHOOSE g \in 1..4 :
        /\ \E n \in groups[g] : NormalizeEntity(n) = name
        /\ \A h \in 1..(g - 1) : \A n \in groups[h] : NormalizeEntity(n) # name
  IN {[name |-> NormalizeEntity(n), group |-> at(NormalizeEntity(n))]
        : n \in groups[1] \cup groups[2] \cup groups[3] \cup groups[4]}

\* extract_from_text, and extract for an article's title and content.
Extract(text, recognised) ==
  LET entities == FilterEntities(recognised)
      cities == FindMatches(CityNames, text.words)
      mayors == FindMatches(MayorNames, text.words)
      governors == FindMatches(GovernorNames \cup CandidateRows, text.words)
  IN [cities |-> cities, mayors |-> mayors, governors |-> governors,
      parties |-> Longest(PartyNames, text.words), candidates |-> {}, politicians |-> {},
      persons |-> MentionedPersons(text, entities, mayors, governors),
      is_rn_relevant |-> \/ cities # {} \/ mayors # {}
                         \/ Longest(IncumbentGovernorNames, text.words) # {}]

-----------------------------------------------------------------------------
\* The tables RegionMatcher builds; where two say different things the later wins.
SelfNamed(names) == [n \in names |-> n]
NamesOf(roles) ==
  [a \in UNION {Politicians[i].aliases \cup {Politicians[i].name} :
                  i \in {i \in People : Politicians[i].role \in roles}} |->
     LET owners == {i \in People : /\ Politicians[i].role \in roles
                                   /\ a \in Politicians[i].aliases \cup {Politicians[i].name}}
     IN Politicians[CHOOSE i \in owners : \A j \in owners : j <= i].name]

CandidateNames == {Politicians[i].name : i \in {i \in People : Politicians[i].role = "governor_candidate"}}
MatcherTables ==
  LET ofCandidates == {a \in DOMAIN GovernorAliases : GovernorAliases[a] \in CandidateNames}
  IN [cities |-> SelfNamed(CityNames) @@ CityAliases,
      mayors |-> SelfNamed(MayorNames) @@ MayorAliases,
      governors |-> SelfNamed(IncumbentGovernorNames)
                    @@ Restrict(GovernorAliases, DOMAIN GovernorAliases \ ofCandidates),
      candidates |-> NamesOf({"governor_candidate"}) @@ Restrict(GovernorAliases, ofCandidates),
      politicians |-> NamesOf({"senator", "deputy_federal", "vice_governor"}) @@ PoliticianAliases,
      parties |-> SelfNamed(PartyNames)]

Matched(table, words) == {table[a] : a \in Longest(DOMAIN table, words)}
CitiesOf(mayors) == {r.city : r \in {r \in CityRows : r.mayor \in mayors}}

\* match: a mayor implies the city, and "prefeito <who>, de <where>" makes a
\* mayor of anybody, known or not, if the place is known.
MatchWith(T, text) ==
  LET mayors == Matched(T.mayors, text.words)
      linked == {c \in text.claims : Matched(T.cities, c.where) # {}}
      claimed == {IF c.who \in DOMAIN T.mayors THEN T.mayors[c.who] ELSE c.who : c \in linked}
  IN [cities |-> Matched(T.cities, text.words) \cup CitiesOf(mayors)
                 \cup UNION {Matched(T.cities, c.where) : c \in linked},
      mayors |-> mayors \cup claimed,
      governors |-> Matched(T.governors, text.words),
      candidates |-> Matched(T.candidates, text.words),
      politicians |-> Matched(T.politicians, text.words),
      parties |-> Matched(T.parties, text.words)]
Match(text) == MatchWith(MatcherTables, text)

\* _enrich_with_region_matcher: the union of both, and of whom the author's
\* handle belongs to.  mentioned_persons stays what NER made of it.
Merged(ner, m, author) ==
  LET role == IF author = NONE THEN "" ELSE Politicians[author].role
      self(r) == IF role = r THEN {Politicians[author].name} ELSE {}
      home == IF role = "mayor" THEN {Politicians[author].city} \ {{}} ELSE {}
  IN [ner EXCEPT !.cities = @ \cup m.cities \cup home,
                 !.mayors = @ \cup m.mayors \cup self("mayor"),
                 !.governors = @ \cup m.governors \cup self("governor"),
                 !.parties = @ \cup m.parties,
                 !.candidates = @ \cup m.candidates,
                 !.politicians = @ \cup m.politicians]
EnrichWithRegionMatcher(ner, text, platform, handle) ==
  Merged(ner, Match(text), PoliticianByHandle(platform, handle))
=============================================================================
