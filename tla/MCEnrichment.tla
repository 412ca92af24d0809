----------------------------- MODULE MCEnrichment ----------------------------
(* A governor and a mayor who share a surname, a second mayor, two cities; *)
(* two stories that have both, of two days.                                *)
EXTENDS NarrativeJobs
LOCAL INSTANCE TLC

Person(id, name, aliases, role, city, party, handles, incumbent) ==
  [person_id |-> id, name |-> name, aliases |-> aliases, role |-> role, city |-> city,
   party |-> party, handles |-> handles, is_incumbent |-> incumbent]

Fatima == {"fatima", "bezerra"}
Allyson == {"allyson", "bezerra"}
Paulinho == {"paulinho", "freire"}
NoHandles == [none \in {} |-> ""]

MCPoliticians ==
  <<Person("governor_fatima", Fatima, {{"fatima"}}, "governor", {}, {"pt"},
           [instagram |-> "@fatimabezerra13", x |-> "fatima-bezerra"], TRUE),
    Person("mayor_mossoro", Allyson, {{"allyson"}}, "mayor", {"mossoro"}, {"uniao"},
           [facebook |-> "allysonbezerra", tiktok |-> "allyson.rn", x |-> "allysonrn"], TRUE),
    Person("mayor_natal", Paulinho, {}, "mayor", {"natal"}, {"uniao"}, NoHandles, FALSE)>>
MCCityRows == {[city |-> {"mossoro"}, mayor |-> Allyson, party |-> {"uniao"}],
               [city |-> {"natal"}, mayor |-> Paulinho, party |-> {"uniao"}]}
MCGovernorRows == {[name |-> Fatima, role |-> "governor", party |-> {"pt"}]}
MCCandidateRows == {}
NoAliases == [a \in {} |-> a]
MCMayorAliases == [a \in {{"allyson"}} |-> Allyson]
MCGovernorAliases == [a \in {{"fatima"}} |-> Fatima]
MCStripHandle ==
  [h \in {"", "@fatimabezerra13", "fatimabezerra13", "fatima-bezerra", "allysonbezerra",
          "allyson.rn", "allysonrn", "allyson", "prefeitura",
          "jornal"} |->
     IF h = "@fatimabezerra13" THEN "fatimabezerra13" ELSE h]

MCNoiseWords == {"https"}
MCStoplist == {{"brasil"}}
MCGovernorPhrases == {{"governador"}}
MCStopwords == {"de"}
MCShortWords == {"rn"}
MCRoleKeywords == [mayor |-> {"prefeito"}, governor |-> {"governador", "governadora"}]
MCInstitutionalTokens == {"prefeitura"}
MCMalformedHandles == {"fatima-bezerra"}

Text(sentences, mayorOf, claims) ==
  [words |-> UNION {sentences[i] : i \in DOMAIN sentences}, sentences |-> sentences,
   mayorOf |-> mayorOf, claims |-> claims]
Plain(words) == Text(<<words>>, {}, {})

\* A surname two people have; a name with and without context; an office; a claim.
MCTexts ==
  ("" :> Text(<<>>, {}, {})) @@
  [surname |-> Text(<<{"bezerra", "mossoro"}, {"governadora"}>>, {}, {}),
   praise |-> Text(<<{"fatima", "bezerra", "governadora"}, {"escola", "natal"}>>, {}, {}),
   attack |-> Plain({"allyson", "mossoro", "policia", "rn"}),
   alliance |-> Plain({"allyson", "bezerra", "fatima", "mossoro"}),
   rally |-> Plain({"allyson", "bezerra", "fatima", "natal"}),
   office |-> Text(<<{"prefeito", "natal"}>>, {{"natal"}}, {[who |-> {"silva"}, where |-> {"natal"}]})]
MCWordsOf ==
  [d \in {"", "jornal", "prefeitura", "fatimabezerra13", "allyson", "allyson.rn", "allysonbezerra"} |->
     CASE d = "" -> {} [] d = "prefeitura" -> {"prefeitura", "mossoro"}
       [] d \in {"allyson", "allysonbezerra"} -> {"allyson"} [] OTHER -> {d}]
MCRecognised ==
  [t \in DOMAIN MCTexts |->
     CASE t = "surname" -> {[text |-> {"bezerra"}, label |-> "PER"], [text |-> {"brasil"}, label |-> "PER"]}
       [] t = "praise" -> {[text |-> Fatima, label |-> "PERSON"], [text |-> {"natal"}, label |-> "LOC"]}
       [] t = "attack" -> {[text |-> {"allyson"}, label |-> "PER"], [text |-> {"rn"}, label |-> "OTHER"]}
       [] OTHER -> {}]
MCPolarity ==
  [w \in {MCTexts[t].words : t \in DOMAIN MCTexts}
         \cup UNION {{MCTexts[t].sentences[i] : i \in DOMAIN MCTexts[t].sentences} : t \in DOMAIN MCTexts} |->
     IF "allyson" \in w THEN -80 ELSE IF "fatima" \in w THEN 60 ELSE IF "bezerra" \in w THEN -20 ELSE 0]

MCTimeOf == [old |-> 0, day |-> 2, now |-> 4]
MCUserInUrl == [p \in {"ig/fatimabezerra13/p/3"} |-> "fatimabezerra13"]
MCPageInUrl == [p \in {"fb/allysonbezerra/posts/1"} |-> "allysonbezerra"]

Instagram ==
  {[latestPosts |-> <<[id |-> "i1", shortCode |-> "i1", timestamp |-> "now", caption |-> "praise",
                       likesCount |-> 20, type |-> "Image"]>>,
    username |-> "fatimabezerra13", isVerified |-> "yes"],
   [pk |-> "i1", takenAt |-> "now", text |-> "praise", owner |-> [username |-> "fatimabezerra13"]],
   [shortCode |-> "i2", isoDate |-> "day", caption |-> "surname", ownerUsername |-> "jornal"],
   [code |-> "i3", caption |-> "attack", url |-> "ig/fatimabezerra13/p/3", date |-> "old"],
   [id |-> "i4", caption |-> "attack", timestamp |-> "soon", username |-> "jornal"],
   [id |-> "i5", type |-> "Story", timestamp |-> "now", username |-> "jornal"],
   [caption |-> "attack", likesCount |-> 20, type |-> "Image"]}
FacebookItems ==
  {[postId |-> "f1", url |-> "fb/allysonbezerra/posts/1", time |-> "now", text |-> "attack",
    likes |-> 6000, pageName |-> "allyson"],
   [postId |-> "f2", url |-> "fb/2", publishTime |-> "day", text |-> "attack", pageUrl |-> "",
    user |-> [name |-> "jornal"]],
   [postId |-> "f3", url |-> "fb/3", timestamp |-> "day", text |-> "surname", pageName |-> "prefeitura"],
   [postId |-> "f6", url |-> "fb/6", time |-> "day", text |-> "attack", pageName |-> "jornal", likes |-> 20],
   [postId |-> "f7", url |-> "fb/7", time |-> "now", text |-> "office", pageName |-> "allyson"],
   [postId |-> "f4", url |-> "fb/4", text |-> "none"],
   [error |-> "not_available", url |-> "fb/5", errorDescription |-> "private"]}
TikTokItems ==
  {[id |-> "t1", webVideoUrl |-> "t1", authorMeta |-> [name |-> "allyson.rn", nickName |-> "allyson"],
    createTimeISO |-> "now", text |-> "attack", diggCount |-> 20],
   [id |-> "t2", webVideoUrl |-> "t2", authorMeta |-> [uniqueId |-> "jornal"], createTime |-> "day",
    text |-> "office"],
   [id |-> "t3", webVideoUrl |-> "t3", authorMeta |-> [name |-> "jornal"], isAd |-> "yes"],
   [authorMeta |-> [name |-> "jornal"], input |-> "jornal", note |-> "no posts"]}
Tweets ==
  {[id |-> "x1", text |-> "attack", created_at |-> "now", account |-> [username |-> "allysonrn", name |-> "allyson"],
    public_metrics |-> [like_count |-> 20]],
   [id |-> "x2", text |-> "surname", created_at |-> "day", account |-> [username |-> "jornal"]],
   [id |-> "x3", created_at |-> "day", account |-> [username |-> "jornal"]]}

Article(url, content, time) ==
  [url |-> url, source_feed |-> "feed", title |-> content, content |-> content,
   content_hash |-> <<"rss", content>>, published_at |-> time]
Articles ==
  {Article("r1", "attack", 4), Article("r2", "attack", 3), Article("r3", "surname", NONE),
   Article("r4", "praise", 4), Article("r5", "office", 0),
   Article("r6", "alliance", 3), Article("r7", "rally", 4)}
MCRaw ==
  [rss |-> Articles, instagram |-> Instagram, facebook |-> FacebookItems, tiktok |-> TikTokItems, x |-> Tweets]

MCThresholds ==
  [temporal_cutoff |-> 1, min_city_coverage |-> [rss |-> 10, social |-> 20], min_mayor_coverage |-> 30,
   max_entity_mentions |-> 4, min_rows_coverage |-> 2, min_rows_distribution |-> 2,
   min_stddev |-> [resolution_confidence |-> 100, confidence_score |-> 500]]
MCRules == [DefaultThresholds EXCEPT !.volume_spike = 2, !.volume_warning = 1]
MCCandidate == DefaultThresholds
MCLogEngagement == [e \in {0, 20, 6000} |-> IF e = 0 THEN 0 ELSE IF e = 20 THEN 2814 ELSE 8041]
MCTopics == <<[label |-> "educacao", keywords |-> {"escola"}], [label |-> "seguranca", keywords |-> {"crime"}]>>

Contents == {a.content_hash : a \in Articles}
MCHashRank == [h \in Contents |->
                 CASE h[2] = "attack" -> 1 [] h[2] = "alliance" -> 2 [] h[2] = "rally" -> 3 [] h[2] = "praise" -> 4
                   [] h[2] = "surname" -> 5 [] OTHER -> 6]
MCSimilarity == [a \in Contents |-> [b \in Contents |-> IF a = b THEN 100 ELSE IF "attack" \in {a[2], b[2]} THEN 80 ELSE 60]]

\* Once the batch is done the jobs see its narratives and its events.
View ==
  IF job = NONE THEN <<vars, jobVars>>
  ELSE <<{[content_hash |-> g.content_hash, published_at |-> g.published_at] : g \in Narratives}, Events, jobVars>>
=============================================================================
