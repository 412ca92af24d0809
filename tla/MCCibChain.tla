----------------------------- MODULE MCCibChain -----------------------------
EXTENDS CibChain

(* Accounts 3 and 4 are one person's; the other handles share no letter,   *)
(* so that a text the squad copies does not make one person of it.         *)
MCAccounts ==
    << [platform |-> "x", handle |-> <<1, 1>>, display |-> <<1, 1>>],
       [platform |-> "x", handle |-> <<2, 2>>, display |-> <<2, 2>>],
       [platform |-> "x", handle |-> <<3, 3>>, display |-> <<3>>],
       [platform |-> "instagram", handle |-> <<3, 3>>, display |-> <<3>>],
       [platform |-> "facebook", handle |-> <<4, 4>>, display |-> <<4>>] >>

(* The accounts of a squad post one text about its targets, together;      *)
(* account 3 also writes about others, which costs its squad alignment.    *)
Squad(members, targets, hour) ==
    {[author |-> a, target |-> t, at |-> hour, hash |-> "h"] :
        a \in members, t \in targets}

Pairs1235 == Squad({1, 2}, {"p", "q"}, 1) \cup Squad({3, 5}, {"r", "s"}, 1)
Photo == [author |-> 5, target |-> "q", at |-> 1, hash |-> "photo"]
MCEarlyStories == {Pairs1235, {Photo} \cup Squad({2, 3}, {"p", "q"}, 1)
                                      \cup Squad({3}, {"r", "s"}, 1)}
MCLateStories == {{}, Squad({1, 2}, {"p", "q"}, 4) \cup Squad({4}, {"r", "s"}, 4)}
MCCosine == [h \in {"h"} |-> [k \in {"h"} |-> 100]]
=============================================================================
