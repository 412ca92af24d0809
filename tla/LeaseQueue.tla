----------------------------- MODULE LeaseQueue -----------------------------
(***************************************************************************)
(* What the URL frontier promises its callers: a queue of items handed out *)
(* under leases.  An item is handed out only while it waits; a leased item *)
(* is acknowledged, given up for good, or waits again; a finished item is  *)
(* handed out again only after an explicit revival.  An item can be        *)
(* dropped while nobody holds it.  The frontier's timestamps, counters and *)
(* limits, and who holds a lease, are details of RssExtraction.            *)
(***************************************************************************)
CONSTANTS Items, BannedItems

VARIABLE item

States == {"none", "waiting", "leased", "done", "dead"}

Init == item = [i \in Items |-> "none"]

\* The edges an item may take by itself.
Moves ==
  {<<"none", "waiting">>,        \* discovered
   <<"waiting", "leased">>,      \* handed out
   <<"leased", "done">>,         \* acknowledged
   <<"leased", "dead">>,         \* given up
   <<"leased", "waiting">>,      \* deferred, or failed with budget left, or expired
   <<"done", "waiting">>,        \* revived
   <<"waiting", "none">>,        \* dropped
   <<"dead", "none">>}

\* A banned item is given up whoever holds it, and found again while it is
\* held: what its holders report later counts, whatever it has become.
BannedMoves ==
  {<<"waiting", "dead">>, <<"waiting", "done">>, <<"done", "dead">>,
   <<"dead", "done">>}

Allowed(i, from, to) ==
  from = to \/ <<from, to>> \in Moves \/ (i \in BannedItems /\ <<from, to>> \in BannedMoves)

\* One call affects a batch of items.
Next ==
  /\ item' \in [Items -> States]
  /\ \A i \in Items : Allowed(i, item[i], item'[i])

Spec == Init /\ [][Next]_item
=============================================================================
