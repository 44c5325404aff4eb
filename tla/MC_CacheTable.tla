---------------------------- MODULE MC_CacheTable ----------------------------
(***************************************************************************)
(* The cache's lock and the hash table it protects. They share no variable,*)
(* so what holds of each while the other rests holds of them together; one *)
(* is chosen at the start. For the table: five names in two buckets, two   *)
(* of them with the same longer hash.                                      *)
(***************************************************************************)
EXTENDS CacheLock, Hash

MCNames == {"a", "b.a", "c.a", "d", "e.d"}
MCIdx == [n \in MCNames |-> IF n = "d" THEN 1 ELSE 0]
MCRHash == [n \in MCNames |-> CASE n = "a" -> 1 [] n = "e.d" -> 3 [] OTHER -> 2]

Rule(domain, rule) == [domain |-> domain, rule |-> rule]
MCLists == {<<>>, <<Rule("b.a", "excluded"), Rule("a", "included"), Rule("d", "included")>>}

\* domain_match(): nothing of the rule's name is left over. (A list of the control socket has no "exact" rule.)
MCCovers(sl, n) == n = sl.domain \/ <<sl.domain, n>> \in {<<"a", "b.a">>, <<"a", "c.a">>, <<"d", "e.d">>}

VARIABLE part

MCInit == Init /\ TableInit /\ part \in {"lock", "table"}

\* The program has destroyed the table and is over.
Over == part = "table" /\ holder = "over" /\ UNCHANGED <<vars, tableVars>>

MCNext ==
  /\ UNCHANGED part
  /\ \/ part = "lock" /\ Next /\ UNCHANGED tableVars
     \/ part = "table" /\ TableNext /\ UNCHANGED vars
     \/ Over

MCSpec ==
  /\ MCInit /\ [][MCNext]_<<vars, tableVars, part>>
  /\ part = "lock" => Fairness
=============================================================================
