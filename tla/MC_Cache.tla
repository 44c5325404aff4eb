------------------------------ MODULE MC_Cache ------------------------------
(* A name has the RR sets 1 (A), 2 (CNAME) and, in the array, 3 (WKS): 2      *)
(* excludes the others.                                                       *)
EXTENDS Cache

MCExcludes == {<<1, 2>>, <<2, 1>>, <<2, 3>>, <<3, 2>>}

Plain == [ttl |-> 1, local |-> FALSE, negative |-> FALSE, additional |-> FALSE,
          rootserv |-> FALSE, nopurge |-> FALSE, nocache |-> FALSE]
Positive(sets) ==
  [neg |-> FALSE, local |-> FALSE, nocache |-> FALSE, ttl |-> 0, sets |-> sets]
Nxdomain(ttl, local) ==
  [neg |-> TRUE, local |-> local, nocache |-> FALSE, ttl |-> ttl, sets |-> NoEntries]
NoData(i) == Positive(i :> [Plain EXCEPT !.negative = TRUE])

MCAnswers ==
  {Positive((1 :> [Plain EXCEPT !.nopurge = TRUE]) @@ (3 :> Plain)),
   Positive(2 :> [Plain EXCEPT !.ttl = 2]), Nxdomain(2, FALSE), NoData(1)}
MCExtras ==
  {Positive(1 :> [Plain EXCEPT !.additional = TRUE, !.nocache = TRUE])}
MCLocals ==
  {[Positive(1 :> [Plain EXCEPT !.local = TRUE]) EXCEPT !.local = l] : l \in BOOLEAN}
  \union {Nxdomain(1, TRUE)}

Symmetry == Permutations(Names) \union Permutations(Queries)
=============================================================================
