------------------------------ MODULE MC_Query ------------------------------
(***************************************************************************)
(* A small world for Resolve: a zone "e" with the name w.e, whose name     *)
(* servers are n.e and, out of the zone, m.f; a forwarder p, a server r    *)
(* that refers to the zone's servers, and these servers, at d and x.       *)
(***************************************************************************)
EXTENDS Resolve

W == <<"w", "e">>
E == <<"e">>
NE == <<"n", "e">>
MF == <<"m", "f">>

Name(n) == <<[kind |-> "n", v |-> n]>>
Address(a) == <<[kind |-> "b", v |-> a]>>
RR(n, type, data) == [name |-> n, type |-> type, ttl |-> 10, data |-> data]

Message(rcode, aa, ra, an, ns, ar) ==
  [header |-> TRUE, question |-> TRUE, rcode |-> rcode, aa |-> aa, tc |-> FALSE, ra |-> ra, cut |-> 0,
   an |-> an, ns |-> ns, ar |-> ar]

Refused == Message("REFUSED", FALSE, FALSE, <<>>, <<>>, <<>>)
NoSuchName == Message("NAMEERR", TRUE, FALSE, <<>>, <<>>, <<>>)
Empty == Message("OK", FALSE, TRUE, <<>>, <<>>, <<>>)
Referral(server, glue) == Message("OK", FALSE, FALSE, <<>>, <<RR(E, "NS", Name(server))>>, glue)
Forwarded(n, a) == Message("OK", FALSE, TRUE, <<RR(n, "A", Address(a))>>, <<>>, <<>>)
Authoritative(n, a) == Message("OK", TRUE, FALSE, <<RR(n, "A", Address(a))>>, <<>>, <<>>)
Truncated(m) == [m EXCEPT !.tc = TRUE, !.cut = 1]

\* What the servers say of w.e, of its name servers, of the root.
World(addr, query) ==
  CASE query = Nothing -> {Empty, Refused}
    [] query # Nothing /\ addr = "p" -> {Forwarded(query.name, "h"), Refused}
    [] addr = "r" /\ query = [name |-> W, type |-> "A"] ->
         {Referral(NE, <<RR(NE, "A", Address("d"))>>), Referral(MF, <<>>), Refused}
    [] addr = "r" /\ query = [name |-> NE, type |-> "A"] -> {Referral(NE, <<>>), Authoritative(NE, "d")}
    [] addr = "r" /\ query = [name |-> MF, type |-> "A"] -> {Authoritative(MF, "x")}
    [] addr = "d" -> {Truncated(Authoritative(query.name, "h")),
                      Referral(MF, <<RR(MF, "A", Address("x"))>>)}
    [] addr = "x" -> {NoSuchName, Referral(NE, <<>>)}
    [] addr = "o" /\ query = [name |-> <<>>, type |-> "NS"] ->
         {[Empty EXCEPT !.an = <<RR(<<>>, "NS", Name(NE)), RR(<<>>, "NS", Name(MF))>>], NoSuchName}
    [] addr = "o" /\ query # [name |-> <<>>, type |-> "NS"] -> {Forwarded(query.name, "d"), NoSuchName}
    [] OTHER -> {Empty}

Server(addrs, proxy, root) ==
  [addrs |-> addrs, proxy |-> proxy, rootserver |-> root, testing |-> TRUE, nocache |-> FALSE,
   purge_cache |-> FALSE, lean |-> TRUE, edns |-> FALSE, random |-> FALSE, alist |-> <<>>,
   policy |-> "included", rejectlist |-> Nothing]

MCConfigurations ==
  {<<<<Server(<<"r">>, FALSE, 0), Server(<<"p">>, TRUE, 0)>>, "UDP_TCP">>,
   <<<<Server(<<"o">>, FALSE, 2), Server(<<"r">>, FALSE, 1)>>, "UDP_ONLY">>,
   <<<<Server(<<"p">>, TRUE, 0), Server(<<"r">>, TRUE, 0)>>, "TCP_UDP">>}
MCQuestions == {<<W, "A">>}

\* The name has been asked for, long ago; or the zone's name server is known.
NoNames == [n \in {} |-> Nothing]
Set(flags, rrs) == [ttl |-> 10, flags |-> flags, rrs |-> rrs]
Entry(n, type, set) == n :> [Blank(n, {}) EXCEPT !.sets = type :> set]
Old == Entry(W, "A", Set({"OLD", "NOPURGE"}, <<Address("h")>>))
KnownZone == Entry(E, "NS", Set({"ROOTSERV"}, <<Name(NE)>>)) @@ Entry(NE, "A", Set({}, <<Address("d")>>))
MCCaches == {NoNames, Old, KnownZone}
MCDelegOnly == <<>>
=============================================================================
