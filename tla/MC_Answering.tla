---------------------------- MODULE MC_Answering ----------------------------
(***************************************************************************)
(* Clients and cache entries for Answering. In the zone "e" there are a    *)
(* host h.e, an alias w.e of it, aliases c.e and d.e of each other, and    *)
(* mail for e; l is local, and so is the alias l.e of a host in "f".       *)
(***************************************************************************)
EXTENDS Answering

E == <<"e">>
L == <<"l">>
H == <<"h", "e">>
W == <<"w", "e">>
C == <<"c", "e">>
D == <<"d", "e">>
G == <<"g", "f">>
A == <<"a", "l">>

Host(n) == <<[kind |-> "n", v |-> n]>>
Address(a) == <<[kind |-> "b", v |-> a, len |-> 4]>>
Mail(n) == <<[kind |-> "b", v |-> 10, len |-> 2], [kind |-> "n", v |-> n]>>
Soa(n) == <<[kind |-> "n", v |-> n], [kind |-> "n", v |-> <<"p">> \o n], [kind |-> "b", v |-> 1, len |-> 20]>>

Set(rrs) == [flags |-> {}, rrs |-> rrs]
Entry(n, sets, c_ns, c_soa) == [Blank(n, {}) EXCEPT !.sets = sets, !.c_ns = c_ns, !.c_soa = c_soa]
Local(ent) == [ent EXCEPT !.flags = {"LOCAL"}]

Zone == Entry(E, [NS |-> Set(<<Host(H), Host(G)>>), SOA |-> Set(<<Soa(E)>>), MX |-> Set(<<Mail(H), Mail(C)>>)], 1, 1)
HostE == Entry(H, [A |-> Set(<<Address("i"), Address("j")>>)], 1, 1)
AliasW == Entry(W, [CNAME |-> Set(<<Host(H)>>)], 1, cundef)
Loop(n, to) == Entry(n, [CNAME |-> Set(<<Host(to)>>), A |-> Set(<<>>)], 1, cundef)
HostG == Entry(G, [A |-> Set(<<Address("k")>>)], cundef, cundef)
LocalZone == Local(Entry(L, [NS |-> Set(<<Host(A)>>), SOA |-> Set(<<Soa(L)>>)], cundef, cundef))
LocalHost == Local(Entry(A, [A |-> Set(<<Address("i")>>)], cundef, cundef))
LocalAlias == Local(Entry(<<"l", "e">>, [CNAME |-> Set(<<Host(G)>>)], cundef, cundef))

MCCacheEntries == {Zone, HostE, HostG, LocalZone, LocalHost}

Ok(ent) == [name |-> ent.qname, rc |-> "OK", ent |-> ent, soa |-> cundef]
Error(name, rc, soa) == [name |-> name, rc |-> rc, ent |-> Nothing, soa |-> soa]

MCOutcomes ==
  {Ok(ent) : ent \in {AliasW, HostE, Loop(C, D), Loop(D, C), HostG, Zone, LocalHost, LocalAlias}}
    \union {Error(W, "SERVFAIL", cundef), Error(H, "NAMEERR", 1)}

Plain(qs) ==
  [size |-> "whole", qr |-> FALSE, opcode |-> "QUERY", z |-> FALSE, rcode |-> "OK", an |-> FALSE, ns |-> FALSE,
   tc |-> FALSE, rd |-> TRUE, qs |-> qs, read |-> "OK", ar |-> "none", opts |-> <<>>]
WithOpt(q, version, size) ==
  [q EXCEPT !.ar = "OK", !.opts = <<[version |-> version, rcode |-> 0, udpsize |-> size]>>]
Ask(n, type) == [name |-> n, type |-> type, class |-> "IN"]

Good == {Plain(<<Ask(E, "MX")>>), WithOpt(Plain(<<Ask(E, "MX")>>), 0, 300),
         Plain(<<Ask(<<"l", "e">>, "A"), Ask(A, "A")>>), Plain(<<Ask(E, "SOA"), Ask(E, "A")>>), WithOpt(Plain(<<Ask(C, "MAILB")>>), 0, 90)}
Bad == {[Plain(<<Ask(H, "A")>>) EXCEPT !.qr = TRUE], [Plain(<<Ask(H, "A")>>) EXCEPT !.read = "TRUNC"],
        WithOpt(Plain(<<Ask(H, "A")>>), 1, 100), Plain(<<Ask(H, "AXFR")>>)}

MCRequests ==
  [udp |-> {[query |-> q] : q \in Good \union Bad},
   tcp |-> {[sends |-> "all", query |-> Plain(<<qe>>)] : qe \in {Ask(W, "A"), Ask(E, "ALL")}}
           \union {[sends |-> s, query |-> Plain(<<>>)] : s \in {"part", "nothing"}}]
=============================================================================
