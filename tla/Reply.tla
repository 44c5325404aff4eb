-------------------------------- MODULE Reply --------------------------------
(***************************************************************************)
(* What pdnsd makes of an answer (dns_query.c): the second half of         *)
(* p_exec_query(), with rrs2cent(), which decodes the three sections, and  *)
(* what it needs of dns.c and cache.c. Pure operators: from the state st   *)
(* of the query to one server and the message m to a result code, an entry *)
(* for the name asked, the name servers that m mentions, and the entries   *)
(* that go to the cache.                                                   *)
(***************************************************************************)
EXTENDS Entries

CONSTANTS
  DelegOnly,               \* deleg_only_zones, a sequence
  NegDomainPol, NegRrsPol, \* "on", "off", "auth"; NegRrsPol also "default"
  NegTtl                   \* neg_ttl

----------------------------------------------------------------------------
(* What can be in a packet: codes of four bits, records whose names are      *)
(* lists of labels.                                                         *)

RCODES == {"OK", "FORMAT", "SERVFAIL", "NAMEERR", "NOTSUPP", "REFUSED", "OTHER"}

IsRecord(rr) ==
  /\ IsList(rr.name) /\ IsList(rr.data)
  /\ \A k \in DOMAIN rr.data : rr.data[k].kind = "n" => IsList(rr.data[k].v)

IsMessage(m) ==
  m.header => /\ m.rcode \in RCODES
              /\ \A rrs \in {m.an, m.ns, m.ar} : IsList(rrs) /\ \A k \in DOMAIN rrs : IsRecord(rrs[k])

----------------------------------------------------------------------------
LookupCentArray(sec, n) ==
  IF \E k \in DOMAIN sec : sec[k].qname = n
  THEN sec[SelectInSeq(sec, LAMBDA ce : ce.qname = n)] ELSE Nothing

----------------------------------------------------------------------------
(* rrs2cent(): what a record of each type consists of. "*": the rest.       *)

NameRecords ==
  Over([t \in {"CNAME", "MB", "MD", "MF", "MG", "MR", "NS", "PTR"} |-> {<<"n">>}],
       [t \in {"MINFO", "RP"} |-> {<<"n", "n">>}])

PreferenceRecords == [t \in {"MX", "AFSDB", "RT", "KX"} |-> {<<"b", "n">>}]

FixedRecords ==
  [A |-> {<<"b">>}, AAAA |-> {<<"b">>}, SOA |-> {<<"n", "n", "b">>}, PX |-> {<<"b", "n", "n">>},
   SRV |-> {<<"b", "n">>}, NAPTR |-> {<<"b", "b", "b", "b", "n">>}]

\* A name among plain bytes; the gateway of IPSECKEY is nothing, an address or a name.
OpenRecords ==
  [NXT |-> {<<"n", "*">>}, NSEC |-> {<<"n", "*">>}, RRSIG |-> {<<"b", "n", "*">>},
   IPSECKEY |-> {<<"b", "*">>, <<"b", "b", "*">>, <<"b", "n", "*">>},
   TXT |-> {<<"*">>}]

Layouts == Over(NameRecords, Over(PreferenceRecords, Over(FixedRecords, OpenRecords)))

WellFormed(rr) ==
  \E parts \in Layouts[rr.type] :
    LET kinds == [k \in DOMAIN rr.data |-> rr.data[k].kind]
        open == Last(parts) = "*"
        fixed == IF open THEN Front(parts) ELSE parts
    IN  /\ Len(fixed) <= Len(kinds) /\ SubSeq(kinds, 1, Len(fixed)) = fixed
        /\ ~open => Len(kinds) = Len(fixed)

RrToCache(sec, rr, flags) ==
  IF LookupCentArray(sec, rr.name) = Nothing
  THEN Append(sec, AddCentRr(Blank(rr.name, {}), rr, flags))
  ELSE [sec EXCEPT ![SelectInSeq(sec, LAMBDA ce : ce.qname = rr.name)] = AddCentRr(@, rr, flags)]

\* One record. p: what has been read so far and the result code.
Rrs2Cent(p, rr, flags) ==
  CASE p.rc # "OK" -> p
    [] p.rc = "OK" /\ rr.type = "OPT" -> IF p.opt = Nothing THEN [p EXCEPT !.opt = rr] ELSE p
    [] p.rc = "OK" /\ rr.type \notin DOMAIN Layouts \union {"OPT"} -> p
    [] OTHER -> IF WellFormed(rr) THEN [p EXCEPT !.sec = RrToCache(@, rr, flags)]
                ELSE [p EXCEPT !.rc = "FORMAT"]

\* A section that the message ends in has lost its last records.
ReadSection(rrs, sec, flags, truncated) ==
  LET p == FoldLeft(LAMBDA q, rr : Rrs2Cent(q, rr, flags),
                    [rc |-> "OK", sec |-> sec, opt |-> Nothing], rrs)
  IN  IF p.rc = "OK" /\ truncated THEN [p EXCEPT !.rc = "TRUNC"] ELSE p

\* The answer, authority and additional sections; an error ends the reading.
SectionFlags(st, aa, k) ==
  st.flags \union (IF aa THEN {"AUTH"} ELSE {}) \union (IF k > 1 THEN {"ADDITIONAL"} ELSE {})

ReadNext(r, k, m, st, aa) ==
  LET p == ReadSection(<<m.an, m.ns, m.ar>>[k], r.secs[k], SectionFlags(st, aa, k), m.cut = k)
  IN  IF r.rc # "OK" THEN r ELSE [rc |-> p.rc, secs |-> [r.secs EXCEPT ![k] = p.sec], opt |-> p.opt]

ReadSections(st, m, name, qtype) ==
  LET aa == m.aa /\ st.failed = 0 /\ ~m.tc
      first == Blank(name, IF aa /\ qtype = "ALL" THEN {"AUTH"} ELSE {})
  IN  FoldLeft(LAMBDA r, k : ReadNext(r, k, m, st, aa),
               [rc |-> "OK", secs |-> <<<<first>>, <<>>, <<>>>>, opt |-> Nothing], <<1, 2, 3>>)

----------------------------------------------------------------------------
(* References to the zone's NS and SOA records, in segments of the name.    *)

MaxCut(c, ml) == IF c = cundef \/ c < ml THEN ml ELSE c

Referred(st, cent, auth, type, own) ==
  FoldLeft(LAMBDA c, ce :
             LET ml == Len(ce.qname)
             IN  IF Within(cent.qname, ce.qname) /\ (ml > 0 \/ st.auth_serv # 2) /\ Has(ce, type)
                 THEN MaxCut(c, ml) ELSE c,
           own, auth)

WithCuts(st, ans, auth, qtype) ==
  [k \in DOMAIN ans |->
     LET cent == ans[k]
         scnt == Len(cent.qname)
         ownNs == IF Has(cent, "NS") THEN scnt ELSE cent.c_ns
         ownSoa == IF Has(cent, "SOA") THEN scnt ELSE cent.c_soa
         wanted == \/ qtype \in QTypes
                   \/ Has(cent, qtype)
                   \/ Len(ans) = 1 /\ DOMAIN cent.sets = {}
     IN  [cent EXCEPT !.c_ns = IF wanted THEN Referred(st, cent, auth, "NS", ownNs) ELSE ownNs,
                      !.c_soa = IF wanted THEN Referred(st, cent, auth, "SOA", ownSoa) ELSE ownSoa]]

----------------------------------------------------------------------------
(* Policies. *)

SoaTtl(cent) ==
  LET s == cent.sets["SOA"] IN Min({s.ttl, s.rrs[1][3].v})   \* soa_minimum()

NameErrorTtl(ent, auth) ==
  LET zone == LookupCentArray(auth, Upper(ent.qname, ent.c_soa))
  IN  IF ent.c_soa # cundef /\ ent.c_soa < Len(ent.qname) /\ zone # Nothing /\ HaveRr(zone, "SOA")
      THEN SoaTtl(zone) ELSE NegTtl

NegateName(st) == NegDomainPol = "on" \/ (NegDomainPol = "auth" /\ st.aa)

Rejected(st, secs) ==
  st.rejectlist # Nothing
  /\ \E i \in 1..3 : \E cent \in ToSet(secs[i]) :
       Has(cent, "A") /\ \E d \in ToSet(cent.sets["A"].rrs) : d[1].v \in st.rejectlist.addrs

\* The first delegation-only zone that n is in.
ZoneOf(n) ==
  IF \E k \in DOMAIN DelegOnly : Within(n, DelegOnly[k])
  THEN DelegOnly[SelectInSeq(DelegOnly, LAMBDA z : Within(n, z))] ELSE Nothing

Authorities(secs) ==
  {ce \in ToSet(secs[1]) \union ToSet(secs[2]) : Has(ce, "NS") \/ Has(ce, "SOA")}

MissingDelegation(st, name, secs) ==
  /\ st.auth_serv < 3
  /\ ZoneOf(name) # Nothing /\ ZoneOf(name) # name
  /\ \A ce \in Authorities(secs) : ZoneOf(ce.qname) = ce.qname

\* Negative caching of the type that was asked for and is not there.
WithNegativeSet(st, m, ent, auth, thint) ==
  LET aa == st.aa /\ ~st.tc
      flags == st.flags \union (IF aa THEN {"AUTH"} ELSE {})
      zone == LookupCentArray(auth, IF ent.c_soa # cundef /\ ent.c_soa < Len(ent.qname)
                                    THEN Upper(ent.qname, ent.c_soa) ELSE ent.qname)
      ttl == CASE HaveRr(ent, "SOA") -> SoaTtl(ent)
               [] ~HaveRr(ent, "SOA") /\ zone # Nothing ->
                    IF HaveRr(zone, "SOA") THEN SoaTtl(zone) ELSE NegTtl
               [] OTHER -> NegTtl
  IN  IF /\ thint \notin QTypes /\ ~Has(ent, thint) /\ ~st.tc /\ st.failed <= 1
         /\ \/ NegRrsPol = "on"
            \/ NegRrsPol = "auth" /\ aa
            \/ NegRrsPol = "default" /\ (aa \/ st.ra)
      THEN AddNegativeSet(ent, thint, ttl, flags \union {"NEGATIVE"}) ELSE ent

\* Variant: only a reply that failed is distrusted.
TrustworthyUnlessFailed(st, n) == st.trusted \/ st.nsdomain = Nothing \/ st.failed = 0

\* May the server speak for n?
Trustworthy(st, n) == st.trusted \/ st.nsdomain = Nothing \/ Within(n, st.nsdomain.name)
NotForeignRoot(st, n) == n # <<>> \/ st.auth_serv # 2

\* The name servers in the answer and authority sections, each once: <<domain, server>>.
AddServer(ns, cent, d) ==
  IF \E k \in DOMAIN ns : ns[k][2] = d[1].v THEN ns ELSE Append(ns, <<cent.qname, d[1].v>>)

AddServersOf(ns, cent, type) ==
  IF Has(cent, type) THEN FoldLeft(LAMBDA l, d : AddServer(l, cent, d), ns, cent.sets[type].rrs) ELSE ns

MaySpeakFor(st, n) == NotForeignRoot(st, n) /\ Trustworthy(st, n)

AddServers(ns, cent, st) ==
  IF MaySpeakFor(st, cent.qname) THEN AddServersOf(AddServersOf(ns, cent, "NS"), cent, "SOA") ELSE ns

NameServers(st, secs) ==
  IF st.failed > 1 THEN <<>> ELSE FoldLeft(LAMBDA ns, cent : AddServers(ns, cent, st), <<>>, secs[1] \o secs[2])

\* What add_cache() is called for, the first entry of the answer section apart.
Additional(st, secs, negAns) ==
  LET from(k) == IF k = 1 THEN IF negAns THEN <<>> ELSE Tail(secs[1]) ELSE secs[k]
      all == from(1) \o from(2) \o from(3)
  IN  Among(all, {cent \in ToSet(all) : MaySpeakFor(st, cent.qname)})

----------------------------------------------------------------------------
(* The answer as a whole. *)

Useless(st, rv) == [rv |-> rv, st |-> st, ent |-> Nothing, ns |-> <<>>, adds |-> <<>>]

\* cleanup_return_OK and add_additional
Usable(st, ent, ns, secs, negAns, rejected) ==
  IF st.failed > 0 /\ negAns /\ ns = <<>> THEN Useless(st, "SERVFAIL")
  ELSE [rv |-> "OK", st |-> st, ent |-> ent, ns |-> ns,
        adds |-> IF st.failed = 0 /\ ~rejected THEN Additional(st, secs, negAns) ELSE <<>>]

NameError(st, secs, rejected) ==
  LET ent == secs[1][1]
      negated == NegateCent(ent, NameErrorTtl(ent, secs[2]))
  IN  IF NegateName(st)
      THEN Usable(st, IF st.nocache THEN [negated EXCEPT !.flags = @ \union {"NOCACHE"}] ELSE negated,
                  <<>>, secs, TRUE, rejected)
      ELSE [rv |-> "NAMEERR", st |-> st, ent |-> ent, ns |-> <<>>,
            adds |-> IF st.failed = 0 /\ ~rejected THEN Additional(st, secs, TRUE) ELSE <<>>]

\* What an answer is taken for: no such name, nothing at all, or what it says.
Verdict(st, rcode, name, secs, rejected) ==
  LET unnamed == st.failed <= 1
  IN  CASE rcode = "NAMEERR" -> "no name"
        [] rcode # "NAMEERR" /\ rejected ->
             IF st.rejectlist.policy = "negate" /\ unnamed THEN "no name" ELSE "useless"
        [] rcode # "NAMEERR" /\ ~rejected /\ MissingDelegation(st, name, secs) ->
             IF Authorities(secs) # {} /\ unnamed THEN "no name"
             ELSE IF st.auth_serv < 2 THEN "useless" ELSE "usable"
        [] OTHER -> "usable"

Pronounced(st, m, thint, secs, rejected, verdict) ==
  LET ent == secs[1][1]
  IN  CASE verdict = "no name" -> NameError(st, secs, rejected)
        [] verdict = "useless" -> Useless(st, "SERVFAIL")
        [] verdict = "usable" ->
             Usable(st, WithNegativeSet(st, m, ent, secs[2], thint), NameServers(st, secs),
                    secs, DOMAIN ent.sets = {}, rejected)

Judge(st, m, rcode, name, thint, secs) ==
  LET rejected == Rejected(st, secs)
  IN  Pronounced(st, m, thint, secs, rejected, Verdict(st, rcode, name, secs, rejected))

\* An OPT record may carry an rcode of its own.
Extended(read) == read.opt # Nothing /\ read.opt.ttl # 0
Marked(st, read) == IF Extended(read) /\ st.failed = 0 THEN [st EXCEPT !.failed = 1] ELSE st

Understood(st, m, name, thint, qtype, read) ==
  IF read.rc # "OK" /\ ~(read.rc = "TRUNC" /\ m.tc) THEN Useless(st, "SERVFAIL")
  ELSE Judge(st, m, IF Extended(read) THEN "EXT" ELSE m.rcode, name, thint,
             <<WithCuts(st, read.secs[1], read.secs[2], qtype), read.secs[2], read.secs[3]>>)

Parsed(st, m, name, thint, qtype, read) == Understood(Marked(st, read), m, name, thint, qtype, read)

Process(st, m, name, thint, rd) ==
  LET qtype == IF st.lean THEN thint ELSE "ALL"
      seen == [st EXCEPT !.aa = m.aa /\ st.failed = 0, !.tc = m.tc, !.ra = rd /\ m.ra]
  IN  IF ~m.question THEN Useless(st, "SERVFAIL")
      ELSE Parsed(seen, m, name, thint, qtype, ReadSections(st, m, name, qtype))
=============================================================================
