------------------------------- MODULE Compose -------------------------------
(***************************************************************************)
(* How pdnsd puts an answer together (dns_answer.c): process_query() looks *)
(* at the message of a client, compose_answer() writes the answer record   *)
(* by record. Pure operators: look-ups happen between them, in Answering.  *)
(*                                                                         *)
(* A message under way is a record: sz is its length, rrs its records,     *)
(* text the names that stand in it, cb what compress_name() remembers of   *)
(* them (it outlives records that are taken back), sva the records that    *)
(* must not come twice, ar what the last two sections are made from. A     *)
(* label takes two bytes; names and plain bytes are else as long as in a   *)
(* real message. With rnd_recs a set begins anywhere: the order of its     *)
(* records is the look-up's choice.                                        *)
(***************************************************************************)
EXTENDS Entries

CONSTANTS
  UDP_BUFSIZE, udpbufsize,   \* without EDNS; the most that is sent with it
  FarthestPointer            \* 0x3fff: no pointer reaches further

ASSUME SizesAssumption == UDP_BUFSIZE \in Nat /\ udpbufsize \in Nat /\ FarthestPointer \in Nat

----------------------------------------------------------------------------
(* compress_name(). *)

Labels(k) == 2 * k           \* bytes

\* Where the last k labels of a name begin.
Offset(el, k) == el.index + Labels(Len(el.name) - k)

\* The longest part of a name that is in the message already, at its first place.
Longer(best, el, name) ==
  LET k == Match(name, el.name)
  IN  IF k > best.k /\ Offset(el, k) <= FarthestPointer THEN [k |-> k, offs |-> Offset(el, k)] ELSE best

Longest(cb, name) == FoldLeft(LAMBDA best, el : Longer(best, el, name), [k |-> 0, offs |-> 0], cb)

WriteName(m, name) ==
  LET best == Longest(m.cb, name)
      new == Len(name) - best.k
  IN  [m EXCEPT !.text = Append(@, [index |-> m.sz, name |-> name, new |-> new, to |-> best]),
                !.sz = @ + Labels(new) + (IF best.k > 0 THEN 2 ELSE 1),
                !.cb = IF best.k > 0 /\ new = 0 THEN @ ELSE Append(@, [index |-> m.sz, name |-> name])]

----------------------------------------------------------------------------
(* add_rr(). *)

COMPRESSED == {"CNAME", "MB", "MD", "MF", "MG", "MR", "NS", "PTR", "MINFO", "RP", "MX", "AFSDB", "RT", "KX",
               "SOA", "PX", "SRV", "NXT", "NAPTR"}

WritePart(m, part, type) ==
  CASE part.kind = "b" -> [m EXCEPT !.sz = @ + part.len]
    [] part.kind = "n" /\ type \notin COMPRESSED -> [m EXCEPT !.sz = @ + Labels(Len(part.v)) + 1]
    [] part.kind = "n" /\ type \in COMPRESSED -> WriteName(m, part.v)

WriteRr(m, rr) ==
  LET named == WriteName(m, rr.name)
  IN  FoldLeft(LAMBDA acc, part : WritePart(acc, part, rr.type), [named EXCEPT !.sz = @ + 10], rr.data)

\* An additional record that does not fit is taken back.
\* Variant: authority records are taken back as well.
AddRrTakingBack(m, rr, udp) ==
  LET n == WriteRr(m, rr)
  IN  IF udp # Nothing /\ n.sz > udp.max /\ rr.sect # "answer" THEN [m EXCEPT !.cb = n.cb]
      ELSE [n EXCEPT !.rrs = Append(@, rr)]

AddRr(m, rr, udp) ==
  LET n == WriteRr(m, rr)
  IN  IF udp # Nothing /\ n.sz > udp.max /\ rr.sect = "additional" THEN [m EXCEPT !.cb = n.cb]
      ELSE [n EXCEPT !.rrs = Append(@, rr)]

Rr(sect, name, type, data, ent) ==
  [sect |-> sect, name |-> name, type |-> type, data |-> data, local |-> "LOCAL" \in ent.flags]

ADDRESSED == {"NS", "MD", "MF", "MB", "MX", "SRV"}   \* ar_recs: their last part is a host

OptSize == 11
AddOpt(m, rcode) ==
  [m EXCEPT !.sz = @ + OptSize,
            !.rrs = Append(@, [sect |-> "additional", name |-> <<>>, type |-> "OPT", data |-> rcode, local |-> FALSE])]

\* What a record's data is made of.
IsPart(part) == (part.kind = "n" /\ IsList(part.v)) \/ (part.kind = "b" /\ part.len \in Nat)
IsData(type, data) ==
  /\ IsList(data) /\ data # <<>> /\ \A k \in DOMAIN data : IsPart(data[k])
  /\ type \in {"CNAME", "SOA"} => data[1].kind = "n"
  /\ type = "NS" => Len(data) = 1
  /\ type \in ADDRESSED => Last(data).kind = "n"

\* An entry holds a record once.
IsEntry(ent) ==
  /\ IsList(ent.qname) /\ IsFiniteSet(DOMAIN ent.sets)
  /\ \A type \in DOMAIN ent.sets :
       LET rrs == ent.sets[type].rrs
       IN  /\ IsList(rrs) /\ \A k \in DOMAIN rrs : IsData(type, rrs[k])
           /\ \A i, k \in DOMAIN rrs : i # k => rrs[i] # rrs[k]

----------------------------------------------------------------------------
(* The answer section. *)

Once(rr) == <<rr.name, rr.type, rr.data>>            \* sva_t
Wanted(rr) == [tp |-> "ADD", name |-> Last(rr.data).v]

AddAnswer(m, rr, udp) ==
  LET n == AddRr(m, rr, udp)
  IN  [n EXCEPT !.sva = IF rr.type \in {"NS", "A", "AAAA"} THEN Append(@, Once(rr)) ELSE @,
                !.ar = IF rr.type \in ADDRESSED THEN Append(@, Wanted(rr)) ELSE @]

AddRrset(m, name, type, ent, udp) ==
  IF HaveRr(ent, type)
  THEN FoldLeft(LAMBDA acc, rr : AddAnswer(acc, rr, udp), m,
                [k \in DOMAIN ent.sets[type].rrs |-> Rr("answer", name, type, ent.sets[type].rrs[k], ent)])
  ELSE m

Asked(qtype, ent) ==
  CASE qtype = "MAILB" -> <<"MB", "MG", "MR">> [] qtype = "MAILA" -> <<"MD", "MF">>
    [] qtype = "ALL" -> SetToSeq(DOMAIN ent.sets) [] OTHER -> <<qtype>>

\* Only an alias, for a question that wants something else.
OnlyAlias(qtype, ent) == qtype \notin {"CNAME", "ALL"} /\ (qtype \in QTypes \/ ~HaveRr(ent, qtype))

AddToResponse(m, name, qtype, ent, udp) ==
  LET aliased == IF OnlyAlias(qtype, ent) THEN AddRrset(m, name, "CNAME", ent, udp) ELSE m
  IN  FoldLeft(LAMBDA acc, type : AddRrset(acc, name, type, ent, udp), aliased, Asked(qtype, ent))

FollowsAlias(q, qtype, ent) == q.rd /\ OnlyAlias(qtype, ent) /\ HaveRr(ent, "CNAME")
Alias(ent) == ent.sets["CNAME"].rrs[1][1].v

----------------------------------------------------------------------------
(* What the authority section names: servers, or the SOA of what there is   *)
(* not. above: the entry that is found under HigherName(), own: the one of  *)
(* the nearest local owner.                                                 *)

AuthorityType(qtype, ent) ==
  IF qtype # "ALL" /\ \A k \in DOMAIN Asked(qtype, ent) : ~HaveRr(ent, Asked(qtype, ent)[k]) THEN "SOA" ELSE "NS"

Positive(ent, type) == ent # Nothing /\ Has(ent, type) /\ "NEGATIVE" \notin ent.sets[type].flags

Cut(ent, type) == IF type = "NS" THEN ent.c_ns ELSE ent.c_soa
HigherName(ent, type) ==
  IF Cut(ent, type) # cundef /\ Cut(ent, type) < Len(ent.qname) THEN Upper(ent.qname, Cut(ent, type)) ELSE ent.qname

Authority(ent, type, above, own) ==
  CASE Positive(ent, type) -> ent
    [] ~Positive(ent, type) /\ Positive(above, type) -> above
    [] OTHER -> IF "LOCAL" \in ent.flags /\ own # Nothing /\ Has(own, type) THEN own ELSE Nothing

WithAuthority(m, type, ent) ==
  IF ent = Nothing THEN m
  ELSE [m EXCEPT !.ar = @ \o [k \in DOMAIN ent.sets[type].rrs |->
                                [tp |-> type, owner |-> ent.qname, data |-> ent.sets[type].rrs[k], ent |-> ent,
                                 name |-> ent.sets[type].rrs[k][1].v]]]

----------------------------------------------------------------------------
(* The last two sections. *)

AddAdditionalRr(m, rr, udp) ==
  IF Contains(m.sva, Once(rr)) THEN m
  ELSE LET n == AddRr(m, rr, udp) IN [n EXCEPT !.sva = Append(@, Once(rr))]

AddAuthority(m, re, udp) ==
  IF re.tp = "ADD" THEN m ELSE AddAdditionalRr(m, Rr("authority", re.owner, re.tp, re.data, re.ent), udp)

AddAuthorities(m, udp) == FoldLeft(LAMBDA acc, re : AddAuthority(acc, re, udp), m, m.ar)

\* The addresses of one host, as they are in the cache now.
AddAddresses(m, type, ent, udp) ==
  IF HaveRr(ent, type)
  THEN FoldLeft(LAMBDA acc, data : AddAdditionalRr(acc, Rr("additional", ent.qname, type, data, ent), udp),
                m, ent.sets[type].rrs)
  ELSE m

AddAdditionalA(m, ent, udp) ==
  IF ent = Nothing THEN m ELSE AddAddresses(AddAddresses(m, "A", ent, udp), "AAAA", ent, udp)

\* If there is no room for an OPT record, nothing else will have any.
AddHost(m, re, found, udp) == IF re.tp = "SOA" THEN m ELSE AddAdditionalA(m, found[re.name], udp)

AddAdditionals(m, found, edns, udp) ==
  IF udp # Nothing /\ m.sz + OptSize > udp.max THEN m
  ELSE FoldLeft(LAMBDA acc, re : AddHost(acc, re, found, udp), IF edns THEN AddOpt(m, "OK") ELSE m, m.ar)

Hosts(m) == {m.ar[k].name : k \in {j \in DOMAIN m.ar : m.ar[j].tp # "SOA"}}

----------------------------------------------------------------------------
(* compose_answer(): the beginning, and an answer that ends with an error.  *)

\* The question is written first; nothing is answered when a part of it cannot be.
CACHED == COMPRESSED \union {"A", "AAAA", "TXT"}
Supported(qe) == qe.type \in CACHED \union QTypes /\ qe.class \in {"IN", "ALL"}

NoMessage == [sz |-> 12, rrs |-> <<>>, text |-> <<>>, cb |-> <<>>, sva |-> <<>>, ar |-> <<>>]
WriteQuestion(m, qe) == LET n == WriteName(m, qe.name) IN [n EXCEPT !.sz = @ + 4]
Begun(q) == FoldLeft(LAMBDA m, qe : WriteQuestion(m, qe), NoMessage, q.qs)

\* soa: the entry of the zone that denies the name, or Nothing.
AddSoa(m, soa, udp) ==
  IF Positive(soa, "SOA")
  THEN FoldLeft(LAMBDA acc, data : AddRr(acc, Rr("authority", soa.qname, "SOA", data, soa), udp),
                m, soa.sets["SOA"].rrs)
  ELSE m

Denied(m, rcode, soa, edns, udp) ==
  LET n == AddSoa(m, soa, udp)
  IN  IF rcode # "NAMEERR" THEN m ELSE IF edns THEN AddOpt(n, rcode) ELSE n

----------------------------------------------------------------------------
(* process_query(): the first objection to a query.                         *)

First(tests) == tests[Min({k \in DOMAIN tests : tests[k][1]})][2]

Objections(q) ==
  LET opt == q.opts # <<>>
  IN  <<<<q.size = "none", "discard">>,
        <<q.size = "id", "FORMAT">>,
        <<q.qr, "discard">>,
        <<q.opcode # "QUERY", "NOTSUPP">>,
        <<q.z, "FORMAT">>,
        <<q.rcode # "OK", "discard">>,
        <<q.an \/ q.ns, "FORMAT">>,
        <<q.read \in {"FORMAT", "SERVFAIL"}, q.read>>,
        <<q.read = "TRUNC" /\ (~q.tc \/ q.qs = <<>> \/ q.ar # "none"), "FORMAT">>,
        <<q.ar = "FORMAT" \/ (q.ar = "TRUNC" /\ ~q.tc), "FORMAT">>,
        <<opt /\ q.opts[1].version # 0, "BADVERS">>,
        <<opt /\ q.opts[1].rcode # 0, "FORMAT">>,
        <<q.qs = <<>>, "FORMAT">>,
        <<TRUE, "none">>>>

Objection(q) == First(Objections(q))

UdpMax(q) ==
  IF q.opts # <<>> /\ q.opts[1].udpsize > UDP_BUFSIZE THEN Min({q.opts[1].udpsize, udpbufsize}) ELSE UDP_BUFSIZE

\* An error without its question. A code beyond four bits needs an OPT record.
ErrorReply(rcode) ==
  [rcode |-> IF rcode = "BADVERS" THEN "OK" ELSE rcode, aa |-> FALSE, tc |-> FALSE,
   m |-> IF rcode = "BADVERS" THEN AddOpt(NoMessage, rcode) ELSE NoMessage]
=============================================================================
