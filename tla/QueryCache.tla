----------------------------- MODULE QueryCache -----------------------------
(***************************************************************************)
(* The cache as dns_query.c uses it: what add_cache() and lookup_cache()   *)
(* (cache.c) do to one set of records or another, and                      *)
(* lookup_cache_status(), which says whether what is cached will do.       *)
(* Operators on c, a function from names to entries. Sizes, lists and      *)
(* locks are in Cache and CacheLock. A set or a negative entry that has    *)
(* timed out is flagged "OLD"; nothing gets old during a look-up.          *)
(***************************************************************************)
EXTENDS ServerQuery

CONSTANT MAXNAMESERVIPS

ASSUME AddressesAssumption == MAXNAMESERVIPS \in Nat

\* A set of records and an entry as they may be in the cache: NS and SOA records begin with a name.
IsSetOf(set, t) ==
  /\ DOMAIN set = {"ttl", "flags", "rrs"} /\ IsList(set.rrs)
  /\ t \in {"NS", "SOA"} => \A d \in ToSet(set.rrs) : IsList(d[1].v)

IsStored(ent) ==
  /\ DOMAIN ent = DOMAIN Blank(<<>>, {}) /\ IsFiniteSet(DOMAIN ent.sets)
  /\ \A t \in DOMAIN ent.sets : IsSetOf(ent.sets[t], t)

Keeps(old, new) ==
  \/ "LOCAL" \in old.flags /\ "LOCAL" \notin new.flags
  \/ /\ "ADDITIONAL" \in new.flags /\ "OLD" \notin old.flags
     /\ \/ "ADDITIONAL" \notin old.flags
        \/ "ROOTSERV" \in old.flags /\ "ROOTSERV" \notin new.flags

Greater(c, d) == IF c = cundef THEN d ELSE IF d = cundef THEN c ELSE Max({c, d})

\* Types that exclude one another (rr_types.h): aliases, pointers and plain records.
Class(t) ==
  CASE t = "CNAME" -> "alias" [] t = "PTR" -> "pointer"
    [] t \in {"A", "AAAA", "RP", "AFSDB", "RT", "KX", "SRV", "NAPTR"} -> "record" [] OTHER -> "any"
Rivals(ent, t) ==
  {u \in DOMAIN ent.sets : Class(u) # Class(t) /\ "any" \notin {Class(u), Class(t)}
                           /\ "NEGATIVE" \notin ent.sets[u].flags}

\* cr_check_add(): the new set must outlive what it replaces.
MayReplace(ent, rivals, new) ==
  LET left == [u \in rivals |-> IF "OLD" \in ent.sets[u].flags THEN 0 ELSE ent.sets[u].ttl]
  IN  \/ "NEGATIVE" \in new.flags \/ "LOCAL" \in new.flags
      \/ /\ "LOCAL" \notin ent.flags
         /\ \A u \in rivals : "LOCAL" \notin ent.sets[u].flags
         /\ rivals # {} => new.ttl > FoldFunction(+, 0, left) \div Cardinality(rivals)

\* adjust_ttl(): what is not to be cached is kept with no time to live.
Adjusted(s) ==
  IF "NOCACHE" \in s.flags THEN [s EXCEPT !.flags = (@ \ {"NOCACHE"}) \union {"OLD"}, !.ttl = 0] ELSE s
AdjustedCent(ent) ==
  [Adjusted(ent) EXCEPT !.sets = [t \in DOMAIN ent.sets |-> Adjusted(ent.sets[t])]]

MergeSet(ent, new, t) ==
  LET others == [u \in DOMAIN ent.sets \ {t} |-> ent.sets[u]]
      old == [ent EXCEPT !.sets = others]
      rivals == IF "NEGATIVE" \in new.flags THEN {} ELSE Rivals(old, t)
  IN  CASE Has(ent, t) /\ Keeps(ent.sets[t], new) -> ent
        [] ~(Has(ent, t) /\ Keeps(ent.sets[t], new)) /\ ~MayReplace(old, rivals, new) -> old
        [] OTHER -> [ent EXCEPT !.sets = Over([u \in {t} |-> Adjusted(new)], [u \in DOMAIN others \ rivals |-> others[u]])]

AddCache(c, ent) ==
  LET n == ent.qname
      old == c[n]
      merged == FoldLeft(LAMBDA e, t : MergeSet(e, ent.sets[t], t), old, SetToSeq(DOMAIN ent.sets))
  IN  CASE n \notin DOMAIN c -> IF DOMAIN ent.sets = {} /\ ~Negative(ent) THEN c
                                ELSE Over([u \in {n} |-> AdjustedCent(ent)], c)
        [] n \in DOMAIN c /\ Negative(ent) ->
             IF \E t \in DOMAIN old.sets : "LOCAL" \in old.sets[t].flags THEN c
             ELSE Over([u \in {n} |-> AdjustedCent(ent)], c)
        [] OTHER ->
             Over([u \in {n} |->
                     [merged EXCEPT
                        !.flags = (@ \union (ent.flags \intersect {"AUTH", "WILD"}))
                                  \ (IF DOMAIN merged.sets = {} THEN {} ELSE {"NEGATIVE", "OLD"}),
                        !.c_ns = Greater(@, ent.c_ns), !.c_soa = Greater(@, ent.c_soa)]], c)

AddAll(c, ents) == FoldLeft(AddCache, c, ents)

Get(c, n) == IF n \in DOMAIN c THEN c[n] ELSE Nothing

\* lookup_cache() up the name: the nearest ancestor tells.
Ancestors(c, n) == {k \in 1..Len(n) - 1 : Upper(n, k) \in DOMAIN c}
LookupWild(c, n) ==
  LET nm == Upper(n, Max(Ancestors(c, n)))
      ent == c[nm]
  IN  CASE n \in DOMAIN c \/ Ancestors(c, n) = {} -> [ent |-> Get(c, n), locnerr |-> FALSE]
        [] n \notin DOMAIN c /\ Ancestors(c, n) # {} /\ Negative(ent) -> [ent |-> ent, locnerr |-> FALSE]
        [] n \notin DOMAIN c /\ Ancestors(c, n) # {} /\ ~Negative(ent) /\ "WILD" \in ent.flags ->
             [ent |-> Get(c, <<"*">> \o nm), locnerr |-> FALSE]
        [] OTHER -> [ent |-> IF "LOCAL" \in ent.flags THEN ent ELSE Nothing, locnerr |-> "LOCAL" \in ent.flags]

\* The sets that a question of some type looks at.
Relevant(ent, type) ==
  LET asked == CASE type = "MAILB" -> {"MB", "MG", "MR"} [] type = "MAILA" -> {"MD", "MF"}
                 [] OTHER -> {type}
  IN  CASE type = "ALL" -> DOMAIN ent.sets
        [] type # "ALL" /\ Has(ent, "CNAME") /\ "NEGATIVE" \notin ent.sets["CNAME"].flags -> {"CNAME"}
        [] OTHER -> asked \intersect DOMAIN ent.sets

LocalOwnerSoa(c, n) ==
  LET owners == {k \in Ancestors(c, n) : "LOCAL" \in c[Upper(n, k)].flags
                   /\ \A l \in Ancestors(c, n) : l > k => "LOCAL" \in c[Upper(n, l)].flags}
      have == {k \in owners : HaveRr(c[Upper(n, k)], "SOA")}
  IN  IF have = {} THEN cundef ELSE Max(have)

Status(rc, ent, flags, soa) == [rc |-> rc, ent |-> ent, flags |-> flags, soa |-> soa]

\* Fresh enough? A negative set is, whatever else is asked of the answer's authority.
Freshness(ent, type, sets, flags) ==
  LET timed == sets = {} \/ "OLD" \in flags
      absent == \E t \in sets : type \notin QTypes /\ t = type /\ "NEGATIVE" \in flags /\ ~timed
      weak == CASE type = "ALL" -> "AUTH" \notin ent.flags
                [] type \in QTypes \ {"ALL"} -> ~("AUTH" \in flags /\ "ADDITIONAL" \notin flags)
                [] OTHER -> FALSE
  IN  IF ~absent /\ "LOCAL" \notin flags /\ (weak \/ timed) THEN "STALE" ELSE "CACHED"

SetFlags(ent, sets) == UNION {ent.sets[t].flags : t \in sets}
SetsStatus(ent, type, sets) ==
  Status(Freshness(ent, type, sets, SetFlags(ent, sets)), ent, SetFlags(ent, sets), cundef)

StatusOf(c, ent, type, locnerr) ==
  CASE ent = Nothing -> Status("NOTCACHED", Nothing, {}, cundef)
    [] ent # Nothing /\ "LOCAL" \in ent.flags ->
         IF Negative(ent) \/ locnerr
         THEN Status("NAMEERR", Nothing, {},
                     IF ent.c_soa # cundef THEN ent.c_soa
                     ELSE IF HaveRr(ent, "SOA") THEN Len(ent.qname) ELSE LocalOwnerSoa(c, ent.qname))
         ELSE Status("OK", ent, {}, cundef)
    [] ent # Nothing /\ "LOCAL" \notin ent.flags /\ Negative(ent) ->
         Status(IF "OLD" \in ent.flags THEN "STALE" ELSE "CACHED", ent, {}, cundef)
    [] OTHER -> SetsStatus(ent, type, Relevant(ent, type))

LookupCacheStatus(c, name, type) ==
  LET found == LookupWild(c, name) IN StatusOf(c, found.ent, type, found.locnerr)

Addresses(ent) ==
  IF ent = Nothing \/ ~HaveRr(ent, "A") THEN <<>>
  ELSE LET rrs == ent.sets["A"].rrs
       IN  [k \in 1..Min({Len(rrs), MAXNAMESERVIPS}) |-> rrs[k][1].v]

AddNewOnes(list, new) ==
  list \o Among(new, {a \in ToSet(new) : ~Contains(list, a)})
=============================================================================
