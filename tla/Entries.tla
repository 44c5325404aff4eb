------------------------------- MODULE Entries -------------------------------
(***************************************************************************)
(* Names (dns.c) and cache entries (cache.h), as queries and answers use   *)
(* them. A name is the sequence of its labels, the root <<>>. A record's   *)
(* data is the sequence of its parts: names, kind "n", and plain bytes,    *)
(* kind "b".                                                               *)
(***************************************************************************)
EXTENDS Integers, FiniteSets, Sequences, SequencesExt, FiniteSetsExt, TLC

Nothing == [none |-> TRUE] \* a null pointer
IsList(s) == s \in Seq({s[k] : k \in DOMAIN s})
cundef == 255

\* f, with what g says of more places; the elements of a list that are in a set.
Over(f, g) == [x \in DOMAIN f \union DOMAIN g |-> IF x \in DOMAIN f THEN f[x] ELSE g[x]]
Among(s, set) == FoldLeft(LAMBDA l, e : IF e \in set THEN Append(l, e) ELSE l, <<>>, s)

----------------------------------------------------------------------------
(* Names. *)

Upper(n, k) == SubSeq(n, Len(n) - k + 1, Len(n))   \* skipsegs(n, Len(n) - k)

Match(ms, md) ==
  Max({k \in 0..Min({Len(ms), Len(md)}) : Upper(ms, k) = Upper(md, k)})

Within(n, zone) == Match(zone, n) = Len(zone)

----------------------------------------------------------------------------
(* Entries. *)

QTypes == {"MAILB", "MAILA", "ALL"}                \* QT_MIN..QT_MAX, wild cards

Blank(n, dflags) ==
  [qname |-> n, flags |-> dflags, ttl |-> 0, sets |-> [t \in {} |-> 0],
   c_ns |-> cundef, c_soa |-> cundef]

Has(cent, type) == type \in DOMAIN cent.sets
Negative(cent) == "NEGATIVE" \in cent.flags
HaveRr(cent, type) == Has(cent, type) /\ cent.sets[type].rrs # <<>>

\* A new set takes the ttl, an old one the smaller; a record counts once.
AddCentRr(cent, rr, flags) ==
  IF ~Has(cent, rr.type)
  THEN [cent EXCEPT !.sets = Over([t \in {rr.type} |-> [ttl |-> rr.ttl, flags |-> flags, rrs |-> <<rr.data>>]], @)]
  ELSE [cent EXCEPT !.sets[rr.type].ttl = Min({@, rr.ttl}),
                    !.sets[rr.type].rrs = IF Contains(@, rr.data) THEN @ ELSE Append(@, rr.data)]

AddNegativeSet(cent, type, ttl, flags) ==
  [cent EXCEPT !.sets = Over([t \in {type} |-> [ttl |-> ttl, flags |-> flags, rrs |-> <<>>]], @)]

NegateCent(cent, ttl) ==
  [cent EXCEPT !.flags = @ \union {"NEGATIVE"}, !.ttl = ttl, !.sets = [t \in {} |-> 0]]
=============================================================================
