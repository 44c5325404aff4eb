------------------------------ MODULE Resolve ------------------------------
(***************************************************************************)
(* How pdnsd resolves a name (dns_query.c): p_dns_cached_resolve() looks   *)
(* into the cache, p_dns_resolve() picks servers, p_recursive_query() asks *)
(* them in batches, and auth_ok() decides whether an answer will do. Where *)
(* it does not, the addresses of better name servers are resolved (a       *)
(* nested look-up) and these servers are asked (a referral). One thread    *)
(* does all this; its stack of calls is the variable stack, a frame for    *)
(* each p_dns_cached_resolve() or simple_dns_cached_resolve() with what    *)
(* these call in turn. Besides, root servers are discovered and servers    *)
(* are probed.                                                             *)
(***************************************************************************)
EXTENDS QueryCache

CONSTANTS
  Configurations,    \* <<server sections, query_method>>
  Questions,         \* <<name, type>>
  Caches,            \* what the cache may hold at the start
  ParQueries, MaxHops, Paranoid, LndownKluge,
  LocalAddrs,        \* addresses of this machine
  Repetitions,       \* query_uptest's rep
  MaxCalls           \* bound on calls from outside

\* MAX_HOPS (dns.h) bounds the calls within calls.
ASSUME HopsAssumption == MaxHops \in Nat

\* The configuration's parser accepts no less than one query at a time.
ASSUME ParQueriesAssumption == ParQueries \in Nat \ {0}
ASSUME SectionsAssumption ==
  \A c \in Configurations : IsList(c[1]) /\ \A i \in DOMAIN c[1] : IsList(c[1][i].addrs)
ASSUME QuestionsAssumption == \A qu \in Questions : IsList(qu[1])
ASSUME CachesAssumption == \A c \in Caches : \A n \in DOMAIN c : IsStored(c[n])

VARIABLES
  stack,             \* the calls in progress, the innermost last
  servers,          \* the server sections
  cache, up,         \* the cache; the addresses marked up
  method,            \* global.query_method
  due,               \* addresses handed to sched_server_test() for a later test
  results,           \* what the calls from outside returned
  probe              \* a test of a server in progress

vars == <<stack, servers, cache, up, method, due, results, probe>>

setup == <<servers, method>>

Top == stack[Len(stack)]
Put(f) == stack' = [stack EXCEPT ![Len(stack)] = f]
Open(qs) == {k \in DOMAIN qs : qs[k].open}
Busy(i) ==
  FoldFunction(+, 0, [d \in DOMAIN stack |-> Cardinality(Open(stack[d].q) \ (IF d = Len(stack) THEN {i} ELSE {}))])

----------------------------------------------------------------------------
(* Which servers are asked first. *)

UseServer(sp, name) ==
  LET fits(sl) == Within(name, sl.domain) /\ (sl.exact => name = sl.domain)
      rules == SelectSeq(sp.alist, fits)
  IN  IF rules # <<>> THEN Head(rules).included
      ELSE CASE sp.policy = "simple_only" -> Len(name) <= 1
             [] sp.policy = "fqdn_only" -> Len(name) > 1
             [] OTHER -> sp.policy = "included"

\* lookup_ns(): addresses of a domain's name servers that a root server has told, or <<>>.
ServerAddresses(c, d) ==
  LET s == Get(c, d[1].v)
  IN  IF s # Nothing /\ HaveRr(s, "A") /\ "OLD" \notin s.sets["A"].flags THEN Addresses(s) ELSE <<>>

LookupNs(c, domain) ==
  LET ent == Get(c, domain)
      ns == ent.sets["NS"]
  IN  IF /\ ent # Nothing /\ Has(ent, "NS") /\ "ROOTSERV" \in ns.flags /\ "OLD" \notin ns.flags
         /\ \A d \in ToSet(ns.rrs) : ServerAddresses(c, d) # <<>>
      THEN FoldLeft(LAMBDA l, d : AddNewOnes(l, ServerAddresses(c, d)), <<>>, ns.rrs) ELSE <<>>

\* The top-level domain of a name, or up to three levels of it in arpa; never the name itself.
TopDomains(name) ==
  LET m == IF Len(name) >= 2 /\ Within(name, <<"arpa">>) THEN 3 ELSE 1
  IN  [k \in 1..Max({0, Min({m, Len(name) - 1})}) |-> Upper(name, Min({m, Len(name) - 1}) - k + 1)]

Delegated(c, name) ==
  LET tops == TopDomains(name)
      known == {k \in DOMAIN tops : LookupNs(c, tops[k]) # <<>>}
  IN  IF known = {} THEN Nothing ELSE [name |-> tops[Min(known)]]

NOINHERIT == {"LOCAL", "AUTH", "ADDITIONAL", "ROOTSERV"}

Inherited(rl) == IF rl # Nothing /\ rl.inherit THEN rl ELSE Nothing

FlagVal(sp) ==
  (IF sp.purge_cache THEN {} ELSE {"NOPURGE"}) \union (IF sp.nocache THEN {"NOCACHE"} ELSE {})
  \union (IF sp.rootserver > 0 THEN {"ROOTSERV"} ELSE {})

Rotated(s, k) == IF s = <<>> THEN s
                 ELSE SubSeq(s, 1 + (k % Len(s)), Len(s)) \o SubSeq(s, 1, k % Len(s))

Direct(sp, addrs) ==
  [k \in DOMAIN addrs |->
     NewQuery(addrs[k], FlagVal(sp), sp.nocache, sp.lean, sp.edns,
              IF sp.rootserver > 0 THEN 3 ELSE IF sp.proxy THEN 0 ELSE 1,
              IF sp.testing THEN 1 ELSE 0, TRUE, Nothing, sp.rejectlist, method)]

\* The servers of a top-level domain instead of the root's.
Known(sp, top, addrs) ==
  [k \in DOMAIN addrs |->
     NewQuery(addrs[k], FlagVal(sp) \ NOINHERIT, sp.nocache, sp.lean, sp.edns, 2, 0, ~Paranoid, top,
              Inherited(sp.rejectlist), method)]

Instead(acc, sp, start, top, direct) ==
  IF acc.seen = 0 /\ top # Nothing
  THEN [serv |-> acc.serv \o Known(sp, top, Rotated(LookupNs(cache, top.name), start)), seen |-> 2]
  ELSE IF acc.seen = 2 THEN acc ELSE [serv |-> acc.serv \o direct, seen |-> 1]

\* The queries for one section, from a place in the list at random if it says so.
Section(acc, sp, start, name, live) ==
  CASE sp.rootserver > 1 \/ ~UseServer(sp, name) \/ live = <<>> -> acc
    [] sp.rootserver = 0 /\ UseServer(sp, name) /\ live # <<>> -> [acc EXCEPT !.serv = @ \o Direct(sp, live)]
    [] OTHER -> Instead(acc, sp, start, Delegated(cache, name), Direct(sp, live))

Live(sp, start) == Among(Rotated(sp.addrs, start), up)

ServersFor(name, starts) ==
  FoldLeft(LAMBDA acc, i : Section(acc, servers[i], starts[i], name, Live(servers[i], starts[i])),
           [serv |-> <<>>, seen |-> 0], [i \in DOMAIN servers |-> i]).serv

Starts == {s \in [DOMAIN servers -> 0..MAXNAMESERVIPS - 1] :
             \A i \in DOMAIN s : servers[i].random \/ s[i] = 0}

LinkDown ==
  \A i \in DOMAIN servers : servers[i].rootserver <= 1 => ToSet(servers[i].addrs) \intersect up = {}

----------------------------------------------------------------------------
(* Frames. kind: "top", "ns" (the address of a name server), "auth" (a       *)
(* referral), "simple", "roots" (the discovery of root servers). at: the    *)
(* place; i: the query that a loop is at; j: the first of the batch.        *)

NewFrame(kind, name, type, q, hops, hints) ==
  [kind |-> kind, at |-> "lookup", name |-> name, type |-> type, q |-> q, hops |-> hops,
   hints |-> hints, cached |-> Nothing, flags |-> {}, j |-> 1, i |-> 1, rv |-> "SERVFAIL",
   ready |-> {}, fired |-> FALSE, ans |-> Nothing, ctx |-> "send", todo |-> <<>>, serv |-> <<>>,
   saved |-> Nothing, fallback |-> Nothing, res |-> Nothing, fails |-> 0]

Mc(f) == Min({f.j + ParQueries - 1, Len(f.q)})
Pending(f) == {k \in 1..Mc(f) : ~IsDone(f.q[k])}
Question(f) == [name |-> f.name, type |-> f.type]

\* The arrays of servers in use for this name: the chain of referrals to the last frame.
Chain(frames) == {d \in DOMAIN frames : \A e \in d + 1..Len(frames) : frames[e].kind = "auth"}
AlreadyQueried(frames, a) == \E d \in Chain(frames) : \E k \in DOMAIN frames[d].q :
                               frames[d].q[k].addr = a /\ IsDone(frames[d].q[k])

Result(rc, ent, soa) == [rc |-> rc, ent |-> ent, soa |-> soa]
Returning(f, rc, ent, soa) == [f EXCEPT !.at = "return", !.res = Result(rc, ent, soa)]

NextBatch(f) ==
  IF f.j + ParQueries > Len(f.q) THEN [f EXCEPT !.at = "finish"]
  ELSE [f EXCEPT !.at = "send", !.j = @ + ParQueries, !.i = f.j + ParQueries, !.ctx = "send"]

EndRound(f) == IF Pending(f) = {} THEN NextBatch(f) ELSE [f EXCEPT !.at = "poll"]

\* The loop goes on to the next query.
Continue(f) ==
  CASE f.ctx = "send" -> IF f.i < Mc(f) THEN [f EXCEPT !.at = "send", !.i = @ + 1] ELSE EndRound(f)
    [] f.ctx = "events" ->
         LET left == {k \in f.ready : k > f.i}
         IN  IF left # {} THEN [f EXCEPT !.at = "events", !.i = Min(left)] ELSE EndRound(f)
    [] f.ctx = "timeouts" -> [f EXCEPT !.at = "timeouts", !.i = @ + 1]

\* "done": a saved answer is dropped.
Done(f, rv, ent) == [f EXCEPT !.at = "finish", !.rv = rv, !.saved = Nothing, !.ans = ent]

----------------------------------------------------------------------------
(* p_dns_cached_resolve(): the cache first, then the servers.               *)

Idle == stack = <<>> /\ probe = Nothing /\ Len(results) < MaxCalls
Unchanged(f) == Put(f) /\ UNCHANGED <<setup, cache, up, due, results, probe>>

\* dns_cached_resolve(), called for a client's question.
Ask ==
  /\ Idle
  /\ \E qu \in Questions : stack' = <<NewFrame("top", qu[1], qu[2], <<>>, MaxHops, {})>>
  /\ UNCHANGED <<setup, cache, up, due, results, probe>>

StartQueries(f, serv) == [f EXCEPT !.q = serv, !.at = "send", !.i = 1, !.j = 1]

AskServers(f, serv) ==
  Unchanged(IF serv = <<>> THEN [f EXCEPT !.at = "result", !.rv = "SERVFAIL"] ELSE StartQueries(f, serv))

LookedUp(f, s) ==
  LET g == [f EXCEPT !.cached = s.ent, !.flags = s.flags]
      down == f.kind # "simple" /\ LndownKluge /\ "LOCAL" \notin s.flags /\ LinkDown
  IN  CASE s.rc = "OK" ->
             Unchanged(Returning(f, IF f.kind = "simple" THEN "OK" ELSE "CACHED", s.ent, cundef))
        [] s.rc = "NAMEERR" -> Unchanged(Returning(f, "NAMEERR", Nothing, s.soa))
        [] s.rc \notin {"OK", "NAMEERR"} /\ down -> Unchanged(Returning(f, "SERVFAIL", Nothing, cundef))
        [] s.rc = "CACHED" /\ ~down -> Unchanged(Returning(f, "CACHED", s.ent, cundef))
        [] s.rc \in {"STALE", "NOTCACHED"} /\ ~down /\ f.q # <<>> -> AskServers(g, f.q)
        [] OTHER -> \E starts \in Starts : AskServers(g, ServersFor(f.name, starts))

Lookup ==
  /\ stack # <<>> /\ Top.at = "lookup"
  /\ LookedUp(Top, LookupCacheStatus(cache, Top.name, Top.type))

----------------------------------------------------------------------------
(* p_recursive_query(): the batches. *)

\* What a call of p_exec_query() leaves, and what is made of its result.
Executed(f, i, r) ==
  LET g == [f EXCEPT !.q[i] = r.st, !.rv = r.rv, !.fired = @ \/ f.ctx = "timeouts"]
  IN  /\ Put(CASE r.rv = "OK" -> [g EXCEPT !.at = "judge", !.ans = [ent |-> r.ent, ns |-> r.ns]]
               [] r.rv \in {"NAMEERR", "FATALERR"} -> Done(g, r.rv, [ent |-> r.ent, by |-> i])
               [] r.rv = "RETRY" -> [g EXCEPT !.at = "again"]
               [] OTHER -> Continue(g))
      /\ cache' = AddAll(cache, r.adds)
      /\ up' = CASE r.news = "up" -> up \union {r.st.addr} [] r.news = "down" -> up \ {r.st.addr}
                 [] OTHER -> up
      /\ UNCHANGED <<setup, due, results, probe>>

\* p_exec_query() for the query that a loop is at.
ExecQuery ==
  /\ stack # <<>> /\ Top.at \in {"send", "events", "again"}
  /\ \E r \in Exec(Top.q[Top.i], Question(Top), Busy(Top.i)) : Executed(Top, Top.i, r)

\* A socket is ready, or has an error.
PollReports ==
  /\ stack # <<>> /\ Top.at = "poll"
  /\ \E ready \in (SUBSET Pending(Top)) \ {{}} :
       Unchanged([Top EXCEPT !.at = "events", !.ctx = "events", !.ready = ready, !.i = Min(ready),
                             !.rv = "SERVFAIL"])

PollTimesOut ==
  /\ stack # <<>> /\ Top.at = "poll" /\ Pending(Top) # {}
  /\ Unchanged([Top EXCEPT !.at = "timeouts", !.ctx = "timeouts", !.i = Top.j, !.fired = FALSE,
                           !.rv = "SERVFAIL"])

PollFails ==
  /\ stack # <<>> /\ Top.at = "poll" /\ Pending(Top) # {} /\ "poll" \in Faults
  /\ Unchanged(Done(Top, "SERVFAIL", Nothing))

NothingPending ==
  /\ stack # <<>> /\ Top.at = "poll" /\ Pending(Top) = {}
  /\ Unchanged(NextBatch([Top EXCEPT !.rv = "SERVFAIL"]))

\* A server of this batch that has not answered; a TCP connection that is not up gives way to UDP.
TimeOut ==
  /\ stack # <<>> /\ Top.at = "timeouts" /\ Top.i <= Mc(Top)
  /\ LET f == [Top EXCEPT !.q[Top.i].testing = IF @ > 0 /\ ~IsDone(Top.q[Top.i]) THEN 2 ELSE @]
         st == f.q[f.i]
     IN  Unchanged(IF TentativeTcp(st) THEN [f EXCEPT !.q[f.i] = SwitchToUdp(st), !.at = "again"]
                   ELSE Continue(f))

\* The last batch waits again for UDP while the global timeout allows it.
\* Variant: the last batch is waited for again though nothing was sent.
EndTimeOutsAgain ==
  /\ stack # <<>> /\ Top.at = "timeouts" /\ Top.i > Mc(Top)
  /\ Unchanged(IF Mc(Top) = Len(Top.q) THEN [Top EXCEPT !.at = "poll"] ELSE NextBatch(Top))

EndTimeOuts ==
  /\ stack # <<>> /\ Top.at = "timeouts" /\ Top.i > Mc(Top)
  /\ \/ /\ Top.fired /\ Mc(Top) = Len(Top.q)
        /\ Unchanged([Top EXCEPT !.at = "poll"])
     \/ Unchanged(NextBatch(Top))

----------------------------------------------------------------------------
(* auth_ok(): will the answer do? *)

AuthNeeded(f, ent) ==
  f.type \in QTypes \/ ~((HaveRr(ent, f.type) \/ HaveRr(ent, "CNAME")) /\ ~Negative(ent))

\* Every domain whose name servers it names has more of the name than the server's own.
Delegates(qs, ns, name) ==
  \A k \in DOMAIN ns : LET d == ns[k][1] IN d # qs.nsdomain.name /\ Within(d, qs.nsdomain.name) /\ Within(name, d)

BelievedAuthority(qs, ns, name) ==
  qs.aa /\ (qs.nsdomain = Nothing \/ ns = <<>> \/ ~Delegates(qs, ns, name))

\* The name servers to look up; local NS records override.
HasLocalServers(e) == e # Nothing /\ Has(e, "NS") /\ "LOCAL" \in e.sets["NS"].flags
LocalServers(d, e) == [k \in DOMAIN e.sets["NS"].rrs |-> <<d, e.sets["NS"].rrs[k][1].v>>]

AddNameServer(l, ns, k, name) ==
  LET d == ns[k][1]
      e == Get(cache, d)
  IN  CASE Paranoid /\ ~Within(name, d) -> l
        [] ~(Paranoid /\ ~Within(name, d)) /\ ~HasLocalServers(e) -> Append(l, ns[k])
        [] OTHER -> IF k > 1 /\ ns[k - 1][1] = d THEN l ELSE l \o LocalServers(d, e)

NameServersFor(ns, name) ==
  FoldLeft(LAMBDA l, k : AddNameServer(l, ns, k, name), <<>>, [k \in DOMAIN ns |-> k])

GOODQUAL == 14
Quality(qs, authok) == authok * 8 + (3 - qs.failed) * 2 + (IF qs.tc THEN 0 ELSE 1)

\* save_query_result(): the best so far.
Save(f, authok) ==
  LET qual == Quality(f.q[f.i], authok)
  IN  IF f.saved = Nothing \/ qual > f.saved.qual
      THEN [f EXCEPT !.saved = [ent |-> f.ans.ent, serv |-> f.serv, qual |-> qual, by |-> f.i]]
      ELSE f

Judged(f, authok) ==
  LET qs == f.q[f.i]
      again == f.ctx # "timeouts" /\ qs.qm = "UDP_TCP" /\ qs.tc
      g == Save(f, authok)
  IN  CASE authok = 1 /\ qs.failed = 0 /\ ~again ->
             Done(f, "OK", [ent |-> f.ans.ent, by |-> f.i])
        [] again -> [g EXCEPT !.q[f.i] = SwitchToTcp(qs), !.serv = <<>>, !.at = f.ctx]
        [] OTHER -> Continue([g EXCEPT !.serv = <<>>])

JudgeAnswer ==
  /\ stack # <<>> /\ Top.at = "judge"
  /\ LET qs == Top.q[Top.i]
         ent == Top.ans.ent
     IN  Unchanged(
           CASE qs.failed > 1 -> Judged(Top, 0)
             [] /\ qs.failed <= 1
                /\ \/ qs.auth_serv = 0 \/ Negative(ent) \/ ~AuthNeeded(Top, ent)
                   \/ BelievedAuthority(qs, Top.ans.ns, Top.name) -> Judged(Top, 1)
             [] OTHER -> IF Top.hops > 0
                         THEN [Top EXCEPT !.at = "names", !.todo = NameServersFor(Top.ans.ns, Top.name)]
                         ELSE Judged(Top, 0))

\* An address that is being asked for further up is not asked for again.
\* Variant: only what is looked up further up counts.
CircularAbove(f, nsname) == <<nsname, "A">> \in f.hints

Circular(f, nsname) == <<nsname, "A">> \in f.hints \union {<<f.name, f.type>>}

LookupNameServer ==
  /\ stack # <<>> /\ Top.at = "names" /\ Top.todo # <<>>
  /\ LET f == Top
         nsname == Head(f.todo)[2]
     IN  IF Circular(f, nsname) THEN Unchanged([f EXCEPT !.todo = Tail(@)])
         ELSE /\ stack' = Append(stack, NewFrame("ns", nsname, "A", <<>>, f.hops - 1,
                                                 f.hints \union {<<f.name, f.type>>}))
              /\ UNCHANGED <<setup, cache, up, due, results, probe>>

NameServersDone ==
  /\ stack # <<>> /\ Top.at = "names" /\ Top.todo = <<>>
  /\ Unchanged(Judged(Top, IF Top.serv = <<>> THEN 0 ELSE 1))

\* The servers that a look-up has found, in the frame that wanted them.
WithServers(frames, addrs) ==
  LET f == frames[Len(frames)]
      qs == f.q[f.i]
      new == Among(addrs, {a \in ToSet(addrs) : /\ a \notin LocalAddrs
                                                /\ \A k \in DOMAIN f.serv : f.serv[k].addr # a
                                                /\ ~AlreadyQueried(frames, a)})
      query(a) == NewQuery(a, qs.flags \ NOINHERIT, FALSE, qs.lean, qs.edns, 2, 0, ~Paranoid,
                           [name |-> Head(f.todo)[1]], Inherited(qs.rejectlist), method)
  IN  [f EXCEPT !.todo = Tail(@), !.serv = @ \o [k \in DOMAIN new |-> query(new[k])]]

----------------------------------------------------------------------------
(* The end of p_recursive_query(). *)

NotToBeKept(s) == [s EXCEPT !.flags = @ \union {"NOCACHE"}]
Flagged(ent) ==
  IF Negative(ent) THEN NotToBeKept(ent)
  ELSE [ent EXCEPT !.sets = [t \in DOMAIN ent.sets |-> NotToBeKept(ent.sets[t])]]

\* What is still under way is cancelled; the answer is the one found or the best saved.
Finish ==
  /\ stack # <<>> /\ Top.at = "finish"
  /\ LET f == [Top EXCEPT !.q = [k \in DOMAIN @ |-> Cancel(@[k])]]
         best == f.saved
         poor == best # Nothing /\ best.qual < GOODQUAL
         ent == IF best = Nothing THEN f.ans.ent ELSE IF poor THEN Flagged(best.ent) ELSE best.ent
         serv == IF best = Nothing THEN f.serv ELSE best.serv
         by == IF best = Nothing THEN f.ans.by ELSE best.by
         qs == f.q[by]
         g == [f EXCEPT !.ans = [ent |-> ent, by |-> by]]
     IN  /\ due' = due \union {f.q[k].addr : k \in {l \in DOMAIN f.q : f.q[l].testing > 1}}
         /\ UNCHANGED <<setup, cache, up, results, probe>>
         /\ CASE best = Nothing /\ f.rv # "OK" ->
                   Put([f EXCEPT !.at = "result", !.rv = IF @ = "FATALERR" THEN "SERVFAIL" ELSE @,
                                 !.ans = [soa |-> IF f.rv = "NAMEERR" THEN f.ans.ent.c_soa ELSE cundef]])
              [] (best # Nothing \/ f.rv = "OK") /\ serv = <<>> ->
                   Put([g EXCEPT !.at = "result", !.rv = "OK"])
              [] OTHER ->
                   stack' = Append([stack EXCEPT ![Len(stack)] =
                                      [g EXCEPT !.at = "referral", !.serv = serv,
                                                !.fallback = qs.aa \/ qs.ra]],
                                   NewFrame("auth", f.name, f.type, serv, f.hops - 1, f.hints))

\* The answer to a referral takes the references of the answer that referred.
WithCutsOf(ent, old) ==
  [ent EXCEPT !.c_ns = Greater(@, old.c_ns), !.c_soa = Greater(@, old.c_soa)]

AfterReferral(f, res) ==
  LET old == f.ans.ent
  IN  CASE res.rc \in {"OK", "CACHED"} \/ (res.rc = "STALE" /\ ~f.fallback) ->
             [f EXCEPT !.at = "result", !.rv = res.rc, !.ans.ent = WithCutsOf(res.ent, old)]
        [] res.rc = "NAMEERR" ->
             [f EXCEPT !.at = "result", !.rv = res.rc, !.ans = [soa |-> Greater(res.soa, old.c_soa)]]
        [] res.rc \notin {"OK", "CACHED", "NAMEERR"} /\ f.fallback -> [f EXCEPT !.at = "result", !.rv = "OK"]
        [] OTHER -> [f EXCEPT !.at = "result", !.rv = res.rc, !.ans = [soa |-> cundef]]

----------------------------------------------------------------------------
(* The end of p_dns_resolve() and of p_dns_cached_resolve(). *)

Resolved(f) == f.rv \in {"OK", "CACHED", "STALE"}

\* Stored and looked up again, for what the cache knows besides; another thread may have purged it.
StoreResult ==
  /\ stack # <<>> /\ Top.at = "result"
  /\ LET f == Top
         stores == f.rv = "OK" /\ f.kind # "auth" /\ ~f.q[f.ans.by].nocache
         c == IF stores THEN AddCache(cache, f.ans.ent) ELSE cache
         merged == IF stores THEN {Get(c, f.name)} \ {Nothing} ELSE {}
         ents == IF merged = {} \/ "purge" \in Faults THEN merged \union {f.ans.ent} ELSE merged
     IN  /\ cache' = c
         /\ UNCHANGED <<setup, up, due, results, probe>>
         /\ CASE Resolved(f) -> \E ent \in ents : Put(Returning(f, f.rv, ent, cundef))
              [] f.rv = "SERVFAIL" /\ f.kind # "simple" /\ f.cached # Nothing /\ "NOPURGE" \in f.flags ->
                   Put(Returning(f, "STALE", f.cached, cundef))
              [] OTHER -> Put(Returning(f, f.rv, Nothing,
                                        IF f.rv = "NAMEERR" THEN f.ans.soa ELSE cundef))

\* r_dns_cached_resolve() and simple_dns_cached_resolve() turn a negative entry into an error.
Wrapped(res) ==
  CASE res.rc \in {"OK", "CACHED", "STALE"} /\ Negative(res.ent) -> Result("NAMEERR", Nothing, res.ent.c_soa)
    [] res.rc \in {"OK", "CACHED", "STALE"} /\ ~Negative(res.ent) -> Result("OK", res.ent, cundef)
    [] OTHER -> res

----------------------------------------------------------------------------
(* dns_rootserver_resolv(): the root's name servers and their addresses,    *)
(* asked of a section's servers. at: "root domain", then "root names"; serv *)
(* holds the addresses found.                                               *)

Simple(sp, name, type) ==
  NewFrame("simple", name, type,
           [k \in DOMAIN sp.addrs |-> NewQuery(sp.addrs[k], {}, FALSE, TRUE, sp.edns, 0, 0, TRUE,
                                               Nothing, Nothing, method)],
           0, {})

Discover ==
  /\ Idle
  /\ \E i \in DOMAIN servers :
       /\ servers[i].rootserver > 1
       /\ stack' = <<[NewFrame("roots", <<>>, "NS", <<>>, 0, {}) EXCEPT !.at = "root domain", !.j = i],
                     Simple(servers[i], <<>>, "NS")>>
  /\ UNCHANGED <<setup, cache, up, due, results, probe>>

WithRootNames(f, res) ==
  [f EXCEPT !.at = "root names",
            !.todo = IF res.rc = "OK" /\ HaveRr(res.ent, "NS") THEN res.ent.sets["NS"].rrs ELSE <<>>]

LookupRootServer ==
  /\ stack # <<>> /\ Top.at = "root names" /\ Top.todo # <<>>
  /\ stack' = Append(stack, Simple(servers[Top.j], Head(Top.todo)[1].v, "A"))
  /\ UNCHANGED <<setup, cache, up, due, results, probe>>

WithRootAddresses(f, res) ==
  LET found == IF res.rc = "OK" THEN Addresses(res.ent) ELSE <<>>
  IN  [f EXCEPT !.todo = Tail(@), !.serv = AddNewOnes(@, found),
                !.fails = IF found = <<>> THEN @ + 1 ELSE @]

\* Too many failures: the addresses are rejected. Memory may run out as they are gathered.
Discovered ==
  /\ stack # <<>> /\ Top.at = "root names" /\ Top.todo = <<>>
  /\ results' = Append(results, [call |-> "roots",
                                 found |-> IF Top.fails > Len(Top.serv) THEN <<>> ELSE Top.serv])
  /\ stack' = <<>>
  /\ UNCHANGED <<setup, cache, up, due, probe>>

----------------------------------------------------------------------------
(* A call returns to its caller. *)

Return ==
  /\ stack # <<>> /\ Top.at = "return" /\ Top.kind # "top"
  /\ LET frames == Front(stack)
         f == Last(frames)
         res == Top.res
         to(g) == stack' = [frames EXCEPT ![Len(frames)] = g]
     IN  CASE Top.kind = "ns" ->
                to(WithServers(frames, IF Wrapped(res).rc = "OK" THEN Addresses(res.ent) ELSE <<>>))
           [] Top.kind = "auth" -> to(AfterReferral(f, res))
           [] Top.kind = "simple" /\ f.at = "root domain" -> to(WithRootNames(f, Wrapped(res)))
           [] Top.kind = "simple" /\ f.at = "root names" -> to(WithRootAddresses(f, Wrapped(res)))
  /\ UNCHANGED <<setup, cache, up, due, results, probe>>

\* r_dns_cached_resolve() to the client.
Answer ==
  /\ stack # <<>> /\ Top.at = "return" /\ Top.kind = "top"
  /\ results' = Append(results, [call |-> "name", rc |-> Wrapped(Top.res).rc])
  /\ stack' = <<>>
  /\ UNCHANGED <<setup, cache, up, due, probe>>

----------------------------------------------------------------------------
(* query_uptest(): an empty query to one server, repeated when nothing      *)
(* comes. rounds: how often it has been sent.                               *)

FirstTest(addr) == NewQuery(addr, {}, FALSE, TRUE, FALSE, 0, 0, TRUE, Nothing, Nothing, method)
AnotherTest(st) == [Cancel(st) EXCEPT !.state = "INITIAL", !.qm = method, !.errno = "none"]

StartTest ==
  /\ Idle
  /\ \E i \in DOMAIN servers : \E a \in ToSet(servers[i].addrs) :
       servers[i].testing /\ probe' = [rounds |-> 1, st |-> FirstTest(a)]
  /\ UNCHANGED <<setup, stack, cache, up, due, results>>

TestEnds(st, rc) ==
  /\ probe' = Nothing
  /\ results' = Append(results, [call |-> "test", rc |-> rc, left |-> st.open \/ st.asked])
  /\ UNCHANGED <<setup, stack, cache, up, due>>

\* The query is sent, or its socket is ready.
TestGoes ==
  /\ probe # Nothing
  /\ \E r \in Exec(probe.st, Nothing, 0) :
       IF r.rv = "AGAIN"
       THEN probe' = [probe EXCEPT !.st = r.st] /\ UNCHANGED <<setup, stack, cache, up, due, results>>
       ELSE TestEnds(r.st, IF r.rv \in {"SERVFAIL", "FATALERR"} THEN "down" ELSE "up")

TestTimesOut ==
  /\ probe # Nothing /\ probe.st.state # "INITIAL"
  /\ IF probe.rounds < Repetitions
     THEN /\ probe' = [rounds |-> probe.rounds + 1, st |-> AnotherTest(probe.st)]
          /\ UNCHANGED <<setup, stack, cache, up, due, results>>
     ELSE TestEnds(Cancel(probe.st), "down")

\* The server status thread is interrupted, or poll() fails.
TestInterrupted ==
  /\ probe # Nothing /\ probe.st.state # "INITIAL"
  /\ TestEnds(Cancel(probe.st), "down")

----------------------------------------------------------------------------
Init ==
  /\ stack = <<>> /\ results = <<>> /\ due = {} /\ probe = Nothing
  /\ \E c \in Configurations : servers = c[1] /\ method = c[2]
  /\ cache \in Caches
  /\ up = UNION {ToSet(servers[i].addrs) : i \in DOMAIN servers}

\* What the thread does by itself, and where it waits for others.
Step ==
  \/ Lookup \/ ExecQuery \/ NothingPending
  \/ TimeOut \/ EndTimeOuts \/ JudgeAnswer \/ LookupNameServer \/ NameServersDone
  \/ Finish \/ StoreResult \/ Return \/ Answer \/ LookupRootServer \/ Discovered

Next ==
  \/ Ask \/ Discover \/ StartTest \/ Step
  \/ PollReports \/ PollTimesOut \/ PollFails
  \/ TestGoes \/ TestTimesOut \/ TestInterrupted

\* ENABLED <<Step>>_vars, spelled out
Going == stack # <<>> /\ ~(Top.at = "poll" /\ Pending(Top) # {})

(***************************************************************************)
(* The thread goes on (weak fairness of Step), and poll() times out in the *)
(* end: no server sends for ever without answering.                        *)
(***************************************************************************)
Fairness ==
  /\ []<>~Going \/ []<><<Step>>_vars
  /\ SF_vars(PollTimesOut) /\ SF_vars(TestTimesOut)
  /\ []<>(probe = Nothing \/ probe.st.state # "INITIAL")

Spec == Init /\ [][Next]_vars /\ Fairness

----------------------------------------------------------------------------
(* Properties. *)

\* A query has its message and its socket while it waits for the server, and only then;
\* when its look-up is over, however that ended, no query waits.
NothingLeaks ==
  /\ \A d \in DOMAIN stack : \A k \in DOMAIN stack[d].q :
       LET st == stack[d].q[k]
       IN  /\ stack[d].at # "again" \/ k # stack[d].i =>
                (st.open <=> st.state \in Waiting) /\ (st.asked <=> st.state \in Waiting)
           /\ stack[d].at \in {"result", "referral", "return"} => ~st.open
  /\ \A k \in DOMAIN results : results[k].call = "test" => ~results[k].left

\* While an address is being looked up nobody, however deep, looks it up again, and every
\* further call has fewer hops left.
NotCircular ==
  \A e \in DOMAIN stack : \A d \in 1..e - 1 :
    /\ stack[e].kind = "ns" => Question(stack[e]) # Question(stack[d])
    /\ stack[e].kind # "simple" => stack[e].hops < stack[d].hops

\* With "paranoid", what a server that others referred to says of names outside the domain
\* it is responsible for never reaches the cache.
NothingForeign ==
  [][\A n \in DOMAIN cache' : cache'[n] # Get(cache, n) =>
       LET st == Top.q[IF Top.at = "result" THEN Top.ans.by ELSE Top.i]
       IN  Paranoid /\ st.auth_serv = 2 => Within(n, st.nsdomain.name)]_vars

\* Every question gets its answer, every test its result.
Terminates == stack # <<>> \/ probe # Nothing ~> stack = <<>> /\ probe = Nothing
=============================================================================
