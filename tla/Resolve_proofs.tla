--------------------------- MODULE Resolve_proofs ---------------------------
(***************************************************************************)
(* However deep the look-ups of name servers' addresses nest, none is for  *)
(* a question that waits further up, and each has fewer hops left          *)
(* (NoCircles). No query leaks its message or its socket                   *)
(* (QueriesNeverLeak), and with "paranoid" nothing reaches the cache from  *)
(* a server that may not speak for it (ForeignersAreNotHeard). The last    *)
(* two need to know what shape every entry, reply, query and call has:     *)
(* lists, entries, replies, the cache, one query, the servers to ask, a    *)
(* call and the stack follow in this order, then the inductive invariant   *)
(* IInv and its steps.                                                     *)
(***************************************************************************)
EXTENDS Resolve, SequenceTheorems, FiniteSetTheorems, TLAPS

Fields == {"kind", "at", "name", "type", "q", "hops", "hints", "cached", "flags", "j", "i", "rv",
           "ready", "fired", "ans", "ctx", "todo", "serv", "saved", "fallback", "res", "fails"}

RootPlaces == {"root domain", "root names"}
Contexts == {"send", "events", "timeouts"}
IsCall(f) == DOMAIN f = Fields /\ f.ctx \in Contexts

\* g is f a step later: the same question, with the same hints and hops.
Same(g, f) ==
  /\ IsCall(g)
  /\ g.kind = f.kind /\ g.name = f.name /\ g.type = f.type /\ g.hops = f.hops /\ g.hints = f.hints
  /\ g.at \in RootPlaces <=> f.at \in RootPlaces

\* What a call and those that it makes must not look up again.
Seen(f) == f.hints \union {<<f.name, f.type>>}

IsSequence(s) == \E S : s \in Seq(S)

\* Where in the stack a call of some kind may be, and what is known of it.
Placed(s, d) ==
  /\ IsCall(s[d]) /\ s[d].hops \in Int
  /\ d = 1 => s[d].kind \in {"top", "roots"}
  /\ d # 1 => s[d].kind \in {"ns", "auth", "simple"}
  /\ s[d].at \in RootPlaces <=> s[d].kind = "roots"
  /\ s[d].kind = "simple" => d = 2 /\ s[1].kind = "roots" /\ s[d].hops = 0
  /\ d = 2 /\ s[1].kind = "roots" => s[d].kind = "simple"
  /\ s[d].kind = "roots" => s[d].hops = 0 /\ s[d].type = "NS"
  /\ s[d].kind = "ns" => s[d].type = "A"

\* The call at e is made, perhaps through others, by the one at d.
Nests(s, d, e) ==
  /\ s[e].kind # "simple" => s[e].hops < s[d].hops
  /\ s[d].kind # "roots" => Seen(s[d]) \subseteq Seen(s[e])
  /\ s[e].kind = "ns" => Question(s[e]) # Question(s[d])

Nested(s) ==
  /\ IsSequence(s)
  /\ \A d \in 1..Len(s) : Placed(s, d)
  /\ \A e \in 1..Len(s) : \A d \in 1..e - 1 : Nests(s, d, e)

-----------------------------------------------------------------------------
(* Stacks. *)

LEMMA Pushed ==
  ASSUME NEW s, IsSequence(s), NEW g
  PROVE  /\ IsSequence(Append(s, g)) /\ Len(Append(s, g)) = Len(s) + 1 /\ Len(s) \in Nat
         /\ \A d \in 1..Len(s) : Append(s, g)[d] = s[d]
         /\ Append(s, g)[Len(s) + 1] = g
<1>1. PICK S : s \in Seq(S)
  BY DEF IsSequence
<1>2. s \in Seq(S \union {g}) /\ Append(s, g) \in Seq(S \union {g})
  BY <1>1
<1>. QED BY <1>2 DEF IsSequence

LEMMA TopReplaced ==
  ASSUME NEW s, IsSequence(s), s # <<>>, NEW g
  PROVE  LET t == [s EXCEPT ![Len(s)] = g]
         IN  /\ IsSequence(t) /\ Len(t) = Len(s) /\ Len(s) \in Nat \ {0}
             /\ \A d \in 1..Len(s) - 1 : t[d] = s[d]
             /\ t[Len(s)] = g
<1>1. PICK S : s \in Seq(S)
  BY DEF IsSequence
<1>2. Len(s) \in Nat \ {0} /\ DOMAIN s = 1..Len(s)
  BY <1>1
<1>3. s \in Seq(S \union {g})
  BY <1>1
<1>4. [s EXCEPT ![Len(s)] = g] \in Seq(S \union {g}) /\ Len([s EXCEPT ![Len(s)] = g]) = Len(s)
  BY <1>2, <1>3
<1>5. [s EXCEPT ![Len(s)] = g][Len(s)] = g /\ \A d \in 1..Len(s) - 1 : [s EXCEPT ![Len(s)] = g][d] = s[d]
  BY <1>2
<1>. QED BY <1>2, <1>4, <1>5 DEF IsSequence

LEMMA Popped ==
  ASSUME NEW s, IsSequence(s), Len(s) > 0
  PROVE  /\ IsSequence(Front(s)) /\ Len(Front(s)) = Len(s) - 1 /\ Len(s) \in Nat
         /\ \A d \in 1..Len(s) - 1 : Front(s)[d] = s[d]
<1>1. PICK S : s \in Seq(S)
  BY DEF IsSequence
<1>2. Len(s) \in Nat /\ s # <<>>
  BY <1>1
<1>. DEFINE n == Len(s) - 1  t == SubSeq(s, 1, n)
<1>3. n \in Nat /\ \A d \in 1..n : s[d] \in S
  BY <1>1, <1>2
<1>. HIDE DEF n
<1>4. t \in Seq(S) /\ Len(t) = n
  BY <1>3, SubSeqProperties
<1>5. \A d \in 1..n : t[d] = s[d]
  BY <1>3, SubSeqProperties
<1>. QED BY <1>2, <1>4, <1>5 DEF IsSequence, Front, n

\* The innermost call goes on.
LEMMA GoesOn ==
  ASSUME NEW s, Nested(s), s # <<>>, NEW g, Same(g, s[Len(s)])
  PROVE  Nested([s EXCEPT ![Len(s)] = g])
<1>. DEFINE n == Len(s)  t == [s EXCEPT ![n] = g]
<1>1. IsSequence(t) /\ Len(t) = n /\ n \in Nat \ {0} /\ (\A d \in 1..n - 1 : t[d] = s[d]) /\ t[n] = g
  BY TopReplaced DEF Nested
<1>. HIDE DEF t
<1>2. \A d \in 1..n : IsCall(t[d]) /\ t[d].kind = s[d].kind /\ t[d].name = s[d].name /\ t[d].type = s[d].type
                      /\ t[d].hops = s[d].hops /\ t[d].hints = s[d].hints
                      /\ (t[d].at \in RootPlaces <=> s[d].at \in RootPlaces)
  <2>1. TAKE d \in 1..n
  <2>2. CASE d = n
    BY <2>2, <1>1 DEF Same
  <2>3. CASE d # n
    BY <2>3, <1>1 DEF Nested, Placed
  <2>. QED BY <2>2, <2>3
<1>3. \A d \in 1..n : Placed(t, d)
  BY <1>1, <1>2 DEF Nested, Placed
<1>4. \A d \in 1..n : Seen(t[d]) = Seen(s[d]) /\ Question(t[d]) = Question(s[d])
  BY <1>2 DEF Seen, Question
<1>5. ASSUME NEW e \in 1..n, NEW d \in 1..e - 1 PROVE Nests(t, d, e)
  <2>1. d \in 1..n
    BY <1>1
  <2>2. Nests(s, d, e)
    BY <1>1 DEF Nested
  <2>. QED BY <2>1, <2>2, <1>2, <1>4 DEF Nests
<1>. QED BY <1>1, <1>3, <1>5 DEF Nested, t

\* It makes a call.
LEMMA Calls ==
  ASSUME NEW s, Nested(s), s # <<>>, s[Len(s)].at \notin RootPlaces,
         NEW g, IsCall(g), g.kind \in {"ns", "auth"}, g.at \notin RootPlaces,
         g.hops = s[Len(s)].hops - 1, Seen(s[Len(s)]) \subseteq Seen(g),
         g.kind = "ns" => g.type = "A" /\ <<g.name, g.type>> \notin Seen(s[Len(s)])
  PROVE  Nested(Append(s, g))
<1>. DEFINE n == Len(s)  t == Append(s, g)
<1>0. n \in Nat \ {0}
  BY DEF Nested, IsSequence
<1>1. IsSequence(t) /\ Len(t) = n + 1 /\ n \in Nat \ {0} /\ (\A d \in 1..n : t[d] = s[d]) /\ t[n + 1] = g
  BY <1>0, Pushed DEF Nested
<1>. HIDE DEF t
<1>2. \A d \in 1..n : Placed(s, d)
  BY DEF Nested
<1>3. \A d \in 1..n : Placed(t, d)
  BY <1>1, <1>2 DEF Placed
<1>4. Placed(t, n + 1)
  BY <1>1, <1>2 DEF Placed
<1>5. ASSUME NEW e \in 1..n, NEW d \in 1..e - 1 PROVE Nests(t, d, e)
  <2>1. d \in 1..n /\ Nests(s, d, e)
    BY <1>1 DEF Nested
  <2>. QED BY <2>1, <1>1 DEF Nests
<1>6. ASSUME NEW d \in 1..n PROVE Nests(t, d, n + 1)
  <2>1. g.hops < s[d].hops
    <3>1. CASE d = n
      BY <3>1, <1>1, <1>2 DEF Placed
    <3>2. CASE d # n
      <4>1. Nests(s, d, n) /\ d \in 1..n - 1
        BY <3>2, <1>1 DEF Nested
      <4>2. CASE s[n].kind # "simple"
        BY <4>1, <4>2, <1>1, <1>2 DEF Nests, Placed
      <4>3. CASE s[n].kind = "simple"
        BY <4>1, <4>3, <1>1, <1>2 DEF Placed
      <4>. QED BY <4>2, <4>3
    <3>. QED BY <3>1, <3>2
  <2>2. s[d].kind # "roots" => Seen(s[d]) \subseteq Seen(s[n])
    <3>1. CASE d = n
      BY <3>1
    <3>2. CASE d # n
      <4>1. d \in 1..n - 1 /\ n \in 1..n
        BY <3>2, <1>1
      <4>. QED BY <4>1 DEF Nested, Nests
    <3>. QED BY <3>1, <3>2
  <2>3. g.kind = "ns" => Question(g) # Question(s[d])
    <3>1. SUFFICES ASSUME g.kind = "ns", Question(g) = Question(s[d]) PROVE FALSE
      OBVIOUS
    <3>2. g.name = s[d].name /\ g.type = s[d].type /\ g.type = "A"
      BY <3>1 DEF Question
    <3>3. s[d].kind # "roots"
      BY <3>2, <1>2 DEF Placed
    <3>4. <<g.name, g.type>> \in Seen(s[n])
      BY <3>2, <3>3, <2>2 DEF Seen
    <3>. QED BY <3>1, <3>4
  <2>. QED BY <1>1, <2>1, <2>2, <2>3 DEF Nests
<1>7. ASSUME NEW e \in 1..n + 1, NEW d \in 1..e - 1 PROVE Nests(t, d, e)
  <2>1. CASE e = n + 1
    BY <2>1, <1>1, <1>6
  <2>2. CASE e # n + 1
    BY <2>2, <1>1, <1>5
  <2>. QED BY <2>1, <2>2
<1>8. \A d \in 1..n + 1 : Placed(t, d)
  BY <1>1, <1>3, <1>4
<1>. QED BY <1>1, <1>7, <1>8 DEF Nested, t

\* The outermost call of a discovery asks for a root server.
LEMMA CallsSimple ==
  ASSUME NEW s, Nested(s), s # <<>>, s[Len(s)].at \in RootPlaces,
         NEW g, IsCall(g), g.kind = "simple", g.at \notin RootPlaces, g.hops = 0
  PROVE  Nested(Append(s, g))
<1>. DEFINE n == Len(s)  t == Append(s, g)
<1>0. n \in Nat \ {0}
  BY DEF Nested, IsSequence
<1>1. IsSequence(t) /\ Len(t) = n + 1 /\ n \in Nat \ {0} /\ (\A d \in 1..n : t[d] = s[d]) /\ t[n + 1] = g
  BY <1>0, Pushed DEF Nested
<1>. HIDE DEF t
<1>2. Placed(s, n)
  BY <1>1 DEF Nested
<1>3. n = 1 /\ s[1].kind = "roots"
  BY <1>1, <1>2 DEF Placed
<1>4. Placed(t, 1) /\ Placed(t, 2)
  BY <1>1, <1>2, <1>3 DEF Placed
<1>5. Nests(t, 1, 2)
  BY <1>1, <1>3 DEF Nests
<1>. QED BY <1>1, <1>3, <1>4, <1>5 DEF Nested, t

\* It returns.
LEMMA Returns ==
  ASSUME NEW s, Nested(s), Len(s) > 0 PROVE Nested(Front(s))
<1>1. IsSequence(Front(s)) /\ Len(Front(s)) = Len(s) - 1 /\ Len(s) \in Nat
      /\ \A d \in 1..Len(s) - 1 : Front(s)[d] = s[d]
  BY Popped DEF Nested
<1>2. ASSUME NEW d \in 1..Len(Front(s)) PROVE Placed(Front(s), d)
  <2>1. 1 \in 1..Len(s) - 1 /\ d \in 1..Len(s) /\ Placed(s, d)
    BY <1>1 DEF Nested
  <2>. QED BY <2>1, <1>1 DEF Placed
<1>3. ASSUME NEW e \in 1..Len(Front(s)), NEW d \in 1..e - 1 PROVE Nests(Front(s), d, e)
  <2>1. e \in 1..Len(s) - 1 /\ d \in 1..Len(s) - 1 /\ Nests(s, d, e)
    BY <1>1 DEF Nested
  <2>. QED BY <2>1, <1>1 DEF Nests
<1>. QED BY <1>1, <1>2, <1>3 DEF Nested

-----------------------------------------------------------------------------
(* What the parts of a step make of a call. *)

LEMMA SameAgain == ASSUME NEW f, NEW g, NEW h, Same(g, f), Same(h, g) PROVE Same(h, f)
BY DEF Same

LEMMA KeptByReturning ==
  ASSUME NEW f, IsCall(f), f.at \notin RootPlaces, NEW rc, NEW ent, NEW soa
  PROVE  Same(Returning(f, rc, ent, soa), f)
BY DEF Same, IsCall, Fields, RootPlaces, Contexts, Returning

LEMMA KeptByNextBatch == ASSUME NEW f, IsCall(f), f.at \notin RootPlaces PROVE Same(NextBatch(f), f)
BY DEF Same, IsCall, Fields, RootPlaces, Contexts, NextBatch

LEMMA KeptByContinue == ASSUME NEW f, IsCall(f), f.at \notin RootPlaces PROVE Same(Continue(f), f)
<1>1. Same(EndRound(f), f)
  BY KeptByNextBatch DEF Same, IsCall, Fields, RootPlaces, Contexts, EndRound
<1>2. CASE f.ctx = "send"
  BY <1>1, <1>2 DEF Same, IsCall, Fields, RootPlaces, Contexts, Continue
<1>3. CASE f.ctx = "events"
  BY <1>1, <1>3 DEF Same, IsCall, Fields, RootPlaces, Contexts, Continue
<1>4. CASE f.ctx = "timeouts"
  BY <1>4 DEF Same, IsCall, Fields, RootPlaces, Contexts, Continue
<1>. QED BY <1>2, <1>3, <1>4 DEF IsCall, Contexts

LEMMA KeptByDone ==
  ASSUME NEW f, IsCall(f), f.at \notin RootPlaces, NEW rv, NEW ent PROVE Same(Done(f, rv, ent), f)
BY DEF Same, IsCall, Fields, RootPlaces, Contexts, Done

LEMMA KeptByStart ==
  ASSUME NEW f, IsCall(f), f.at \notin RootPlaces, NEW serv PROVE Same(StartQueries(f, serv), f)
BY DEF Same, IsCall, Fields, RootPlaces, Contexts, StartQueries

LEMMA KeptByJudged ==
  ASSUME NEW f, IsCall(f), f.at \notin RootPlaces, NEW authok PROVE Same(Judged(f, authok), f)
<1>. DEFINE g == Save(f, authok)  d == Done(f, "OK", [ent |-> f.ans.ent, by |-> f.i])
            c == [g EXCEPT !.serv = <<>>]
            t == [g EXCEPT !.q[f.i] = SwitchToTcp(f.q[f.i]), !.serv = <<>>, !.at = f.ctx]
<1>1. Same(g, f)
  BY DEF Same, IsCall, Fields, RootPlaces, Contexts, Save
<1>2. Same(d, f)
  BY KeptByDone
<1>. HIDE DEF g, d
<1>3. Same(t, f)
  BY <1>1 DEF Same, IsCall, Fields, RootPlaces, Contexts
<1>4. Same(c, f)
  BY <1>1 DEF Same, IsCall, Fields, RootPlaces, Contexts
<1>5. Same(Continue(c), f)
  BY <1>4, KeptByContinue, SameAgain DEF Same
<1>. HIDE DEF c, t
<1>. QED BY <1>2, <1>3, <1>5 DEF Judged, g, d, c, t

LEMMA KeptByServers ==
  ASSUME NEW frames, NEW addrs, IsCall(frames[Len(frames)])
  PROVE  Same(WithServers(frames, addrs), frames[Len(frames)])
BY DEF Same, IsCall, Fields, RootPlaces, Contexts, WithServers

LEMMA KeptByReferral ==
  ASSUME NEW f, IsCall(f), f.at \notin RootPlaces, NEW res PROVE Same(AfterReferral(f, res), f)
BY DEF Same, IsCall, Fields, RootPlaces, Contexts, AfterReferral

LEMMA KeptByRootNames ==
  ASSUME NEW f, IsCall(f), f.at \in RootPlaces, NEW res
  PROVE  Same(WithRootNames(f, res), f) /\ Same(WithRootAddresses(f, res), f)
BY DEF Same, IsCall, Fields, RootPlaces, Contexts, WithRootNames, WithRootAddresses

LEMMA NewIsCall ==
  ASSUME NEW kind, NEW name, NEW type, NEW q, NEW hops, NEW hints
  PROVE  LET g == NewFrame(kind, name, type, q, hops, hints)
         IN  /\ IsCall(g) /\ g.at \notin RootPlaces
             /\ g.kind = kind /\ g.name = name /\ g.type = type /\ g.hops = hops /\ g.hints = hints
BY DEF NewFrame, IsCall, Fields, RootPlaces, Contexts
-----------------------------------------------------------------------------
(* The steps. *)

LEMMA TopIs ==
  ASSUME Nested(stack), stack # <<>>
  PROVE  Placed(stack, Len(stack)) /\ IsCall(Top) /\ Len(stack) \in Nat \ {0}
<1>1. Len(stack) \in Nat \ {0}
  BY DEF Nested, IsSequence
<1>2. Placed(stack, Len(stack))
  BY <1>1 DEF Nested
<1>. QED BY <1>1, <1>2 DEF Placed, Top

LEMMA InPlace ==
  ASSUME Nested(stack), stack # <<>>, NEW g, Same(g, Top), Put(g) PROVE Nested(stack')
BY GoesOn DEF Top, Put

LEMMA KeptByAsking ==
  ASSUME NEW f, IsCall(f), f.at \notin RootPlaces, NEW g, Same(g, f), Nested(stack), stack # <<>>, f = Top,
         NEW serv, AskServers(g, serv)
  PROVE  Nested(stack')
<1>1. CASE serv = <<>>
  <2>1. Same([g EXCEPT !.at = "result", !.rv = "SERVFAIL"], f)
    BY DEF Same, IsCall, Fields, RootPlaces, Contexts
  <2>. QED BY <1>1, <2>1, InPlace DEF AskServers, Unchanged
<1>2. CASE serv # <<>>
  <2>1. Same(StartQueries(g, serv), f)
    BY KeptByStart, SameAgain DEF Same
  <2>. QED BY <1>2, <2>1, InPlace DEF AskServers, Unchanged
<1>. QED BY <1>1, <1>2

LEMMA LookupStep == ASSUME Nested(stack), Lookup PROVE Nested(stack')
<1>. DEFINE s == LookupCacheStatus(cache, Top.name, Top.type)  f == Top
            g == [f EXCEPT !.cached = s.ent, !.flags = s.flags]
            down == f.kind # "simple" /\ LndownKluge /\ "LOCAL" \notin s.flags /\ LinkDown
<1>1. stack # <<>> /\ f.at = "lookup" /\ LookedUp(f, s)
  BY DEF Lookup
<1>. HIDE DEF s, f
<1>2. IsCall(f) /\ f.at \notin RootPlaces /\ f = Top
  BY <1>1, TopIs DEF RootPlaces, f
<1>3. Same(g, f)
  BY <1>2 DEF Same, IsCall, Fields, RootPlaces, Contexts
<1>4. ASSUME NEW rc, NEW ent, NEW soa, Unchanged(Returning(f, rc, ent, soa)) PROVE Nested(stack')
  BY <1>1, <1>2, <1>4, KeptByReturning, InPlace DEF Unchanged
<1>5. ASSUME NEW serv, AskServers(g, serv) PROVE Nested(stack')
  BY <1>1, <1>2, <1>3, <1>5, KeptByAsking
<1>. HIDE DEF g, down
<1>6. CASE s.rc = "OK"
  BY <1>1, <1>4, <1>6 DEF LookedUp
<1>7. CASE s.rc = "NAMEERR"
  BY <1>1, <1>4, <1>7 DEF LookedUp
<1>8. CASE s.rc \notin {"OK", "NAMEERR"} /\ down
  <2>1. Unchanged(Returning(f, "SERVFAIL", Nothing, cundef))
    BY <1>1, <1>8 DEF LookedUp, down
  <2>. QED BY <2>1, <1>4
<1>9. CASE s.rc = "CACHED" /\ ~down
  <2>1. Unchanged(Returning(f, "CACHED", s.ent, cundef))
    BY <1>1, <1>9 DEF LookedUp, down
  <2>. QED BY <2>1, <1>4
<1>10. CASE s.rc \in {"STALE", "NOTCACHED"} /\ ~down /\ f.q # <<>>
  <2>1. AskServers(g, f.q)
    BY <1>1, <1>10 DEF LookedUp, down, g
  <2>. QED BY <2>1, <1>5
<1>11. CASE /\ s.rc \notin {"OK", "NAMEERR", "CACHED"} /\ ~down
            /\ ~(s.rc \in {"STALE", "NOTCACHED"} /\ f.q # <<>>)
  <2>1. \E starts \in Starts : AskServers(g, ServersFor(f.name, starts))
    BY <1>1, <1>11 DEF LookedUp, down, g
  <2>. QED BY <2>1, <1>5
<1>. QED BY <1>6, <1>7, <1>8, <1>9, <1>10, <1>11

LEMMA ExecStep == ASSUME Nested(stack), ExecQuery PROVE Nested(stack')
<1>. DEFINE f == Top  i == f.i
<1>1. stack # <<>> /\ f.at \in {"send", "events", "again"}
  BY DEF ExecQuery
<1>2. PICK r : Executed(f, i, r)
  BY DEF ExecQuery
<1>. DEFINE g == [f EXCEPT !.q[i] = r.st, !.rv = r.rv, !.fired = @ \/ f.ctx = "timeouts"]
<1>3. IsCall(f) /\ f.at \notin RootPlaces
  BY <1>1, TopIs DEF RootPlaces
<1>. HIDE DEF f, i
<1>4. Same(g, f)
  BY <1>3 DEF Same, IsCall, Fields, RootPlaces, Contexts
<1>. HIDE DEF g
<1>5. Same([g EXCEPT !.at = "judge", !.ans = [ent |-> r.ent, ns |-> r.ns]], f)
  BY <1>3, <1>4 DEF Same, IsCall, Fields, RootPlaces, Contexts
<1>6. Same([g EXCEPT !.at = "again"], f)
  BY <1>3, <1>4 DEF Same, IsCall, Fields, RootPlaces, Contexts
<1>7. Same(Done(g, r.rv, [ent |-> r.ent, by |-> i]), f)
  BY <1>3, <1>4, KeptByDone, SameAgain DEF Same
<1>8. Same(Continue(g), f)
  BY <1>3, <1>4, KeptByContinue, SameAgain DEF Same
<1>9. \E h : Put(h) /\ h \in {[g EXCEPT !.at = "judge", !.ans = [ent |-> r.ent, ns |-> r.ns]], [g EXCEPT !.at = "again"],
                Done(g, r.rv, [ent |-> r.ent, by |-> i]), Continue(g)}
  BY <1>2 DEF Executed, g
<1>. QED BY <1>1, <1>5, <1>6, <1>7, <1>8, <1>9, InPlace DEF f

LEMMA PollStep ==
  ASSUME Nested(stack), PollReports \/ PollTimesOut \/ PollFails \/ NothingPending PROVE Nested(stack')
<1>. DEFINE f == Top
<1>1. stack # <<>> /\ f.at = "poll"
  BY DEF PollReports, PollTimesOut, PollFails, NothingPending
<1>2. IsCall(f) /\ f.at \notin RootPlaces
  BY <1>1, TopIs DEF RootPlaces
<1>3. CASE PollReports
  <2>1. PICK ready : Unchanged([f EXCEPT !.at = "events", !.ctx = "events", !.ready = ready, !.i = Min(ready),
                                         !.rv = "SERVFAIL"])
    BY <1>3 DEF PollReports
  <2>. HIDE DEF f
  <2>2. Same([f EXCEPT !.at = "events", !.ctx = "events", !.ready = ready, !.i = Min(ready),
                       !.rv = "SERVFAIL"], f)
    BY <1>2 DEF Same, IsCall, Fields, RootPlaces, Contexts
  <2>. QED BY <1>1, <2>1, <2>2, InPlace DEF f, Unchanged
<1>4. CASE PollTimesOut
  <2>1. Unchanged([f EXCEPT !.at = "timeouts", !.ctx = "timeouts", !.i = f.j, !.fired = FALSE,
                            !.rv = "SERVFAIL"])
    BY <1>4 DEF PollTimesOut
  <2>. HIDE DEF f
  <2>2. Same([f EXCEPT !.at = "timeouts", !.ctx = "timeouts", !.i = f.j, !.fired = FALSE,
                            !.rv = "SERVFAIL"], f)
    BY <1>2 DEF Same, IsCall, Fields, RootPlaces, Contexts
  <2>. QED BY <1>1, <2>1, <2>2, InPlace DEF f, Unchanged
<1>5. CASE PollFails
  BY <1>1, <1>2, <1>5, KeptByDone, InPlace DEF PollFails, Unchanged
<1>6. CASE NothingPending
  <2>1. Unchanged(NextBatch([f EXCEPT !.rv = "SERVFAIL"]))
    BY <1>6 DEF NothingPending
  <2>. HIDE DEF f
  <2>2. Same([f EXCEPT !.rv = "SERVFAIL"], f)
    BY <1>2 DEF Same, IsCall, Fields, RootPlaces, Contexts
  <2>3. Same(NextBatch([f EXCEPT !.rv = "SERVFAIL"]), [f EXCEPT !.rv = "SERVFAIL"])
    BY <1>2, <2>2, KeptByNextBatch DEF Same
  <2>4. Same(NextBatch([f EXCEPT !.rv = "SERVFAIL"]), f)
    BY <2>2, <2>3, SameAgain
  <2>. QED BY <1>1, <2>1, <2>4, InPlace DEF f, Unchanged
<1>. QED BY <1>3, <1>4, <1>5, <1>6

LEMMA TimeOutStep == ASSUME Nested(stack), TimeOut \/ EndTimeOuts PROVE Nested(stack')
<1>. DEFINE f == Top
<1>1. stack # <<>> /\ f.at = "timeouts"
  BY DEF TimeOut, EndTimeOuts
<1>2. IsCall(f) /\ f.at \notin RootPlaces
  BY <1>1, TopIs DEF RootPlaces
<1>3. CASE TimeOut
  <2>. DEFINE g == [f EXCEPT !.q[f.i].testing = IF @ > 0 /\ ~IsDone(f.q[f.i]) THEN 2 ELSE @]
              st == g.q[g.i]
  <2>1. \E h : Unchanged(h) /\ h \in {[g EXCEPT !.q[g.i] = SwitchToUdp(st), !.at = "again"], Continue(g)}
    BY <1>3 DEF TimeOut
  <2>. HIDE DEF f
  <2>2. Same(g, f)
    BY <1>2 DEF Same, IsCall, Fields, RootPlaces, Contexts
  <2>. HIDE DEF g, st
  <2>3. Same([g EXCEPT !.q[g.i] = SwitchToUdp(st), !.at = "again"], f)
    BY <1>2, <2>2 DEF Same, IsCall, Fields, RootPlaces, Contexts
  <2>4. Same(Continue(g), f)
    BY <1>2, <2>2, KeptByContinue, SameAgain DEF Same
  <2>. QED BY <1>1, <2>1, <2>3, <2>4, InPlace DEF f, Unchanged
<1>4. CASE EndTimeOuts
  <2>1. \E h : Unchanged(h) /\ h \in {[f EXCEPT !.at = "poll"], NextBatch(f)}
    BY <1>4 DEF EndTimeOuts
  <2>. HIDE DEF f
  <2>2. Same([f EXCEPT !.at = "poll"], f)
    BY <1>2 DEF Same, IsCall, Fields, RootPlaces, Contexts
  <2>. QED BY <1>1, <1>2, <2>1, <2>2, KeptByNextBatch, InPlace DEF f, Unchanged
<1>. QED BY <1>3, <1>4

LEMMA JudgeStep == ASSUME Nested(stack), JudgeAnswer \/ NameServersDone PROVE Nested(stack')
<1>. DEFINE f == Top
<1>1. stack # <<>> /\ f.at \in {"judge", "names"}
  BY DEF JudgeAnswer, NameServersDone
<1>2. IsCall(f) /\ f.at \notin RootPlaces
  BY <1>1, TopIs DEF RootPlaces
<1>. DEFINE g == [f EXCEPT !.at = "names", !.todo = NameServersFor(f.ans.ns, f.name)]
<1>3. \E h : Unchanged(h) /\ h \in {Judged(f, 0), Judged(f, 1), g}
  BY DEF JudgeAnswer, NameServersDone
<1>. HIDE DEF f
<1>4. Same(g, f)
  BY <1>2 DEF Same, IsCall, Fields, RootPlaces, Contexts
<1>. HIDE DEF g
<1>. QED BY <1>1, <1>2, <1>3, <1>4, KeptByJudged, InPlace DEF f, Unchanged

LEMMA NameServerStep == ASSUME Nested(stack), LookupNameServer PROVE Nested(stack')
<1>. DEFINE f == Top  nsname == Head(f.todo)[2]
            g == NewFrame("ns", nsname, "A", <<>>, f.hops - 1, f.hints \union {<<f.name, f.type>>})
            h == [f EXCEPT !.todo = Tail(@)]
<1>1. stack # <<>> /\ f.at = "names"
  BY DEF LookupNameServer
<1>2. IsCall(f) /\ f.at \notin RootPlaces
  BY <1>1, TopIs DEF RootPlaces
<1>3. CASE Circular(f, nsname)
  <2>1. Unchanged(h)
    BY <1>3 DEF LookupNameServer
  <2>2. Same(h, f)
    BY <1>2 DEF Same, IsCall, Fields, RootPlaces, Contexts
  <2>. QED BY <1>1, <2>1, <2>2, InPlace DEF Unchanged
<1>4. CASE ~Circular(f, nsname)
  <2>1. stack' = Append(stack, g)
    BY <1>4 DEF LookupNameServer
  <2>2. <<nsname, "A">> \notin Seen(f)
    BY <1>4 DEF Circular, Seen
  <2>. HIDE DEF f, nsname
  <2>3. IsCall(g) /\ g.at \notin RootPlaces /\ g.kind = "ns" /\ g.name = nsname /\ g.type = "A"
        /\ g.hops = f.hops - 1 /\ g.hints = Seen(f)
    BY NewIsCall DEF Seen
  <2>. HIDE DEF g
  <2>4. Seen(f) \subseteq Seen(g)
    BY <2>3 DEF Seen
  <2>5. f = stack[Len(stack)]
    BY DEF f, Top
  <2>6. Nested(Append(stack, g))
    BY <1>1, <1>2, <2>2, <2>3, <2>4, <2>5, Calls
  <2>. QED BY <2>1, <2>6
<1>. QED BY <1>3, <1>4

LEMMA FinishStep == ASSUME Nested(stack), Finish PROVE Nested(stack')
<1>1. stack # <<>> /\ Top.at = "finish" /\ IsCall(Top)
  BY TopIs DEF Finish
<1>2. Top.at \notin RootPlaces
  BY <1>1 DEF RootPlaces
<1>. DEFINE f == [Top EXCEPT !.q = [k \in DOMAIN @ |-> Cancel(@[k])]]
            best == f.saved
            poor == best # Nothing /\ best.qual < GOODQUAL
            ent == IF best = Nothing THEN f.ans.ent ELSE IF poor THEN Flagged(best.ent) ELSE best.ent
            serv == IF best = Nothing THEN f.serv ELSE best.serv
            by == IF best = Nothing THEN f.ans.by ELSE best.by
            qs == f.q[by]
            g == [f EXCEPT !.ans = [ent |-> ent, by |-> by]]
            failed == [f EXCEPT !.at = "result", !.rv = IF @ = "FATALERR" THEN "SERVFAIL" ELSE @,
                                 !.ans = [soa |-> IF f.rv = "NAMEERR" THEN f.ans.ent.c_soa ELSE cundef]]
            found == [g EXCEPT !.at = "result", !.rv = "OK"]
            asks == [g EXCEPT !.at = "referral", !.serv = serv, !.fallback = qs.aa \/ qs.ra]
            call == NewFrame("auth", f.name, f.type, serv, f.hops - 1, f.hints)
<1>3. Same(f, Top)
  BY <1>1, <1>2 DEF Same, IsCall, Fields, RootPlaces, Contexts
<1>4. \/ Put(failed) \/ Put(found)
      \/ stack' = Append([stack EXCEPT ![Len(stack)] = asks], call)
  BY DEF Finish
<1>. HIDE DEF f
<1>5. Same(failed, Top)
  BY <1>2, <1>3 DEF Same, IsCall, Fields, RootPlaces, Contexts
<1>. HIDE DEF ent, by
<1>6. Same(g, Top)
  BY <1>2, <1>3 DEF Same, IsCall, Fields, RootPlaces, Contexts
<1>. HIDE DEF g, serv, qs
<1>7. Same(found, Top) /\ Same(asks, Top)
  BY <1>2, <1>6 DEF Same, IsCall, Fields, RootPlaces, Contexts
<1>8. IsCall(call) /\ call.at \notin RootPlaces /\ call.kind = "auth" /\ call.name = f.name /\ call.type = f.type
      /\ call.hops = f.hops - 1 /\ call.hints = f.hints
  BY NewIsCall
<1>. HIDE DEF failed, found, asks, call
<1>9. CASE stack' = Append([stack EXCEPT ![Len(stack)] = asks], call)
  <2>. DEFINE t == [stack EXCEPT ![Len(stack)] = asks]
  <2>1. Nested(t)
    BY <1>1, <1>7, GoesOn DEF Top
  <2>2. Len(t) = Len(stack) /\ t[Len(t)] = asks /\ t # <<>>
    BY <1>1, TopReplaced DEF Nested
  <2>. HIDE DEF t
  <2>3. Seen(asks) = Seen(call) /\ call.hops = asks.hops - 1
    BY <1>3, <1>7, <1>8 DEF Same, Seen
  <2>4. Nested(Append(t, call))
    BY <2>1, <2>2, <2>3, <1>2, <1>7, <1>8, Calls DEF Same
  <2>. QED BY <2>4, <1>9 DEF t
<1>. QED BY <1>1, <1>4, <1>5, <1>7, <1>9, InPlace

LEMMA StoreStep == ASSUME Nested(stack), StoreResult PROVE Nested(stack')
<1>1. stack # <<>> /\ Top.at = "result" /\ IsCall(Top)
  BY TopIs DEF StoreResult
<1>2. Top.at \notin RootPlaces
  BY <1>1 DEF RootPlaces
<1>3. \E rc, ent, soa : Put(Returning(Top, rc, ent, soa))
  BY DEF StoreResult
<1>. QED BY <1>1, <1>2, <1>3, KeptByReturning, InPlace

LEMMA Caller ==
  ASSUME NEW s, Nested(s), s # <<>>, NEW n, n = Len(s), s[n].kind # "top", s[n].at \notin RootPlaces
  PROVE  /\ n - 1 \in Nat \ {0} /\ IsCall(s[n - 1])
         /\ s[n].kind \in {"ns", "auth", "simple"}
         /\ s[n].kind = "simple" <=> s[n - 1].at \in RootPlaces
<1>1. n \in Nat \ {0}
  BY DEF Nested, IsSequence
<1>2. Placed(s, n)
  BY <1>1 DEF Nested
<1>3. n # 1 /\ s[n].kind \in {"ns", "auth", "simple"}
  BY <1>2 DEF Placed
<1>4. n - 1 \in 1..Len(s)
  BY <1>1, <1>3
<1>5. Placed(s, n - 1)
  BY <1>4 DEF Nested
<1>6. s[n - 1].at \in RootPlaces => n = 2 /\ s[1].kind = "roots"
  BY <1>1, <1>3, <1>5 DEF Placed
<1>7. n = 2 /\ s[1].kind = "roots" => s[n - 1].at \in RootPlaces
  BY <1>5 DEF Placed
<1>8. s[n].kind = "simple" <=> n = 2 /\ s[1].kind = "roots"
  BY <1>2 DEF Placed
<1>9. IsCall(s[n - 1])
  BY <1>5 DEF Placed
<1>. QED BY <1>3, <1>4, <1>6, <1>7, <1>8, <1>9

LEMMA ReturnStep == ASSUME Nested(stack), Return PROVE Nested(stack')
<1>. DEFINE n == Len(stack)  frames == Front(stack)  f == frames[Len(frames)]
<1>1. stack # <<>> /\ Top.at = "return" /\ Top.kind # "top" /\ Top = stack[n]
  BY DEF Return, Top
<1>2. /\ n - 1 \in Nat \ {0} /\ IsCall(stack[n - 1]) /\ Top.kind \in {"ns", "auth", "simple"}
      /\ Top.kind = "simple" <=> stack[n - 1].at \in RootPlaces
  BY <1>1, Caller DEF RootPlaces
<1>3. /\ Nested(frames) /\ Len(frames) = n - 1 /\ frames # <<>> /\ f = stack[n - 1]
  <2>1. Len(stack) > 0
    BY <1>1 DEF Nested, IsSequence
  <2>2. Nested(frames)
    BY <2>1, Returns
  <2>3. Len(frames) = n - 1 /\ \A d \in 1..n - 1 : frames[d] = stack[d]
    BY <2>1, Popped DEF Nested
  <2>4. f = stack[n - 1] /\ frames # <<>>
    BY <2>3, <1>2
  <2>. QED BY <2>2, <2>3, <2>4
<1>4. IsCall(f) /\ (Top.kind = "simple" <=> f.at \in RootPlaces)
  BY <1>2, <1>3
<1>5. ASSUME NEW g, Same(g, f), stack' = [frames EXCEPT ![Len(frames)] = g] PROVE Nested(stack')
  BY <1>3, <1>5, GoesOn
<1>6. CASE Top.kind = "ns"
  <2>1. PICK addrs : stack' = [frames EXCEPT ![Len(frames)] = WithServers(frames, addrs)]
    BY <1>6 DEF Return
  <2>. QED BY <2>1, <1>4, <1>5, KeptByServers
<1>7. CASE Top.kind = "auth"
  <2>1. stack' = [frames EXCEPT ![Len(frames)] = AfterReferral(f, Top.res)]
    BY <1>7 DEF Return, Last
  <2>. QED BY <2>1, <1>4, <1>5, <1>7, KeptByReferral
<1>8. CASE Top.kind = "simple"
  <2>1. \E g : /\ stack' = [frames EXCEPT ![Len(frames)] = g]
               /\ g \in {WithRootNames(f, Wrapped(Top.res)), WithRootAddresses(f, Wrapped(Top.res))}
    BY <1>4, <1>8 DEF Return, Last, RootPlaces
  <2>. QED BY <2>1, <1>4, <1>5, <1>8, KeptByRootNames
<1>. QED BY <1>2, <1>6, <1>7, <1>8

LEMMA RootServerStep == ASSUME Nested(stack), LookupRootServer PROVE Nested(stack')
<1>. DEFINE sp == servers[Top.j]  name == Head(Top.todo)[1].v
            q == [k \in DOMAIN sp.addrs |-> NewQuery(sp.addrs[k], {}, FALSE, TRUE, sp.edns, 0, 0, TRUE,
                                                     Nothing, Nothing, method)]
            g == NewFrame("simple", name, "A", q, 0, {})
<1>1. stack # <<>> /\ Top.at = "root names" /\ stack' = Append(stack, g)
  BY DEF LookupRootServer, Simple
<1>. HIDE DEF sp, name, q
<1>2. IsCall(g) /\ g.at \notin RootPlaces /\ g.kind = "simple" /\ g.hops = 0
  BY NewIsCall
<1>. HIDE DEF g
<1>3. stack[Len(stack)].at \in RootPlaces
  BY <1>1 DEF Top, RootPlaces
<1>. QED BY <1>1, <1>2, <1>3, CallsSimple

\* One call alone.
LEMMA Alone ==
  ASSUME NEW f, IsCall(f), f.hops \in Int,
         \/ f.kind = "top" /\ f.at \notin RootPlaces
         \/ f.kind = "roots" /\ f.at \in RootPlaces /\ f.hops = 0 /\ f.type = "NS"
  PROVE  Nested(<<f>>)
<1>. DEFINE s == <<f>>
<1>1. s \in Seq({f}) /\ Len(s) = 1 /\ s[1] = f
  OBVIOUS
<1>. HIDE DEF s
<1>2. Placed(s, 1)
  BY <1>1 DEF Placed
<1>3. IsSequence(s)
  BY <1>1 DEF IsSequence
<1>. QED BY <1>1, <1>2, <1>3 DEF Nested, s

LEMMA AskStep == ASSUME Ask PROVE Nested(stack')
<1>1. PICK qu \in Questions : stack' = <<NewFrame("top", qu[1], qu[2], <<>>, MaxHops, {})>>
  BY DEF Ask
<1>. DEFINE g == NewFrame("top", qu[1], qu[2], <<>>, MaxHops, {})
<1>2. IsCall(g) /\ g.at \notin RootPlaces /\ g.kind = "top" /\ g.hops = MaxHops
  BY NewIsCall
<1>. HIDE DEF g
<1>3. Nested(<<g>>)
  BY <1>2, Alone, HopsAssumption
<1>. QED BY <1>1, <1>3 DEF g

LEMMA TwoCalls == ASSUME NEW f, NEW g PROVE Append(<<f>>, g) = <<f, g>>
<1>. DEFINE s == <<f>>  t == <<f, g>>
<1>1. s \in Seq({f, g}) /\ Len(s) = 1 /\ s[1] = f
  OBVIOUS
<1>2. t \in Seq({f, g}) /\ Len(t) = 2 /\ t[1] = f /\ t[2] = g
  OBVIOUS
<1>. HIDE DEF s, t
<1>3. Append(s, g) \in Seq({f, g}) /\ Len(Append(s, g)) = 2 /\ Append(s, g)[1] = f /\ Append(s, g)[2] = g
  <2>1. PICK S : S = {f, g}
    OBVIOUS
  <2>2. s \in Seq(S) /\ g \in S
    BY <1>1, <2>1
  <2>3. Append(s, g) \in Seq(S) /\ Len(Append(s, g)) = 2 /\ Append(s, g)[1] = f /\ Append(s, g)[2] = g
    <3>. DEFINE a == Append(s, g)  n == Len(s)
    <3>1. a \in Seq(S) /\ Len(a) = n + 1 /\ (\A k \in 1..n : a[k] = s[k]) /\ a[n + 1] = g
      BY <2>2, AppendProperties
    <3>. HIDE DEF a
    <3>2. n = 1 /\ n + 1 = 2
      BY <1>1
    <3>. HIDE DEF n
    <3>3. Len(a) = 2 /\ a[2] = g /\ a[1] = s[1]
      BY <3>1, <3>2
    <3>. QED BY <1>1, <3>1, <3>3 DEF a
  <2>. QED BY <2>1, <2>3
<1>4. \A k \in 1..2 : Append(s, g)[k] = t[k]
  BY <1>2, <1>3
<1>5. Append(s, g) = t
  BY <1>2, <1>3, <1>4, SeqEqual
<1>. QED BY <1>5 DEF s, t

LEMMA DiscoverStep == ASSUME Discover PROVE Nested(stack')
<1>. DEFINE r == NewFrame("roots", <<>>, "NS", <<>>, 0, {})
<1>1. PICK i \in DOMAIN servers :
        stack' = <<[r EXCEPT !.at = "root domain", !.j = i], Simple(servers[i], <<>>, "NS")>>
  BY DEF Discover
<1>. DEFINE f == [r EXCEPT !.at = "root domain", !.j = i]  sp == servers[i]
            q == [k \in DOMAIN sp.addrs |-> NewQuery(sp.addrs[k], {}, FALSE, TRUE, sp.edns, 0, 0, TRUE,
                                                     Nothing, Nothing, method)]
            g == NewFrame("simple", <<>>, "NS", q, 0, {})
<1>2. Simple(servers[i], <<>>, "NS") = g
  BY DEF Simple
<1>3. IsCall(r) /\ r.kind = "roots" /\ r.hops = 0 /\ r.type = "NS"
  BY NewIsCall
<1>. HIDE DEF r, sp, q
<1>4. IsCall(f) /\ f.kind = "roots" /\ f.hops = 0 /\ f.type = "NS" /\ f.at \in RootPlaces
  BY <1>3 DEF IsCall, Fields, RootPlaces
<1>5. IsCall(g) /\ g.at \notin RootPlaces /\ g.kind = "simple" /\ g.hops = 0
  BY NewIsCall
<1>. HIDE DEF f, g
<1>6. Nested(<<f>>)
  BY <1>4, Alone
<1>7. <<f>> # <<>> /\ Len(<<f>>) = 1 /\ <<f>>[1] = f
  OBVIOUS
<1>8. Nested(Append(<<f>>, g))
  BY <1>4, <1>5, <1>6, <1>7, CallsSimple
<1>9. Append(<<f>>, g) = <<f, g>>
  BY TwoCalls
<1>. QED BY <1>1, <1>2, <1>8, <1>9 DEF f

LEMMA EmptyNested == Nested(<<>>)
BY DEF Nested, IsSequence

LEMMA NestedStep == ASSUME Nested(stack), [Next]_vars PROVE Nested(stack')
<1>1. CASE UNCHANGED vars
  BY <1>1 DEF vars
<1>2. CASE Ask
  BY <1>2, AskStep
<1>3. CASE Discover
  BY <1>3, DiscoverStep
<1>4. CASE StartTest \/ TestGoes \/ TestTimesOut \/ TestInterrupted
  <2>1. stack' = stack
    BY <1>4 DEF StartTest, TestGoes, TestTimesOut, TestInterrupted, TestEnds
  <2>. QED BY <2>1
<1>5. CASE PollReports \/ PollTimesOut \/ PollFails \/ NothingPending
  BY <1>5, PollStep
<1>6. CASE Discovered \/ Answer
  BY <1>6, EmptyNested DEF Discovered, Answer
<1>. QED
  BY <1>1, <1>2, <1>3, <1>4, <1>5, <1>6, LookupStep, ExecStep, TimeOutStep, JudgeStep, NameServerStep,
     FinishStep, StoreStep, ReturnStep, RootServerStep
  DEF Next, Step

LEMMA NestedIsRight == ASSUME Nested(stack) PROVE NotCircular
<1>1. Len(stack) \in Nat /\ DOMAIN stack = 1..Len(stack)
  BY DEF Nested, IsSequence
<1>. SUFFICES ASSUME NEW e \in DOMAIN stack, NEW d \in 1..e - 1
     PROVE  /\ stack[e].kind = "ns" => Question(stack[e]) # Question(stack[d])
            /\ stack[e].kind # "simple" => stack[e].hops < stack[d].hops
  BY DEF NotCircular
<1>2. Nests(stack, d, e)
  BY <1>1 DEF Nested
<1>. QED BY <1>2 DEF Nests

\* NotCircular: no thread looks up an address that it waits for further up, whatever the servers
\* reply, however they refer to one another and however deep the look-ups nest.
THEOREM NoCircles == Spec => []NotCircular
<1>1. Init => Nested(stack)
  BY EmptyNested DEF Init
<1>2. Nested(stack) /\ [Next]_vars => Nested(stack)'
  BY NestedStep
<1>. QED BY <1>1, <1>2, NestedIsRight, PTL DEF Spec

-----------------------------------------------------------------------------
(* Lists. ToSet(s) has the elements of s. *)

LEMMA Lists ==
  ASSUME NEW s, IsList(s)
  PROVE  /\ Len(s) \in Nat /\ DOMAIN s = 1..Len(s) /\ s \in Seq(ToSet(s))
         /\ \A k \in 1..Len(s) : s[k] \in ToSet(s)
         /\ s # <<>> => Len(s) > 0 /\ Head(s) = s[1] /\ Head(s) \in ToSet(s)
<1>1. s \in Seq(ToSet(s))
  BY DEF IsList, ToSet
<1>2. Len(s) \in Nat /\ DOMAIN s = 1..Len(s) /\ \A k \in 1..Len(s) : s[k] \in ToSet(s)
  BY <1>1, LenProperties, ElementOfSeq
<1>3. s # <<>> => Len(s) > 0 /\ Head(s) = s[1]
  BY <1>1, EmptySeq
<1>. QED BY <1>1, <1>2, <1>3

LEMMA ListsFrom == ASSUME NEW S, NEW s \in Seq(S) PROVE IsList(s) /\ ToSet(s) \subseteq S
<1>1. Len(s) \in Nat /\ DOMAIN s = 1..Len(s) /\ s \in [1..Len(s) -> S]
  BY LenProperties
<1>2. s \in [1..Len(s) -> ToSet(s)] /\ ToSet(s) \subseteq S
  BY <1>1 DEF ToSet
<1>3. s \in Seq(ToSet(s))
  BY <1>1, <1>2
<1>. QED BY <1>2, <1>3 DEF IsList, ToSet

LEMMA NoList == IsList(<<>>) /\ Len(<<>>) = 0 /\ ToSet(<<>>) = {}
<1>1. IsList(<<>>) /\ Len(<<>>) = 0
  BY ListsFrom, EmptySeq
<1>2. DOMAIN <<>> = {}
  OBVIOUS
<1>. QED BY <1>1, <1>2 DEF ToSet

LEMMA Mapped ==
  ASSUME NEW n \in Nat, NEW f, DOMAIN f = 1..n, f = [k \in 1..n |-> f[k]]
  PROVE  IsList(f) /\ Len(f) = n
<1>1. f \in [1..n -> {f[k] : k \in 1..n}]
  OBVIOUS
<1>. DEFINE S == {f[k] : k \in 1..n}
<1>. HIDE DEF S
<1>2. f \in [1..n -> S]
  BY <1>1 DEF S
<1>3. f \in Seq(S)
  BY <1>2
<1>4. Len(f) = n
  BY <1>2
<1>. QED BY <1>3, <1>4, ListsFrom

LEMMA Appended ==
  ASSUME NEW s, IsList(s), NEW e
  PROVE  /\ IsList(Append(s, e)) /\ Len(Append(s, e)) = Len(s) + 1
         /\ ToSet(Append(s, e)) = ToSet(s) \union {e} /\ Append(s, e) # <<>>
         /\ \A k \in 1..Len(s) : Append(s, e)[k] = s[k]
<1>. DEFINE T == ToSet(s) \union {e}  a == Append(s, e)
<1>1. s \in Seq(T) /\ Len(s) \in Nat /\ DOMAIN s = 1..Len(s)
  BY Lists, SeqMonotonic
<1>2. e \in T
  OBVIOUS
<1>3. /\ a \in Seq(T) /\ Len(a) = Len(s) + 1
      /\ \A k \in 1..Len(s) : a[k] = s[k]
      /\ a[Len(s) + 1] = e
  <2>. HIDE DEF T
  <2>. QED BY <1>1, <1>2, AppendProperties
<1>. HIDE DEF a
<1>4. IsList(a) /\ ToSet(a) \subseteq T /\ DOMAIN a = 1..Len(a)
  BY <1>3, ListsFrom, Lists
<1>5. T \subseteq ToSet(a)
  <2>1. e \in ToSet(a)
    BY <1>1, <1>3, <1>4 DEF ToSet
  <2>2. ASSUME NEW k \in 1..Len(s) PROVE s[k] \in ToSet(a)
    BY <1>1, <1>3, <1>4 DEF ToSet
  <2>. QED BY <2>1, <2>2, <1>1 DEF ToSet
<1>6. a # <<>>
  BY <1>1, <1>3, NoList
<1>. QED BY <1>3, <1>4, <1>5, <1>6 DEF a

LEMMA Joined ==
  ASSUME NEW s, NEW t, IsList(s), IsList(t)
  PROVE  IsList(s \o t) /\ ToSet(s \o t) \subseteq ToSet(s) \union ToSet(t)
<1>. DEFINE U == ToSet(s) \union ToSet(t)
<1>1. s \in Seq(U) /\ t \in Seq(U)
  BY Lists, SeqMonotonic
<1>2. s \o t \in Seq(U)
  <2>. HIDE DEF U
  <2>. QED BY <1>1, ConcatProperties
<1>. QED BY <1>2, ListsFrom

LEMMA TailOf == ASSUME NEW s, IsList(s), s # <<>> PROVE IsList(Tail(s)) /\ ToSet(Tail(s)) \subseteq ToSet(s)
<1>1. Tail(s) \in Seq(ToSet(s))
  BY Lists, HeadTailProperties
<1>. QED BY <1>1, ListsFrom

LEMMA PartOf ==
  ASSUME NEW s, IsList(s), NEW i \in Nat \ {0}, NEW j \in Nat, j <= Len(s)
  PROVE  IsList(SubSeq(s, i, j)) /\ ToSet(SubSeq(s, i, j)) \subseteq ToSet(s)
<1>1. \A k \in i..j : s[k] \in ToSet(s)
  BY Lists
<1>2. SubSeq(s, i, j) \in Seq(ToSet(s))
  BY <1>1, SubSeqProperties
<1>. QED BY <1>2, ListsFrom

LEMMA SetListed == ASSUME NEW S, IsFiniteSet(S) PROVE IsList(SetToSeq(S)) /\ ToSet(SetToSeq(S)) \subseteq S
<1>. DEFINE C == Cardinality(S)
<1>1. C \in Nat /\ ExistsBijection(1..C, S)
  BY FS_CardinalityType
<1>2. PICK f \in Bijection(1..C, S) : TRUE
  BY <1>1 DEF ExistsBijection
<1>3. f \in [1..C -> S] /\ IsInjective(f)
  BY <1>2 DEF Bijection, Injection
<1>4. SetToSeq(S) \in [1..C -> S]
  BY <1>3 DEF SetToSeq
<1>5. SetToSeq(S) \in Seq(S)
  <2>. DEFINE t == SetToSeq(S)
  <2>1. t \in [1..C -> S]
    BY <1>4
  <2>. HIDE DEF t, C
  <2>2. t \in Seq(S)
    BY <1>1, <2>1
  <2>. QED BY <2>2 DEF t
<1>. QED BY <1>5, ListsFrom

AmongOp(set, y, z, l, e) == IF e \in set THEN Append(l, e) ELSE l
AmongGood(set, s, z, base, k, l) == IsList(l) /\ ToSet(l) \subseteq set \intersect ToSet(s)
Filter == INSTANCE FoldFacts WITH Op <- AmongOp, Good <- AmongGood

LEMMA Filtered ==
  ASSUME NEW s, IsList(s), NEW set
  PROVE  IsList(Among(s, set)) /\ ToSet(Among(s, set)) \subseteq set \intersect ToSet(s)
<1>1. Len(s) \in Nat /\ DOMAIN s = 1..Len(s) /\ \A k \in 1..Len(s) : s[k] \in ToSet(s)
  BY Lists
<1>2. AmongGood(set, s, 0, <<>>, 0, <<>>)
  BY NoList DEF AmongGood
<1>3. ASSUME NEW k \in 1..Len(s), NEW a, AmongGood(set, s, 0, <<>>, k - 1, a)
      PROVE  AmongGood(set, s, 0, <<>>, k, AmongOp(set, s, 0, a, s[k]))
  <2>1. IsList(a) /\ IsList(Append(a, s[k])) /\ ToSet(Append(a, s[k])) = ToSet(a) \union {s[k]}
    BY <1>3, Appended DEF AmongGood
  <2>. QED BY <1>1, <1>3, <2>1 DEF AmongGood, AmongOp
<1>4. AmongGood(set, s, 0, <<>>, Len(s), Filter!Folded(set, s, 0, <<>>, s))
  BY <1>1, <1>2, <1>3, Filter!FoldKeeps
<1>5. Filter!Folded(set, s, 0, <<>>, s) = Among(s, set)
  BY DEF Filter!Folded, Filter!FoldLeft, Filter!MapThenFoldSet, Among, FoldLeft, MapThenFoldSet,
         AmongOp, Max, Filter!Max
<1>. QED BY <1>4, <1>5 DEF AmongGood

LEMMA Minimum == ASSUME NEW a \in Int, NEW b \in Int PROVE Min({a, b}) = IF a <= b THEN a ELSE b
<1>. DEFINE c == IF a <= b THEN a ELSE b
<1>1. c \in {a, b} /\ \A y \in {a, b} : c <= y
  OBVIOUS
<1>2. \A x \in {a, b} : (\A y \in {a, b} : x <= y) => x = c
  OBVIOUS
<1>. HIDE DEF c
<1>3. (CHOOSE x \in {a, b} : \A y \in {a, b} : x <= y) = c
  BY <1>1, <1>2
<1>. QED BY <1>3 DEF Min, c

-----------------------------------------------------------------------------
(* Entries. *)

EntryFields == {"qname", "flags", "ttl", "sets", "c_ns", "c_soa"}

LEMMA StoredIs ==
  ASSUME NEW e
  PROVE  IsStored(e) <=> /\ DOMAIN e = EntryFields /\ IsFiniteSet(DOMAIN e.sets)
                         /\ \A t \in DOMAIN e.sets : IsSetOf(e.sets[t], t)
<1>1. DOMAIN Blank(<<>>, {}) = EntryFields
  BY DEF Blank, EntryFields
<1>. QED BY <1>1 DEF IsStored

LEMMA StoredIsSomething == ASSUME NEW e, IsStored(e) PROVE e # Nothing
<1>1. DOMAIN e = EntryFields /\ DOMAIN Nothing = {"none"}
  BY StoredIs DEF Nothing
<1>. QED BY <1>1 DEF EntryFields

\* g is like e, but for its marks.
LEMMA SameSets == ASSUME NEW e, IsStored(e), NEW g, DOMAIN g = DOMAIN e, g.sets = e.sets PROVE IsStored(g)
BY StoredIs

LEMMA OtherSets ==
  ASSUME NEW e, IsStored(e), NEW g, DOMAIN g = DOMAIN e, IsFiniteSet(DOMAIN g.sets),
         \A t \in DOMAIN g.sets : IsSetOf(g.sets[t], t)
  PROVE  IsStored(g)
BY StoredIs

\* One set over the others.
LEMMA OneOver ==
  ASSUME NEW t, NEW set, IsSetOf(set, t), NEW s, IsFiniteSet(DOMAIN s), \A u \in DOMAIN s : IsSetOf(s[u], u)
  PROVE  LET o == Over([u \in {t} |-> set], s)
         IN  IsFiniteSet(DOMAIN o) /\ \A u \in DOMAIN o : IsSetOf(o[u], u)
<1>. DEFINE f == [u \in {t} |-> set]  o == Over(f, s)
<1>1. DOMAIN f = {t} /\ f[t] = set
  OBVIOUS
<1>. HIDE DEF f
<1>2. /\ DOMAIN o = {t} \union DOMAIN s /\ o[t] = set
      /\ \A u \in DOMAIN s \ {t} : o[u] = s[u]
  BY <1>1 DEF Over
<1>. HIDE DEF o
<1>3. IsFiniteSet(DOMAIN o)
  <2>1. DOMAIN o = DOMAIN s \union {t}
    BY <1>2
  <2>. QED BY <2>1, FS_AddElement
<1>. QED BY <1>2, <1>3 DEF o, f

LEMMA BlankStored == ASSUME NEW n, NEW flags PROVE IsStored(Blank(n, flags)) /\ Blank(n, flags).qname = n
<1>1. DOMAIN Blank(n, flags) = EntryFields /\ DOMAIN Blank(n, flags).sets = {} /\ Blank(n, flags).qname = n
  BY DEF Blank, EntryFields
<1>. QED BY <1>1, StoredIs, FS_EmptySet

\* The layout of the records that begin with a name.
LEMMA Begins ==
  /\ "NS" \in DOMAIN Layouts /\ Layouts["NS"] = {<<"n">>}
  /\ "SOA" \in DOMAIN Layouts /\ Layouts["SOA"] = {<<"n", "n", "b">>}
<1>. DEFINE n1 == [t \in {"CNAME", "MB", "MD", "MF", "MG", "MR", "NS", "PTR"} |-> {<<"n">>}]
            n2 == [t \in {"MINFO", "RP"} |-> {<<"n", "n">>}]
<1>1. DOMAIN n1 = {"CNAME", "MB", "MD", "MF", "MG", "MR", "NS", "PTR"} /\ n1["NS"] = {<<"n">>}
      /\ DOMAIN n2 = {"MINFO", "RP"} /\ NameRecords = Over(n1, n2)
  BY DEF NameRecords
<1>. HIDE DEF n1, n2
<1>2. "NS" \in DOMAIN NameRecords /\ NameRecords["NS"] = {<<"n">>} /\ "SOA" \notin DOMAIN NameRecords
  BY <1>1 DEF Over
<1>3. DOMAIN PreferenceRecords = {"MX", "AFSDB", "RT", "KX"}
  BY DEF PreferenceRecords
<1>4. "SOA" \in DOMAIN FixedRecords /\ FixedRecords["SOA"] = {<<"n", "n", "b">>}
  BY DEF FixedRecords
<1>. DEFINE a == Over(FixedRecords, OpenRecords)  b == Over(PreferenceRecords, a)
<1>5. "SOA" \in DOMAIN a /\ a["SOA"] = {<<"n", "n", "b">>}
  BY <1>4 DEF Over
<1>. HIDE DEF a
<1>6. "SOA" \in DOMAIN b /\ b["SOA"] = {<<"n", "n", "b">>}
  BY <1>3, <1>5 DEF Over
<1>. HIDE DEF b
<1>7. Layouts = Over(NameRecords, b)
  BY DEF Layouts, a, b
<1>. QED BY <1>2, <1>6, <1>7 DEF Over

LEMMA NameFirst ==
  ASSUME NEW rr, IsRecord(rr), rr.type \in {"NS", "SOA"}, WellFormed(rr)
  PROVE  IsList(rr.data[1].v)
<1>. DEFINE kinds == [k \in DOMAIN rr.data |-> rr.data[k].kind]
<1>1. PICK parts \in Layouts[rr.type] :
        LET open == Last(parts) = "*"
            fixed == IF open THEN Front(parts) ELSE parts
        IN  Len(fixed) <= Len(kinds) /\ SubSeq(kinds, 1, Len(fixed)) = fixed
  BY DEF WellFormed
<1>2. parts \in {<<"n">>, <<"n", "n", "b">>}
  BY Begins
<1>3. Last(parts) # "*" /\ Len(parts) \in Nat \ {0} /\ parts[1] = "n"
  <2>1. CASE parts = <<"n">>
    BY <2>1 DEF Last
  <2>2. CASE parts = <<"n", "n", "b">>
    BY <2>2 DEF Last
  <2>. QED BY <1>2, <2>1, <2>2
<1>4. Len(parts) <= Len(kinds) /\ SubSeq(kinds, 1, Len(parts)) = parts
  BY <1>1, <1>3
<1>5. Len(rr.data) \in Nat /\ DOMAIN rr.data = 1..Len(rr.data)
  BY Lists DEF IsRecord
<1>6. IsList(kinds) /\ Len(kinds) = Len(rr.data)
  BY <1>5, Mapped
<1>7. SubSeq(kinds, 1, Len(parts))[1] = kinds[1]
  <2>1. \A k \in 1..Len(parts) : kinds[k] \in ToSet(kinds)
    BY <1>3, <1>4, <1>5, <1>6, Lists
  <2>. HIDE DEF kinds
  <2>2. \A i \in 1..Len(parts) - 1 + 1 : SubSeq(kinds, 1, Len(parts))[i] = kinds[1 + i - 1]
    BY <2>1, <1>3, SubSeqProperties
  <2>. QED BY <2>2, <1>3
<1>8. 1 \in DOMAIN rr.data
  BY <1>3, <1>4, <1>5, <1>6
<1>9. kinds[1] = "n"
  <2>. HIDE DEF kinds
  <2>. QED BY <1>3, <1>4, <1>7
<1>10. rr.data[1].kind = "n"
  BY <1>8, <1>9
<1>. QED BY <1>8, <1>10 DEF IsRecord

LEMMA RrAdded ==
  ASSUME NEW e, IsStored(e), NEW rr, IsRecord(rr), WellFormed(rr), NEW flags
  PROVE  IsStored(AddCentRr(e, rr, flags)) /\ AddCentRr(e, rr, flags).qname = e.qname
<1>. DEFINE g == AddCentRr(e, rr, flags)  t == rr.type
<1>1. DOMAIN e = EntryFields /\ IsFiniteSet(DOMAIN e.sets) /\ \A u \in DOMAIN e.sets : IsSetOf(e.sets[u], u)
  BY StoredIs
<1>2. t \in {"NS", "SOA"} => IsList(rr.data[1].v)
  BY NameFirst
<1>3. CASE t \notin DOMAIN e.sets
  <2>. DEFINE new == [ttl |-> rr.ttl, flags |-> flags, rrs |-> <<rr.data>>]
              s == Over([u \in {t} |-> new], e.sets)
  <2>1. IsList(<<rr.data>>) /\ ToSet(<<rr.data>>) = {rr.data}
    <3>1. <<rr.data>> = Append(<<>>, rr.data)
      OBVIOUS
    <3>. DEFINE none == <<>>
    <3>2. IsList(none) /\ ToSet(none) = {}
      BY NoList
    <3>. HIDE DEF none
    <3>3. IsList(Append(none, rr.data)) /\ ToSet(Append(none, rr.data)) = {} \union {rr.data}
      BY <3>2, Appended
    <3>. QED BY <3>1, <3>3 DEF none
  <2>2. IsSetOf(new, t)
    BY <2>1, <1>2 DEF IsSetOf
  <2>. HIDE DEF new
  <2>3. IsFiniteSet(DOMAIN s) /\ \A u \in DOMAIN s : IsSetOf(s[u], u)
    BY <1>1, <2>2, OneOver
  <2>4. g = [e EXCEPT !.sets = s]
    BY <1>3 DEF AddCentRr, Has, new
  <2>. HIDE DEF s, g
  <2>5. DOMAIN g = DOMAIN e /\ g.sets = s /\ g.qname = e.qname
    BY <2>4, <1>1 DEF EntryFields
  <2>. QED BY <2>3, <2>5, OtherSets DEF g
<1>4. CASE t \in DOMAIN e.sets
  <2>. DEFINE old == e.sets[t]
              new == [old EXCEPT !.ttl = Min({@, rr.ttl}),
                                 !.rrs = IF Contains(@, rr.data) THEN @ ELSE Append(@, rr.data)]
              s == [e.sets EXCEPT ![t] = new]
  <2>1. IsSetOf(old, t)
    BY <1>1, <1>4
  <2>2. /\ IsList(Append(old.rrs, rr.data)) /\ ToSet(Append(old.rrs, rr.data)) = ToSet(old.rrs) \union {rr.data}
    BY <2>1, Appended DEF IsSetOf
  <2>3. IsSetOf(new, t)
    <3>. HIDE DEF old
    <3>1. DOMAIN new = DOMAIN old /\ new.rrs = IF Contains(old.rrs, rr.data) THEN old.rrs ELSE Append(old.rrs, rr.data)
      BY <2>1 DEF IsSetOf
    <3>. HIDE DEF new
    <3>. QED BY <3>1, <2>1, <2>2, <1>2 DEF IsSetOf
  <2>. HIDE DEF new
  <2>4. DOMAIN s = DOMAIN e.sets /\ \A u \in DOMAIN s : IsSetOf(s[u], u)
    BY <1>1, <1>4, <2>3
  <2>5. g = [e EXCEPT !.sets = s]
    <3>1. g = [e EXCEPT !.sets[t].ttl = Min({@, rr.ttl}),
                        !.sets[t].rrs = IF Contains(@, rr.data) THEN @ ELSE Append(@, rr.data)]
      BY <1>4 DEF AddCentRr, Has
    <3>. QED BY <3>1, <1>1, <1>4, <2>1 DEF EntryFields, IsSetOf, new, old
  <2>. HIDE DEF s, g
  <2>6. DOMAIN g = DOMAIN e /\ g.sets = s /\ g.qname = e.qname
    BY <2>5, <1>1 DEF EntryFields
  <2>. QED BY <1>1, <2>4, <2>6, OtherSets DEF g
<1>. QED BY <1>3, <1>4

LEMMA NegativeSetAdded ==
  ASSUME NEW e, IsStored(e), NEW t, NEW ttl, NEW flags
  PROVE  IsStored(AddNegativeSet(e, t, ttl, flags)) /\ AddNegativeSet(e, t, ttl, flags).qname = e.qname
<1>. DEFINE g == AddNegativeSet(e, t, ttl, flags)  new == [ttl |-> ttl, flags |-> flags, rrs |-> <<>>]
            s == Over([u \in {t} |-> new], e.sets)
<1>1. DOMAIN e = EntryFields /\ IsFiniteSet(DOMAIN e.sets) /\ \A u \in DOMAIN e.sets : IsSetOf(e.sets[u], u)
  BY StoredIs
<1>2. IsSetOf(new, t)
  BY NoList DEF IsSetOf
<1>3. g = [e EXCEPT !.sets = s]
  BY DEF AddNegativeSet
<1>. HIDE DEF new
<1>4. IsFiniteSet(DOMAIN s) /\ \A u \in DOMAIN s : IsSetOf(s[u], u)
  BY <1>1, <1>2, OneOver
<1>. HIDE DEF s, g
<1>5. DOMAIN g = DOMAIN e /\ g.sets = s /\ g.qname = e.qname
  BY <1>3, <1>1 DEF EntryFields
<1>. QED BY <1>4, <1>5, OtherSets DEF g

LEMMA Negated ==
  ASSUME NEW e, IsStored(e), NEW ttl
  PROVE  IsStored(NegateCent(e, ttl)) /\ NegateCent(e, ttl).qname = e.qname
<1>. DEFINE g == NegateCent(e, ttl)
<1>1. DOMAIN e = EntryFields
  BY StoredIs
<1>2. DOMAIN g = DOMAIN e /\ DOMAIN g.sets = {} /\ g.qname = e.qname
  BY <1>1 DEF NegateCent, EntryFields
<1>. QED BY <1>2, FS_EmptySet, OtherSets

LEMMA FlagAdded ==
  ASSUME NEW e, IsStored(e), NEW flag
  PROVE  LET g == [e EXCEPT !.flags = @ \union {flag}] IN IsStored(g) /\ g.qname = e.qname
<1>. DEFINE g == [e EXCEPT !.flags = @ \union {flag}]
<1>1. DOMAIN e = EntryFields
  BY StoredIs
<1>2. DOMAIN g = DOMAIN e /\ g.sets = e.sets /\ g.qname = e.qname
  BY <1>1 DEF EntryFields
<1>. HIDE DEF g
<1>3. IsStored(g)
  BY <1>2, SameSets
<1>. QED BY <1>2, <1>3 DEF g

-----------------------------------------------------------------------------
(* Replies. *)

Entries(sec) == IsList(sec) /\ \A e \in ToSet(sec) : IsStored(e)

\* The first entry of a section is for the name that was asked for.
Headed(sec, name) == sec # <<>> /\ sec[1].qname = name

LEMMA EntryReplaced ==
  ASSUME NEW sec, Entries(sec), NEW i, NEW e, IsStored(e), e.qname = sec[i].qname
  PROVE  LET g == [sec EXCEPT ![i] = e]
         IN  Entries(g) /\ \A name : Headed(sec, name) => Headed(g, name)
<1>. DEFINE g == [sec EXCEPT ![i] = e]
<1>1. Len(sec) \in Nat /\ DOMAIN sec = 1..Len(sec) /\ \A k \in 1..Len(sec) : IsStored(sec[k])
  BY Lists DEF Entries
<1>2. DOMAIN g = 1..Len(sec) /\ g = [k \in 1..Len(sec) |-> g[k]]
      /\ \A k \in 1..Len(sec) : g[k] = IF k = i THEN e ELSE sec[k]
  BY <1>1
<1>. HIDE DEF g
<1>3. IsList(g) /\ Len(g) = Len(sec)
  BY <1>1, <1>2, Mapped
<1>4. \A d \in ToSet(g) : IsStored(d)
  BY <1>1, <1>2 DEF ToSet
<1>5. ASSUME NEW name, Headed(sec, name) PROVE Headed(g, name)
  <2>1. Len(sec) > 0
    BY <1>5, Lists DEF Headed, Entries
  <2>2. 1 \in 1..Len(sec)
    BY <2>1, <1>1
  <2>3. g[1].qname = sec[1].qname
    BY <2>2, <1>2
  <2>4. g # <<>>
    BY <2>1, <1>3, NoList
  <2>. QED BY <2>3, <2>4, <1>5 DEF Headed
<1>. QED BY <1>3, <1>4, <1>5 DEF Entries, g

LEMMA EntryAppended ==
  ASSUME NEW sec, Entries(sec), NEW e, IsStored(e)
  PROVE  Entries(Append(sec, e)) /\ \A name : Headed(sec, name) => Headed(Append(sec, e), name)
<1>1. /\ IsList(Append(sec, e)) /\ ToSet(Append(sec, e)) = ToSet(sec) \union {e} /\ Append(sec, e) # <<>>
      /\ \A k \in 1..Len(sec) : Append(sec, e)[k] = sec[k]
  BY Appended DEF Entries
<1>2. sec # <<>> => 1 \in 1..Len(sec)
  BY Lists DEF Entries
<1>. QED BY <1>1, <1>2 DEF Entries, Headed

LEMMA RrRead ==
  ASSUME NEW sec, Entries(sec), NEW rr, IsRecord(rr), WellFormed(rr), NEW flags
  PROVE  /\ Entries(RrToCache(sec, rr, flags))
         /\ \A name : Headed(sec, name) => Headed(RrToCache(sec, rr, flags), name)
<1>. DEFINE i == SelectInSeq(sec, LAMBDA ce : ce.qname = rr.name)
<1>1. CASE LookupCentArray(sec, rr.name) = Nothing
  <2>1. IsStored(AddCentRr(Blank(rr.name, {}), rr, flags))
    BY BlankStored, RrAdded
  <2>2. RrToCache(sec, rr, flags) = Append(sec, AddCentRr(Blank(rr.name, {}), rr, flags))
    BY <1>1 DEF RrToCache
  <2>. QED BY <2>1, <2>2, EntryAppended
<1>2. CASE LookupCentArray(sec, rr.name) # Nothing
  <2>. DEFINE e == AddCentRr(sec[i], rr, flags)
  <2>1. RrToCache(sec, rr, flags) = [sec EXCEPT ![i] = e]
    BY <1>2 DEF RrToCache
  <2>. HIDE DEF i
  <2>2. CASE i \in DOMAIN sec
    <3>1. IsStored(sec[i])
      BY <2>2 DEF Entries, ToSet
    <3>2. IsStored(e) /\ e.qname = sec[i].qname
      BY <3>1, RrAdded
    <3>. HIDE DEF e
    <3>3. Entries([sec EXCEPT ![i] = e]) /\ \A name : Headed(sec, name) => Headed([sec EXCEPT ![i] = e], name)
      BY <3>2, EntryReplaced
    <3>. QED BY <2>1, <3>3
  <2>3. CASE i \notin DOMAIN sec
    <3>1. DOMAIN sec = 1..Len(sec) /\ sec \in Seq(ToSet(sec))
      BY Lists DEF Entries
    <3>2. [sec EXCEPT ![i] = e] = sec
      BY <2>3, <3>1
    <3>. QED BY <2>1, <3>2
  <2>. QED BY <2>2, <2>3
<1>. QED BY <1>1, <1>2

\* What has been read of a section.
Reading(p) == DOMAIN p = {"rc", "sec", "opt"} /\ Entries(p.sec)

RrOp(flags, y, z, p, rr) == Rrs2Cent(p, rr, flags)
RrGood(flags, y, z, base, k, p) == Reading(p) /\ \A name : Headed(base.sec, name) => Headed(p.sec, name)
Rrs == INSTANCE FoldFacts WITH Op <- RrOp, Good <- RrGood

Records(rrs) == IsList(rrs) /\ \A k \in DOMAIN rrs : IsRecord(rrs[k])

LEMMA SectionRead ==
  ASSUME NEW rrs, Records(rrs), NEW sec, Entries(sec), NEW flags, NEW truncated
  PROVE  LET p == ReadSection(rrs, sec, flags, truncated)
         IN  Reading(p) /\ \A name : Headed(sec, name) => Headed(p.sec, name)
<1>. DEFINE base == [rc |-> "OK", sec |-> sec, opt |-> Nothing]
            p == Rrs!Folded(flags, 0, 0, base, rrs)
<1>1. Len(rrs) \in Nat /\ DOMAIN rrs = 1..Len(rrs)
  BY Lists DEF Records
<1>2. RrGood(flags, 0, 0, base, 0, base)
  BY DEF RrGood, Reading
<1>. HIDE DEF base
<1>3. ASSUME NEW k \in 1..Len(rrs), NEW a, RrGood(flags, 0, 0, base, k - 1, a)
      PROVE  RrGood(flags, 0, 0, base, k, RrOp(flags, 0, 0, a, rrs[k]))
  <2>. DEFINE rr == rrs[k]  b == Rrs2Cent(a, rr, flags)
  <2>1. IsRecord(rr)
    BY <1>1 DEF Records
  <2>. HIDE DEF rr
  <2>2. b \in {a, [a EXCEPT !.opt = rr], [a EXCEPT !.rc = "FORMAT"]}
        \/ (WellFormed(rr) /\ b = [a EXCEPT !.sec = RrToCache(@, rr, flags)])
    BY DEF Rrs2Cent
  <2>. HIDE DEF b
  <2>3. DOMAIN a = {"rc", "sec", "opt"} /\ Entries(a.sec)
    BY <1>3 DEF RrGood, Reading
  <2>4. CASE b.sec = a.sec /\ DOMAIN b = DOMAIN a
    BY <2>4, <1>3 DEF RrGood, Reading, RrOp, b, rr
  <2>5. CASE WellFormed(rr) /\ b = [a EXCEPT !.sec = RrToCache(@, rr, flags)]
    <3>1. b.sec = RrToCache(a.sec, rr, flags) /\ DOMAIN b = DOMAIN a
      BY <2>3, <2>5
    <3>2. Entries(b.sec) /\ \A name : Headed(a.sec, name) => Headed(b.sec, name)
      BY <3>1, <2>1, <2>3, <2>5, RrRead
    <3>. QED BY <3>1, <3>2, <1>3 DEF RrGood, Reading, RrOp, b, rr
  <2>. QED BY <2>2, <2>3, <2>4, <2>5
<1>4. RrGood(flags, 0, 0, base, Len(rrs), p)
  BY <1>1, <1>2, <1>3, Rrs!FoldKeeps
<1>5. p = FoldLeft(LAMBDA q, rr : Rrs2Cent(q, rr, flags), base, rrs)
  BY DEF Rrs!Folded, Rrs!FoldLeft, Rrs!MapThenFoldSet, FoldLeft, MapThenFoldSet, RrOp, Max, Rrs!Max
<1>. HIDE DEF p
<1>6. ReadSection(rrs, sec, flags, truncated) \in {p, [p EXCEPT !.rc = "TRUNC"]}
  BY <1>5 DEF ReadSection, base
<1>7. DOMAIN p = {"rc", "sec", "opt"} /\ Entries(p.sec) /\ \A name : Headed(sec, name) => Headed(p.sec, name)
  BY <1>4 DEF RrGood, Reading, base
<1>. QED BY <1>6, <1>7 DEF Reading

\* The three sections of an answer about name.
Sections(secs, name) ==
  /\ DOMAIN secs = 1..3 /\ Headed(secs[1], name)
  /\ Entries(secs[1]) /\ Entries(secs[2]) /\ Entries(secs[3])

SecOp(m, st, aa, r, k) == ReadNext(r, k, m, st, aa)
SecGood(m, st, aa, base, n, r) ==
  DOMAIN r = {"rc", "secs", "opt"} /\ Sections(r.secs, base.secs[1][1].qname)
Secs == INSTANCE FoldFacts WITH Op <- SecOp, Good <- SecGood

LEMMA SectionsRead ==
  ASSUME NEW m, IsMessage(m), m.header, NEW st, NEW name, NEW qtype
  PROVE  Sections(ReadSections(st, m, name, qtype).secs, name)
<1>. DEFINE aa == m.aa /\ st.failed = 0 /\ ~m.tc
            first == Blank(name, IF aa /\ qtype = "ALL" THEN {"AUTH"} ELSE {})
            base == [rc |-> "OK", secs |-> <<<<first>>, <<>>, <<>>>>, opt |-> Nothing]
            r == Secs!Folded(m, st, aa, base, <<1, 2, 3>>)
<1>1. Records(m.an) /\ Records(m.ns) /\ Records(m.ar)
  BY DEF IsMessage, Records
<1>2. IsStored(first) /\ first.qname = name
  BY BlankStored
<1>. HIDE DEF first
<1>3. Entries(<<first>>) /\ Entries(<<>>) /\ Headed(<<first>>, name)
  <2>. DEFINE none == <<>>
  <2>1. Entries(none)
    BY NoList DEF Entries
  <2>2. <<first>> = Append(none, first) /\ <<first>>[1] = first
    OBVIOUS
  <2>. HIDE DEF none
  <2>3. Entries(Append(none, first)) /\ Append(none, first) # <<>>
    BY <1>2, <2>1, EntryAppended, Appended DEF Entries
  <2>. QED BY <1>2, <2>1, <2>2, <2>3 DEF Headed, none
<1>4. base.secs[1][1].qname = name
  BY <1>2
<1>5. SecGood(m, st, aa, base, 0, base)
  BY <1>3, <1>4 DEF SecGood, Sections
<1>. HIDE DEF base, aa
<1>6. ASSUME NEW k \in 1..3, NEW a, SecGood(m, st, aa, base, k - 1, a)
      PROVE  SecGood(m, st, aa, base, k, SecOp(m, st, aa, a, <<1, 2, 3>>[k]))
  <2>. DEFINE rrs == <<m.an, m.ns, m.ar>>[k]  flags == SectionFlags(st, aa, k)
              p == ReadSection(rrs, a.secs[k], flags, m.cut = k)
              b == [rc |-> p.rc, secs |-> [a.secs EXCEPT ![k] = p.sec], opt |-> p.opt]
  <2>1. <<1, 2, 3>>[k] = k
    OBVIOUS
  <2>2. ReadNext(a, k, m, st, aa) \in {a, b}
    BY DEF ReadNext
  <2>3. Sections(a.secs, name) /\ DOMAIN a = {"rc", "secs", "opt"}
    BY <1>4, <1>6 DEF SecGood
  <2>4. Records(rrs) /\ Entries(a.secs[k])
    BY <1>1, <2>3 DEF Sections
  <2>. HIDE DEF rrs, flags
  <2>5. Entries(p.sec) /\ \A n : Headed(a.secs[k], n) => Headed(p.sec, n)
    BY <2>4, SectionRead DEF Reading
  <2>. HIDE DEF p
  <2>6. DOMAIN b = {"rc", "secs", "opt"} /\ Sections(b.secs, name)
    BY <2>3, <2>5 DEF Sections
  <2>. HIDE DEF b
  <2>7. SecGood(m, st, aa, base, k, a) /\ SecGood(m, st, aa, base, k, b)
    BY <1>4, <2>3, <2>6 DEF SecGood
  <2>. QED BY <2>1, <2>2, <2>7 DEF SecOp
<1>7. DOMAIN <<1, 2, 3>> = 1..3
  OBVIOUS
<1>8. SecGood(m, st, aa, base, 3, r)
  <2>. DEFINE s == <<1, 2, 3>>
  <2>1. DOMAIN s = 1..3 /\ 3 \in Nat
    BY <1>7
  <2>2. \A k \in 1..3 : \A a : SecGood(m, st, aa, base, k - 1, a) => SecGood(m, st, aa, base, k, SecOp(m, st, aa, a, s[k]))
    BY <1>6
  <2>. HIDE DEF s
  <2>3. SecGood(m, st, aa, base, 3, Secs!Folded(m, st, aa, base, s))
    BY <1>5, <2>1, <2>2, Secs!FoldKeeps
  <2>. QED BY <2>3 DEF s
<1>9. r = ReadSections(st, m, name, qtype)
  BY DEF ReadSections, base, aa, first, Secs!Folded, Secs!FoldLeft, Secs!MapThenFoldSet, FoldLeft, MapThenFoldSet,
         SecOp, Max, Secs!Max
<1>. HIDE DEF r
<1>. QED BY <1>4, <1>8, <1>9 DEF SecGood

LEMMA CutsAdded ==
  ASSUME NEW st, NEW ans, Entries(ans), NEW auth, NEW qtype, NEW name, Headed(ans, name)
  PROVE  LET g == WithCuts(st, ans, auth, qtype) IN Entries(g) /\ Headed(g, name)
<1>. DEFINE g == WithCuts(st, ans, auth, qtype)
<1>1. Len(ans) \in Nat /\ DOMAIN ans = 1..Len(ans) /\ Len(ans) > 0 /\ \A k \in 1..Len(ans) : IsStored(ans[k])
  BY Lists DEF Entries, Headed
<1>2. DOMAIN g = DOMAIN ans /\ g = [k \in DOMAIN g |-> g[k]]
  BY DEF WithCuts
<1>3. \A k \in DOMAIN ans : \E x, y : g[k] = [ans[k] EXCEPT !.c_ns = x, !.c_soa = y]
  BY DEF WithCuts
<1>. HIDE DEF g
<1>4. IsList(g) /\ Len(g) = Len(ans)
  BY <1>1, <1>2, Mapped
<1>5. ASSUME NEW k \in 1..Len(ans) PROVE IsStored(g[k]) /\ g[k].qname = ans[k].qname
  <2>1. PICK x, y : g[k] = [ans[k] EXCEPT !.c_ns = x, !.c_soa = y]
    BY <1>1, <1>3
  <2>2. DOMAIN ans[k] = EntryFields /\ IsStored(ans[k])
    BY <1>1, StoredIs
  <2>3. DOMAIN g[k] = DOMAIN ans[k] /\ g[k].sets = ans[k].sets /\ g[k].qname = ans[k].qname
    BY <2>1, <2>2 DEF EntryFields
  <2>. QED BY <2>2, <2>3, SameSets
<1>6. g # <<>>
  BY <1>1, <1>4, NoList
<1>. QED BY <1>1, <1>2, <1>4, <1>5, <1>6 DEF Entries, Headed, ToSet, g

-----------------------------------------------------------------------------
(* Replies: the servers they name, and what of them may be stored. *)

\* <<domain, server>>, the server by its name.
Pairs(ns) == IsList(ns) /\ \A p \in ToSet(ns) : IsList(p[2])

ServerOp(cent, y, z, l, d) == AddServer(l, cent, d)
ServerGood(x, y, z, base, k, l) == Pairs(l)
ServersOf == INSTANCE FoldFacts WITH Op <- ServerOp, Good <- ServerGood

LEMMA ServersOfAdded ==
  ASSUME NEW ns, Pairs(ns), NEW cent, IsStored(cent), NEW type \in {"NS", "SOA"}
  PROVE  Pairs(AddServersOf(ns, cent, type))
<1>1. CASE type \in DOMAIN cent.sets
  <2>. DEFINE rrs == cent.sets[type].rrs  p == ServersOf!Folded(cent, 0, 0, ns, rrs)
  <2>1. IsList(rrs) /\ \A d \in ToSet(rrs) : IsList(d[1].v)
    BY <1>1, StoredIs DEF IsSetOf
  <2>. HIDE DEF rrs
  <2>2. Len(rrs) \in Nat /\ DOMAIN rrs = 1..Len(rrs) /\ \A k \in 1..Len(rrs) : IsList(rrs[k][1].v)
    BY <2>1, Lists
  <2>3. ASSUME NEW k \in 1..Len(rrs), NEW l, ServerGood(cent, 0, 0, ns, k - 1, l)
        PROVE  ServerGood(cent, 0, 0, ns, k, ServerOp(cent, 0, 0, l, rrs[k]))
    <3>. DEFINE v == rrs[k][1].v  pair == <<cent.qname, v>>
    <3>1. IsList(l) /\ (\A x \in ToSet(l) : IsList(x[2])) /\ IsList(v) /\ pair[2] = v
      BY <2>2, <2>3 DEF ServerGood, Pairs
    <3>2. AddServer(l, cent, rrs[k]) \in {l, Append(l, pair)}
      BY DEF AddServer
    <3>. HIDE DEF v, pair
    <3>3. IsList(Append(l, pair)) /\ ToSet(Append(l, pair)) = ToSet(l) \union {pair}
      BY <3>1, Appended
    <3>4. Pairs(l) /\ Pairs(Append(l, pair))
      BY <3>1, <3>3 DEF Pairs
    <3>. QED BY <3>2, <3>4 DEF ServerGood, ServerOp
  <2>4. ServerGood(cent, 0, 0, ns, 0, ns)
    BY DEF ServerGood
  <2>5. ServerGood(cent, 0, 0, ns, Len(rrs), p)
    BY <2>2, <2>3, <2>4, ServersOf!FoldKeeps
  <2>6. AddServersOf(ns, cent, type) = p
    BY <1>1 DEF AddServersOf, Has, rrs, ServersOf!Folded, ServersOf!FoldLeft, ServersOf!MapThenFoldSet, FoldLeft,
                MapThenFoldSet, ServerOp, Max, ServersOf!Max
  <2>. QED BY <2>5, <2>6 DEF ServerGood
<1>2. CASE type \notin DOMAIN cent.sets
  BY <1>2 DEF AddServersOf, Has
<1>. QED BY <1>1, <1>2

NamesOp(st, y, z, ns, cent) == AddServers(ns, cent, st)
NamesGood(x, y, z, base, k, ns) == Pairs(ns)
Names == INSTANCE FoldFacts WITH Op <- NamesOp, Good <- NamesGood

LEMMA NameServersFound ==
  ASSUME NEW st, NEW secs, NEW name, Sections(secs, name)
  PROVE  Pairs(NameServers(st, secs))
<1>. DEFINE all == secs[1] \o secs[2]  p == Names!Folded(st, 0, 0, <<>>, all)
<1>0. Pairs(<<>>)
  BY NoList DEF Pairs
<1>1. IsList(all) /\ \A e \in ToSet(all) : IsStored(e)
  BY Joined DEF Sections, Entries
<1>. HIDE DEF all
<1>2. Len(all) \in Nat /\ DOMAIN all = 1..Len(all) /\ \A k \in 1..Len(all) : IsStored(all[k])
  BY <1>1, Lists
<1>3. ASSUME NEW k \in 1..Len(all), NEW l, NamesGood(st, 0, 0, <<>>, k - 1, l)
      PROVE  NamesGood(st, 0, 0, <<>>, k, NamesOp(st, 0, 0, l, all[k]))
  <2>1. Pairs(l) /\ IsStored(all[k])
    BY <1>2, <1>3 DEF NamesGood
  <2>2. Pairs(AddServersOf(l, all[k], "NS"))
    BY <2>1, ServersOfAdded
  <2>3. Pairs(AddServersOf(AddServersOf(l, all[k], "NS"), all[k], "SOA"))
    BY <2>1, <2>2, ServersOfAdded
  <2>. QED BY <2>1, <2>3 DEF NamesGood, NamesOp, AddServers
<1>4. NamesGood(st, 0, 0, <<>>, 0, <<>>)
  BY <1>0 DEF NamesGood
<1>5. NamesGood(st, 0, 0, <<>>, Len(all), p)
  BY <1>2, <1>3, <1>4, Names!FoldKeeps
<1>6. NameServers(st, secs) \in {<<>>, p}
  BY DEF NameServers, all, Names!Folded, Names!FoldLeft, Names!MapThenFoldSet, FoldLeft, MapThenFoldSet, NamesOp,
         Max, Names!Max
<1>. HIDE DEF p
<1>. QED BY <1>0, <1>5, <1>6 DEF NamesGood

\* Entries that a server may speak for.
Allowed(st, adds) == IsList(adds) /\ \A e \in ToSet(adds) : IsStored(e) /\ MaySpeakFor(st, e.qname)

LEMMA AdditionalAllowed ==
  ASSUME NEW st, NEW secs, NEW name, Sections(secs, name), NEW negAns
  PROVE  Allowed(st, Additional(st, secs, negAns))
<1>. DEFINE one == IF negAns THEN <<>> ELSE Tail(secs[1])  all == one \o secs[2] \o secs[3]
            may == {cent \in ToSet(all) : MaySpeakFor(st, cent.qname)}
<1>1. IsList(one) /\ \A e \in ToSet(one) : IsStored(e)
  BY NoList, TailOf DEF Sections, Entries, Headed
<1>. HIDE DEF one
<1>2. IsList(one \o secs[2]) /\ \A e \in ToSet(one \o secs[2]) : IsStored(e)
  BY <1>1, Joined DEF Sections, Entries
<1>3. IsList(all) /\ \A e \in ToSet(all) : IsStored(e)
  <2>. DEFINE two == one \o secs[2]
  <2>1. IsList(two) /\ \A e \in ToSet(two) : IsStored(e)
    BY <1>2
  <2>. HIDE DEF two
  <2>2. IsList(two \o secs[3]) /\ \A e \in ToSet(two \o secs[3]) : IsStored(e)
    BY <2>1, Joined DEF Sections, Entries
  <2>. QED BY <2>2 DEF two
<1>4. Additional(st, secs, negAns) = Among(all, may)
  BY DEF Additional, one
<1>. HIDE DEF all
<1>5. \A e \in may : IsStored(e) /\ MaySpeakFor(st, e.qname)
  BY <1>3
<1>. HIDE DEF may
<1>6. IsList(Among(all, may)) /\ ToSet(Among(all, may)) \subseteq may
  BY <1>3, Filtered
<1>. QED BY <1>4, <1>5, <1>6 DEF Allowed

QueryFields ==
  {"addr", "flags", "nocache", "lean", "edns", "auth_serv", "testing", "trusted", "nsdomain", "rejectlist",
   "aa", "tc", "ra", "failed", "state", "qm", "errno", "open", "asked", "io", "rd", "opt"}

\* The same server in the same role.
SameServer(s, st) ==
  /\ DOMAIN s = QueryFields
  /\ s.auth_serv = st.auth_serv /\ s.trusted = st.trusted /\ s.nsdomain = st.nsdomain

\* The query goes on as before.
SameState(s, st) == SameServer(s, st) /\ s.state = st.state /\ s.open = st.open /\ s.asked = st.asked

LEMMA SameSpeech ==
  ASSUME NEW s, NEW st, SameServer(s, st)
  PROVE  (\A n : MaySpeakFor(s, n) <=> MaySpeakFor(st, n)) /\ \A adds : Allowed(s, adds) => Allowed(st, adds)
<1>1. \A n : MaySpeakFor(s, n) <=> MaySpeakFor(st, n)
  BY DEF SameServer, MaySpeakFor, NotForeignRoot, Trustworthy
<1>. QED BY <1>1 DEF Allowed

\* What comes of an answer.
Processed(r, st, name) ==
  /\ r.rv \in {"OK", "NAMEERR", "SERVFAIL"} /\ SameState(r.st, st) /\ Allowed(st, r.adds)
  /\ r.rv = "OK" => IsStored(r.ent) /\ r.ent.qname = name /\ Pairs(r.ns)

LEMMA NothingAllowed == ASSUME NEW st PROVE Allowed(st, <<>>)
BY NoList DEF Allowed

LEMMA UselessProcessed ==
  ASSUME NEW st, DOMAIN st = QueryFields, NEW name PROVE Processed(Useless(st, "SERVFAIL"), st, name)
BY NothingAllowed DEF Processed, Useless, SameState, SameServer

LEMMA UsableProcessed ==
  ASSUME NEW st, DOMAIN st = QueryFields, NEW ent, IsStored(ent), NEW name, ent.qname = name, NEW ns, Pairs(ns),
         NEW secs, Sections(secs, name), NEW negAns, NEW rejected
  PROVE  Processed(Usable(st, ent, ns, secs, negAns, rejected), st, name)
<1>. DEFINE adds == IF st.failed = 0 /\ ~rejected THEN Additional(st, secs, negAns) ELSE <<>>
            r == [rv |-> "OK", st |-> st, ent |-> ent, ns |-> ns, adds |-> adds]
<1>1. Allowed(st, adds)
  BY NothingAllowed, AdditionalAllowed
<1>2. Usable(st, ent, ns, secs, negAns, rejected) \in {Useless(st, "SERVFAIL"), r}
  BY DEF Usable
<1>. HIDE DEF adds
<1>3. Processed(r, st, name)
  BY <1>1 DEF Processed, SameState, SameServer
<1>. HIDE DEF r
<1>. QED BY <1>2, <1>3, UselessProcessed

LEMMA NameErrorProcessed ==
  ASSUME NEW st, DOMAIN st = QueryFields, NEW secs, NEW name, Sections(secs, name), NEW rejected
  PROVE  Processed(NameError(st, secs, rejected), st, name)
<1>. DEFINE ent == secs[1][1]  negated == NegateCent(ent, NameErrorTtl(ent, secs[2]))
            kept == IF st.nocache THEN [negated EXCEPT !.flags = @ \union {"NOCACHE"}] ELSE negated
            adds == IF st.failed = 0 /\ ~rejected THEN Additional(st, secs, TRUE) ELSE <<>>
            r == [rv |-> "NAMEERR", st |-> st, ent |-> ent, ns |-> <<>>, adds |-> adds]
<1>1. IsStored(ent) /\ ent.qname = name
  <2>1. 1 \in 1..Len(secs[1])
    BY Lists DEF Sections, Entries, Headed
  <2>. QED BY <2>1, Lists DEF Sections, Entries, Headed
<1>2. Allowed(st, adds)
  BY NothingAllowed, AdditionalAllowed
<1>3. NameError(st, secs, rejected) \in {Usable(st, kept, <<>>, secs, TRUE, rejected), r}
  BY DEF NameError
<1>. HIDE DEF ent, adds
<1>4. IsStored(negated) /\ negated.qname = name
  BY <1>1, Negated
<1>. HIDE DEF negated
<1>5. IsStored(kept) /\ kept.qname = name
  BY <1>4, FlagAdded
<1>6. Processed(r, st, name)
  BY <1>2 DEF Processed, SameState, SameServer
<1>. HIDE DEF kept, r
<1>7. Pairs(<<>>)
  BY NoList DEF Pairs
<1>8. Processed(Usable(st, kept, <<>>, secs, TRUE, rejected), st, name)
  <2>. DEFINE none == <<>>
  <2>1. Pairs(none)
    BY <1>7
  <2>. HIDE DEF none
  <2>2. Processed(Usable(st, kept, none, secs, TRUE, rejected), st, name)
    BY <1>5, <2>1, UsableProcessed
  <2>. QED BY <2>2 DEF none
<1>. QED BY <1>3, <1>6, <1>8

LEMMA NegativeSetPerhaps ==
  ASSUME NEW st, NEW m, NEW e, IsStored(e), NEW auth, NEW thint
  PROVE  IsStored(WithNegativeSet(st, m, e, auth, thint)) /\ WithNegativeSet(st, m, e, auth, thint).qname = e.qname
<1>1. \/ WithNegativeSet(st, m, e, auth, thint) = e
      \/ \E ttl, flags : WithNegativeSet(st, m, e, auth, thint) = AddNegativeSet(e, thint, ttl, flags)
  BY DEF WithNegativeSet
<1>. QED BY <1>1, NegativeSetAdded

LEMMA JudgeProcessed ==
  ASSUME NEW st, DOMAIN st = QueryFields, NEW m, NEW rcode, NEW name, NEW thint, NEW secs, Sections(secs, name)
  PROVE  Processed(Judge(st, m, rcode, name, thint, secs), st, name)
<1>. DEFINE rejected == Rejected(st, secs)  verdict == Verdict(st, rcode, name, secs, rejected)
            ent == secs[1][1]  e == WithNegativeSet(st, m, ent, secs[2], thint)
            ns == NameServers(st, secs)  neg == DOMAIN ent.sets = {}
<1>1. verdict \in {"no name", "useless", "usable"}
  BY DEF Verdict
<1>2. Judge(st, m, rcode, name, thint, secs) = Pronounced(st, m, thint, secs, rejected, verdict)
  BY DEF Judge
<1>3. IsStored(ent) /\ ent.qname = name
  <2>1. 1 \in 1..Len(secs[1])
    BY Lists DEF Sections, Entries, Headed
  <2>. QED BY <2>1, Lists DEF Sections, Entries, Headed
<1>. HIDE DEF rejected, verdict
<1>4. Pronounced(st, m, thint, secs, rejected, verdict) \in
        {NameError(st, secs, rejected), Useless(st, "SERVFAIL"), Usable(st, e, ns, secs, neg, rejected)}
  BY <1>1 DEF Pronounced
<1>. HIDE DEF ent
<1>5. IsStored(e) /\ e.qname = name
  BY <1>3, NegativeSetPerhaps
<1>. HIDE DEF e, neg
<1>6. Pairs(ns)
  BY NameServersFound
<1>. HIDE DEF ns
<1>7. Processed(Usable(st, e, ns, secs, neg, rejected), st, name)
  BY <1>5, <1>6, UsableProcessed
<1>8. Processed(NameError(st, secs, rejected), st, name) /\ Processed(Useless(st, "SERVFAIL"), st, name)
  BY NameErrorProcessed, UselessProcessed
<1>. QED BY <1>2, <1>4, <1>7, <1>8

LEMMA ProcessedBySame ==
  ASSUME NEW r, NEW s, NEW st, NEW name, SameState(s, st), Processed(r, s, name) PROVE Processed(r, st, name)
<1>1. \A adds : Allowed(s, adds) => Allowed(st, adds)
  BY SameSpeech DEF SameState
<1>. QED BY <1>1 DEF Processed, SameState, SameServer

\* Whatever a server sends: what is made of it can be stored, and what goes to the cache besides the
\* answer is what the server may speak for.
LEMMA ProcessSound ==
  ASSUME NEW st, DOMAIN st = QueryFields, NEW m, IsMessage(m), m.header, NEW name, NEW thint, NEW rd
  PROVE  Processed(Process(st, m, name, thint, rd), st, name)
<1>. DEFINE qtype == IF st.lean THEN thint ELSE "ALL"
            seen == [st EXCEPT !.aa = m.aa /\ st.failed = 0, !.tc = m.tc, !.ra = rd /\ m.ra]
            read == ReadSections(st, m, name, qtype)
            s == Marked(seen, read)
            secs == <<WithCuts(s, read.secs[1], read.secs[2], qtype), read.secs[2], read.secs[3]>>
            rcode == IF Extended(read) THEN "EXT" ELSE m.rcode
<1>1. Process(st, m, name, thint, rd) \in
        {Useless(st, "SERVFAIL"), Useless(s, "SERVFAIL"), Judge(s, m, rcode, name, thint, secs)}
  BY DEF Process, Parsed, Understood
<1>2. SameState(seen, st)
  BY DEF SameState, SameServer, QueryFields
<1>. HIDE DEF qtype, seen
<1>3. Sections(read.secs, name)
  BY SectionsRead
<1>. HIDE DEF read
<1>4. SameState(s, st)
  <2>1. SameState([seen EXCEPT !.failed = 1], st)
    BY <1>2 DEF SameState, SameServer, QueryFields
  <2>. QED BY <1>2, <2>1 DEF Marked
<1>. HIDE DEF s, rcode
<1>5. Sections(secs, name)
  <2>. DEFINE first == WithCuts(s, read.secs[1], read.secs[2], qtype)
  <2>1. Entries(first) /\ Headed(first, name)
    BY <1>3, CutsAdded DEF Sections
  <2>. HIDE DEF first
  <2>2. Sections(<<first, read.secs[2], read.secs[3]>>, name)
    BY <2>1, <1>3 DEF Sections
  <2>. QED BY <2>2 DEF first
<1>. HIDE DEF secs
<1>6. DOMAIN s = QueryFields
  BY <1>4 DEF SameState, SameServer
<1>7. Processed(Judge(s, m, rcode, name, thint, secs), s, name) /\ Processed(Useless(s, "SERVFAIL"), s, name)
  BY <1>5, <1>6, JudgeProcessed, UselessProcessed
<1>. QED BY <1>1, <1>4, <1>7, ProcessedBySame, UselessProcessed

-----------------------------------------------------------------------------
(* The cache. *)

Stored(c) == \A n \in DOMAIN c : IsStored(c[n])

LEMMA SetAdjusted == ASSUME NEW s, NEW t, IsSetOf(s, t) PROVE IsSetOf(Adjusted(s), t)
<1>1. DOMAIN Adjusted(s) = DOMAIN s /\ Adjusted(s).rrs = s.rrs
  BY DEF IsSetOf, Adjusted
<1>. QED BY <1>1 DEF IsSetOf

LEMMA CentAdjusted == ASSUME NEW e, IsStored(e) PROVE IsStored(AdjustedCent(e))
<1>. DEFINE a == Adjusted(e)  s == [t \in DOMAIN e.sets |-> Adjusted(e.sets[t])]  g == [a EXCEPT !.sets = s]
<1>1. DOMAIN e = EntryFields /\ IsFiniteSet(DOMAIN e.sets) /\ \A t \in DOMAIN e.sets : IsSetOf(e.sets[t], t)
  BY StoredIs
<1>2. DOMAIN a = EntryFields
  BY <1>1 DEF Adjusted, EntryFields
<1>3. DOMAIN s = DOMAIN e.sets /\ \A t \in DOMAIN s : IsSetOf(s[t], t)
  BY <1>1, SetAdjusted
<1>4. AdjustedCent(e) = g
  BY DEF AdjustedCent
<1>. HIDE DEF a, s
<1>5. DOMAIN g = DOMAIN e /\ g.sets = s
  BY <1>1, <1>2 DEF EntryFields
<1>. HIDE DEF g
<1>. QED BY <1>1, <1>3, <1>4, <1>5, OtherSets

LEMMA SetMerged ==
  ASSUME NEW e, IsStored(e), NEW new, NEW t, IsSetOf(new, t)
  PROVE  IsStored(MergeSet(e, new, t))
<1>. DEFINE others == [u \in DOMAIN e.sets \ {t} |-> e.sets[u]]
            old == [e EXCEPT !.sets = others]
            rivals == IF "NEGATIVE" \in new.flags THEN {} ELSE Rivals(old, t)
            rest == [u \in DOMAIN others \ rivals |-> others[u]]
            s == Over([u \in {t} |-> Adjusted(new)], rest)
            g == [e EXCEPT !.sets = s]
<1>1. DOMAIN e = EntryFields /\ IsFiniteSet(DOMAIN e.sets) /\ \A u \in DOMAIN e.sets : IsSetOf(e.sets[u], u)
  BY StoredIs
<1>2. MergeSet(e, new, t) \in {e, old, g}
  BY DEF MergeSet
<1>3. DOMAIN others \subseteq DOMAIN e.sets /\ \A u \in DOMAIN others : IsSetOf(others[u], u)
  BY <1>1
<1>. HIDE DEF others
<1>4. DOMAIN old = DOMAIN e /\ old.sets = others
  BY <1>1 DEF EntryFields
<1>. HIDE DEF old
<1>5. IsFiniteSet(DOMAIN others)
  BY <1>1, <1>3, FS_Subset
<1>6. IsStored(old)
  BY <1>3, <1>4, <1>5, OtherSets
<1>. HIDE DEF rivals
<1>7. DOMAIN rest \subseteq DOMAIN others /\ \A u \in DOMAIN rest : IsSetOf(rest[u], u)
  BY <1>3
<1>. HIDE DEF rest
<1>8. IsFiniteSet(DOMAIN rest)
  BY <1>5, <1>7, FS_Subset
<1>9. IsFiniteSet(DOMAIN s) /\ \A u \in DOMAIN s : IsSetOf(s[u], u)
  <2>. DEFINE set == Adjusted(new)
  <2>1. IsSetOf(set, t)
    BY SetAdjusted
  <2>2. s = Over([u \in {t} |-> set], rest)
    OBVIOUS
  <2>. HIDE DEF set, s
  <2>. QED BY <2>1, <2>2, <1>7, <1>8, OneOver
<1>. HIDE DEF s
<1>10. DOMAIN g = DOMAIN e /\ g.sets = s
  BY <1>1 DEF EntryFields
<1>. HIDE DEF g
<1>11. IsStored(g)
  BY <1>9, <1>10, OtherSets
<1>. QED BY <1>2, <1>6, <1>11

MergeOp(ent, y, z, e, t) == MergeSet(e, ent.sets[t], t)
MergeGood(x, y, z, base, k, e) == IsStored(e)
Merge == INSTANCE FoldFacts WITH Op <- MergeOp, Good <- MergeGood

LEMMA SetsMerged ==
  ASSUME NEW old, IsStored(old), NEW ent, IsStored(ent)
  PROVE  IsStored(FoldLeft(LAMBDA e, t : MergeSet(e, ent.sets[t], t), old, SetToSeq(DOMAIN ent.sets)))
<1>. DEFINE s == SetToSeq(DOMAIN ent.sets)  p == Merge!Folded(ent, 0, 0, old, s)
<1>1. IsFiniteSet(DOMAIN ent.sets) /\ \A t \in DOMAIN ent.sets : IsSetOf(ent.sets[t], t)
  BY StoredIs
<1>2. IsList(s) /\ ToSet(s) \subseteq DOMAIN ent.sets
  BY <1>1, SetListed
<1>. HIDE DEF s
<1>3. Len(s) \in Nat /\ DOMAIN s = 1..Len(s) /\ \A k \in 1..Len(s) : IsSetOf(ent.sets[s[k]], s[k])
  BY <1>1, <1>2, Lists
<1>4. \A k \in 1..Len(s) : \A e : MergeGood(ent, 0, 0, old, k - 1, e)
                                    => MergeGood(ent, 0, 0, old, k, MergeOp(ent, 0, 0, e, s[k]))
  BY <1>3, SetMerged DEF MergeGood, MergeOp
<1>5. MergeGood(ent, 0, 0, old, 0, old)
  BY DEF MergeGood
<1>6. MergeGood(ent, 0, 0, old, Len(s), p)
  BY <1>3, <1>4, <1>5, Merge!FoldKeeps
<1>7. p = FoldLeft(LAMBDA e, t : MergeSet(e, ent.sets[t], t), old, s)
  BY DEF Merge!Folded, Merge!FoldLeft, Merge!MapThenFoldSet, FoldLeft, MapThenFoldSet, MergeOp, Max, Merge!Max
<1>. QED BY <1>6, <1>7 DEF MergeGood, s

\* What a name has in the cache is what it had, or is new.
Untouched(c, before, n) == n \in DOMAIN before /\ c[n] = before[n]

LEMMA EntryAdded ==
  ASSUME NEW c, Stored(c), NEW ent, IsStored(ent)
  PROVE  /\ Stored(AddCache(c, ent))
         /\ \A n \in DOMAIN AddCache(c, ent) : n = ent.qname \/ Untouched(AddCache(c, ent), c, n)
<1>. DEFINE n == ent.qname  old == c[n]  r == AddCache(c, ent)
            merged == FoldLeft(LAMBDA e, t : MergeSet(e, ent.sets[t], t), old, SetToSeq(DOMAIN ent.sets))
            g == [merged EXCEPT
                        !.flags = (@ \union (ent.flags \intersect {"AUTH", "WILD"}))
                                  \ (IF DOMAIN merged.sets = {} THEN {} ELSE {"NEGATIVE", "OLD"}),
                        !.c_ns = Greater(@, ent.c_ns), !.c_soa = Greater(@, ent.c_soa)]
            a == AdjustedCent(ent)
<1>1. \/ r = c \/ r = Over([u \in {n} |-> a], c)
      \/ n \in DOMAIN c /\ r = Over([u \in {n} |-> g], c)
  BY DEF AddCache
<1>2. IsStored(a)
  BY CentAdjusted
<1>3. n \in DOMAIN c => IsStored(g)
  <2>1. SUFFICES ASSUME n \in DOMAIN c PROVE IsStored(g)
    OBVIOUS
  <2>2. IsStored(old)
    BY <2>1 DEF Stored
  <2>3. IsStored(merged)
    <3>. HIDE DEF old
    <3>. QED BY <2>2, SetsMerged
  <2>. HIDE DEF merged
  <2>4. DOMAIN merged = EntryFields
    BY <2>3, StoredIs
  <2>5. DOMAIN g = DOMAIN merged /\ g.sets = merged.sets
    BY <2>4 DEF EntryFields
  <2>. HIDE DEF g
  <2>. QED BY <2>3, <2>5, SameSets
<1>. HIDE DEF a, g, r, n
<1>4. ASSUME NEW e, IsStored(e), r = Over([u \in {n} |-> e], c)
      PROVE  Stored(r) /\ \A k \in DOMAIN r : k = n \/ Untouched(r, c, k)
  <2>1. /\ DOMAIN r = {n} \union DOMAIN c /\ r[n] = e
        /\ \A k \in DOMAIN c \ {n} : r[k] = c[k]
    BY <1>4 DEF Over
  <2>. QED BY <2>1, <1>4 DEF Stored, Untouched
<1>5. CASE r = c
  BY <1>5 DEF Stored, Untouched, r, n
<1>6. Stored(r) /\ \A k \in DOMAIN r : k = n \/ Untouched(r, c, k)
  BY <1>1, <1>2, <1>3, <1>4, <1>5 DEF Untouched
<1>. QED BY <1>6 DEF r, n

AddOp(x, y, z, c, ent) == AddCache(c, ent)
AddGood(adds, y, z, base, k, c) ==
  Stored(c) /\ \A n \in DOMAIN c : Untouched(c, base, n) \/ \E e \in ToSet(adds) : e.qname = n
Add == INSTANCE FoldFacts WITH Op <- AddOp, Good <- AddGood

LEMMA EntriesAdded ==
  ASSUME NEW c, Stored(c), NEW adds, Entries(adds)
  PROVE  /\ Stored(AddAll(c, adds))
         /\ \A n \in DOMAIN AddAll(c, adds) :
              Untouched(AddAll(c, adds), c, n) \/ \E e \in ToSet(adds) : e.qname = n
<1>. DEFINE p == Add!Folded(adds, 0, 0, c, adds)
<1>1. Len(adds) \in Nat /\ DOMAIN adds = 1..Len(adds) /\ \A k \in 1..Len(adds) : adds[k] \in ToSet(adds) /\ IsStored(adds[k])
  BY Lists DEF Entries
<1>2. AddGood(adds, 0, 0, c, 0, c)
  BY DEF AddGood, Untouched
<1>3. ASSUME NEW k \in 1..Len(adds), NEW a, AddGood(adds, 0, 0, c, k - 1, a)
      PROVE  AddGood(adds, 0, 0, c, k, AddOp(adds, 0, 0, a, adds[k]))
  <2>. DEFINE r == AddCache(a, adds[k])
  <2>1. Stored(r) /\ \A n \in DOMAIN r : n = adds[k].qname \/ Untouched(r, a, n)
    BY <1>1, <1>3, EntryAdded DEF AddGood
  <2>. HIDE DEF r
  <2>2. ASSUME NEW n \in DOMAIN r PROVE Untouched(r, c, n) \/ \E e \in ToSet(adds) : e.qname = n
    BY <1>1, <1>3, <2>1 DEF AddGood, Untouched
  <2>. QED BY <2>1, <2>2 DEF AddGood, AddOp, r
<1>4. AddGood(adds, 0, 0, c, Len(adds), p)
  BY <1>1, <1>2, <1>3, Add!FoldKeeps
<1>5. p = AddAll(c, adds)
  BY DEF AddAll, Add!Folded, Add!FoldLeft, Add!MapThenFoldSet, FoldLeft, MapThenFoldSet, AddOp, Max, Add!Max
<1>. QED BY <1>4, <1>5 DEF AddGood

Perhaps(e) == e = Nothing \/ IsStored(e)

LEMMA Gotten == ASSUME NEW c, Stored(c), NEW n PROVE Perhaps(Get(c, n))
BY DEF Stored, Get, Perhaps

LEMMA AddressesListed == ASSUME NEW e, Perhaps(e) PROVE IsList(Addresses(e))
<1>1. CASE Addresses(e) = <<>>
  BY <1>1, NoList
<1>2. CASE e # Nothing /\ HaveRr(e, "A")
  <2>. DEFINE rrs == e.sets["A"].rrs  n == Min({Len(rrs), MAXNAMESERVIPS})  f == [k \in 1..n |-> rrs[k][1].v]
  <2>1. IsList(rrs)
    BY <1>2, StoredIs DEF Perhaps, HaveRr, Has, IsSetOf
  <2>2. Addresses(e) = f
    BY <1>2 DEF Addresses
  <2>. HIDE DEF rrs
  <2>3. Len(rrs) \in Nat
    BY <2>1, Lists
  <2>4. n \in Nat
    BY <2>3, Minimum, AddressesAssumption
  <2>. HIDE DEF n
  <2>5. IsList(f)
    BY <2>4, Mapped
  <2>. QED BY <2>2, <2>5
<1>. QED BY <1>1, <1>2 DEF Addresses

LEMMA NewOnesListed == ASSUME NEW l, IsList(l), NEW new, IsList(new) PROVE IsList(AddNewOnes(l, new))
<1>. DEFINE a == Among(new, {x \in ToSet(new) : ~Contains(l, x)})
<1>1. IsList(a)
  BY Filtered
<1>. HIDE DEF a
<1>2. IsList(l \o a)
  BY <1>1, Joined
<1>. QED BY <1>2 DEF AddNewOnes, a

LEMMA ServerAddressesListed == ASSUME NEW c, Stored(c), NEW d PROVE IsList(ServerAddresses(c, d))
<1>1. ServerAddresses(c, d) \in {Addresses(Get(c, d[1].v)), <<>>}
  BY DEF ServerAddresses
<1>. QED BY <1>1, Gotten, AddressesListed, NoList

NsOp(c, y, z, l, d) == AddNewOnes(l, ServerAddresses(c, d))
NsGood(x, y, z, base, k, l) == IsList(l)
Ns == INSTANCE FoldFacts WITH Op <- NsOp, Good <- NsGood

LEMMA NsListed == ASSUME NEW c, Stored(c), NEW domain PROVE IsList(LookupNs(c, domain))
<1>. DEFINE ent == Get(c, domain)  rrs == ent.sets["NS"].rrs  p == Ns!Folded(c, 0, 0, <<>>, rrs)
<1>1. CASE LookupNs(c, domain) = <<>>
  BY <1>1, NoList
<1>2. CASE LookupNs(c, domain) # <<>>
  <2>1. /\ ent # Nothing /\ Has(ent, "NS")
        /\ LookupNs(c, domain) = FoldLeft(LAMBDA l, d : AddNewOnes(l, ServerAddresses(c, d)), <<>>, rrs)
    BY <1>2 DEF LookupNs
  <2>2. Perhaps(ent)
    BY Gotten
  <2>. HIDE DEF ent
  <2>3. IsList(rrs)
    BY <2>1, <2>2, StoredIs DEF Perhaps, Has, IsSetOf
  <2>. HIDE DEF rrs
  <2>4. Len(rrs) \in Nat /\ DOMAIN rrs = 1..Len(rrs)
    BY <2>3, Lists
  <2>5. \A k \in 1..Len(rrs) : \A l : NsGood(c, 0, 0, <<>>, k - 1, l) => NsGood(c, 0, 0, <<>>, k, NsOp(c, 0, 0, l, rrs[k]))
    BY ServerAddressesListed, NewOnesListed DEF NsGood, NsOp
  <2>6. NsGood(c, 0, 0, <<>>, 0, <<>>)
    BY NoList DEF NsGood
  <2>7. NsGood(c, 0, 0, <<>>, Len(rrs), p)
    BY <2>4, <2>5, <2>6, Ns!FoldKeeps
  <2>8. p = LookupNs(c, domain)
    BY <2>1 DEF Ns!Folded, Ns!FoldLeft, Ns!MapThenFoldSet, FoldLeft, MapThenFoldSet, NsOp, Max, Ns!Max
  <2>. QED BY <2>7, <2>8 DEF NsGood
<1>. QED BY <1>1, <1>2

LEMMA StatusFound ==
  ASSUME NEW c, Stored(c), NEW name, IsList(name), NEW type
  PROVE  LET s == LookupCacheStatus(c, name, type)
         IN  /\ Perhaps(s.ent)
             /\ s.rc \in {"OK", "CACHED"} => IsStored(s.ent)
             /\ s.rc \in {"OK", "CACHED", "NAMEERR", "STALE", "NOTCACHED"}
<1>. DEFINE found == LookupWild(c, name)  ent == found.ent
            s == StatusOf(c, ent, type, found.locnerr)
<1>1. Perhaps(ent)
  <2>. DEFINE ups == Ancestors(c, name)  nm == Upper(name, Max(ups))
  <2>1. ASSUME ups # {} PROVE nm \in DOMAIN c
    <3>1. Len(name) \in Nat
      BY Lists
    <3>2. \A k \in ups : k \in 1..Len(name)
      BY <3>1 DEF Ancestors
    <3>3. Max(ups) \in ups
      <4>. HIDE DEF ups
      <4>. QED BY <2>1, <3>1, <3>2, Filter!MaxExists DEF Filter!Max, Max
    <3>. QED BY <3>3 DEF Ancestors
  <2>2. found \in {[ent |-> Get(c, name), locnerr |-> FALSE], [ent |-> c[nm], locnerr |-> FALSE],
                   [ent |-> Get(c, <<"*">> \o nm), locnerr |-> FALSE],
                   [ent |-> IF "LOCAL" \in c[nm].flags THEN c[nm] ELSE Nothing, locnerr |-> "LOCAL" \in c[nm].flags]}
    BY DEF LookupWild
  <2>3. ups # {} \/ found = [ent |-> Get(c, name), locnerr |-> FALSE]
    BY DEF LookupWild
  <2>4. ent \in {Get(c, name), Get(c, <<"*">> \o nm), Nothing} \/ (ups # {} /\ ent = c[nm])
    <3>. HIDE DEF ups, nm, found
    <3>. QED BY <2>2, <2>3
  <2>. HIDE DEF ups, nm, ent
  <2>. QED BY <2>1, <2>4, Gotten DEF Stored, Perhaps
<1>. HIDE DEF ent
<1>2. s.ent \in {ent, Nothing} /\ (s.rc \in {"OK", "CACHED"} => s.ent = ent /\ ent # Nothing)
      /\ s.rc \in {"OK", "CACHED", "NAMEERR", "STALE", "NOTCACHED"}
  BY DEF StatusOf, Status, SetsStatus, Freshness
<1>3. LookupCacheStatus(c, name, type) = s
  BY DEF LookupCacheStatus, ent
<1>. QED BY <1>1, <1>2, <1>3 DEF Perhaps

-----------------------------------------------------------------------------
(* A query to a server. *)

Tidy(st) ==
  IF st.state \in Waiting THEN st.open = TRUE /\ st.asked = TRUE ELSE st.open = FALSE /\ st.asked = FALSE
Resumes(st) == st.state \in {"TCPINITIAL", "UDPINITIAL"} /\ st.open = FALSE /\ st.asked = TRUE
Active(st) == (Tidy(st) /\ st.state \in {"INITIAL"} \union Waiting) \/ Resumes(st)

Asked(s, st) == SameServer(s, st) /\ s.asked = TRUE

\* What may come of p_query_sm().
Sm(o, st) ==
  /\ Asked(o.st, st) /\ o.rv \in {"AGAIN", "SERVFAIL", "FATALERR", "OK"}
  /\ o.rv = "AGAIN" => o.st.state \in Waiting /\ o.st.open = TRUE
  /\ o.rv # "AGAIN" => o.st.state = "DONE" /\ o.st.open = FALSE
  /\ o.rv = "OK" => IsMessage(o.m)

LEMMA AgainSound ==
  ASSUME NEW st, NEW s, Asked(s, st), s.state \in Waiting, s.open = TRUE, NEW o \in Again(s) PROVE Sm(o, st)
BY DEF Sm, Again

LEMMA EndedSound ==
  ASSUME NEW st, NEW s, Asked(s, st), NEW rv, NEW m, rv \in {"SERVFAIL", "FATALERR"} \/ (rv = "OK" /\ IsMessage(m)),
         NEW o \in Ended(s, rv, m)
  PROVE  Sm(o, st)
<1>. DEFINE g == [s EXCEPT !.state = "DONE", !.open = FALSE]
<1>1. Asked(g, st) /\ g.state = "DONE" /\ g.open = FALSE
  BY DEF Asked, SameServer, QueryFields
<1>2. o = [rv |-> rv, st |-> g, m |-> m]
  BY DEF Ended
<1>. HIDE DEF g
<1>. QED BY <1>1, <1>2 DEF Sm

LEMMA FailsSound == ASSUME NEW st, NEW s, Asked(s, st), NEW o \in Fails(s) PROVE Sm(o, st)
BY EndedSound DEF Fails

LEMMA ErrorsSound == ASSUME NEW st, NEW s, Asked(s, st), NEW e PROVE Asked([s EXCEPT !.errno = e], st)
BY DEF Asked, SameServer, QueryFields

LEMMA MemorySound == ASSUME NEW st, NEW s, Asked(s, st), NEW o \in OutOfMemory(s) PROVE Sm(o, st)
BY EndedSound DEF OutOfMemory

LEMMA UdpInitialSound ==
  ASSUME NEW st, NEW s, Asked(s, st), NEW busy, NEW o \in UdpInitial(s, busy) PROVE Sm(o, st)
<1>. DEFINE g == [s EXCEPT !.state = "UDPRECEIVE", !.open = TRUE]
<1>1. Asked(g, st) /\ g.state \in Waiting /\ g.open = TRUE
  BY DEF Asked, SameServer, QueryFields, Waiting
<1>2. o \in Fails(s) \/ o \in Again(g) \/ \E e : o \in Fails([s EXCEPT !.errno = e])
  BY DEF UdpInitial, NoSocket
<1>. HIDE DEF g
<1>. QED BY <1>1, <1>2, FailsSound, AgainSound, ErrorsSound

LEMMA UdpReceiveSound ==
  ASSUME NEW st, NEW s, Asked(s, st), s.state \in Waiting, s.open = TRUE, NEW query, NEW o \in UdpReceive(s, query)
  PROVE  Sm(o, st)
<1>1. \/ o \in OutOfMemory(s) \/ o \in Again(s)
      \/ \E e : o \in Fails([s EXCEPT !.errno = e])
      \/ \E m : IsMessage(m) /\ o \in Ended(s, "OK", m)
  BY DEF UdpReceive, Received
<1>. QED BY <1>1, MemorySound, AgainSound, FailsSound, ErrorsSound, EndedSound

LEMMA TcpFailedSound ==
  ASSUME NEW st, NEW s, Asked(s, st), NEW busy, NEW o \in TcpFailed(s, busy) PROVE Sm(o, st)
<1>1. Asked(SwitchToUdp(s), st)
  BY DEF Asked, SameServer, QueryFields, SwitchToUdp
<1>2. o \in UdpInitial(SwitchToUdp(s), busy) \/ o \in Fails(s)
  BY DEF TcpFailed
<1>. QED BY <1>1, <1>2, UdpInitialSound, FailsSound

LEMMA TcpReadSound ==
  ASSUME NEW st, NEW s, Asked(s, st), s.state \in Waiting, s.open = TRUE, NEW query, NEW busy,
         NEW o \in TcpRead(s, query, busy)
  PROVE  Sm(o, st)
<1>. DEFINE g == [s EXCEPT !.io = TRUE]
<1>1. Asked(g, st) /\ g.state \in Waiting /\ g.open = TRUE
  BY DEF Asked, SameServer, QueryFields
<1>2. \/ o \in Again(s) \/ o \in Again(g) \/ o \in OutOfMemory(g)
      \/ o \in TcpFailed(s, busy) \/ o \in TcpFailed(g, busy)
      \/ \E e : o \in TcpFailed([s EXCEPT !.errno = e], busy)
      \/ \E m : IsMessage(m) /\ o \in Ended(g, "OK", m)
  BY DEF TcpRead, Received, Slow
<1>. HIDE DEF g
<1>. QED BY <1>1, <1>2, MemorySound, AgainSound, TcpFailedSound, ErrorsSound, EndedSound

LEMMA TcpWriteSound ==
  ASSUME NEW st, NEW s, Asked(s, st), s.state \in Waiting, s.open = TRUE, NEW query, NEW busy,
         NEW o \in TcpWrite(s, query, busy)
  PROVE  Sm(o, st)
<1>. DEFINE g == [s EXCEPT !.io = TRUE]  h == [s EXCEPT !.state = "TCPREAD", !.io = FALSE]
<1>1. Asked(g, st) /\ g.state \in Waiting /\ g.open = TRUE
  BY DEF Asked, SameServer, QueryFields
<1>2. Asked(h, st) /\ h.state \in Waiting /\ h.open = TRUE
  BY DEF Asked, SameServer, QueryFields, Waiting
<1>3. \/ o \in Again(s) \/ o \in Again(g) \/ o \in Again(h) \/ o \in TcpRead(h, query, busy)
      \/ \E e : o \in TcpFailed([s EXCEPT !.errno = e], busy) \/ o \in Fails([s EXCEPT !.errno = e])
  BY DEF TcpWrite, Slow
<1>. HIDE DEF g, h
<1>. QED BY <1>1, <1>2, <1>3, AgainSound, TcpFailedSound, FailsSound, ErrorsSound, TcpReadSound

LEMMA TcpInitialSound ==
  ASSUME NEW st, NEW s, Asked(s, st), NEW query, NEW busy, NEW o \in TcpInitial(s, query, busy)
  PROVE  Sm(o, st)
<1>. DEFINE g == [s EXCEPT !.state = "TCPWRITE", !.open = TRUE, !.io = FALSE]  h == [s EXCEPT !.errno = "refused"]
<1>1. Asked(g, st) /\ g.state \in Waiting /\ g.open = TRUE
  BY DEF Asked, SameServer, QueryFields, Waiting
<1>2. Asked(h, st)
  BY ErrorsSound
<1>3. o \in Fails(s) \/ o \in Again(g) \/ o \in TcpWrite(g, query, busy) \/ o \in TcpFailed(h, busy)
  BY DEF TcpInitial, NoSocket
<1>. HIDE DEF g, h
<1>. QED BY <1>1, <1>2, <1>3, AgainSound, TcpFailedSound, FailsSound, TcpWriteSound

LEMMA SmSound ==
  ASSUME NEW st, NEW s, Asked(s, st), NEW query, NEW busy,
         s.state \in {"TCPINITIAL", "UDPINITIAL"} \/ (s.state \in Waiting /\ s.open = TRUE),
         NEW o \in QuerySm(s, query, busy)
  PROVE  Sm(o, st)
<1>1. s.state \in {"TCPINITIAL", "UDPINITIAL", "TCPWRITE", "TCPREAD", "UDPRECEIVE"}
  BY DEF Waiting
<1>2. CASE s.state = "TCPINITIAL"
  BY <1>2, TcpInitialSound DEF QuerySm
<1>3. CASE s.state = "UDPINITIAL"
  BY <1>3, UdpInitialSound DEF QuerySm
<1>4. CASE s.state = "TCPWRITE"
  BY <1>4, TcpWriteSound DEF QuerySm, Waiting
<1>5. CASE s.state = "TCPREAD"
  BY <1>5, TcpReadSound DEF QuerySm, Waiting
<1>6. CASE s.state = "UDPRECEIVE"
  BY <1>6, UdpReceiveSound DEF QuerySm, Waiting
<1>. QED BY <1>1, <1>2, <1>3, <1>4, <1>5, <1>6

Verdicts == RCODES \union {"FATALERR"}
IsQuery(query) == query = Nothing \/ \E name, type : query = [name |-> name, type |-> type]

\* What may come of p_exec_query().
Sound(r, st, query) ==
  /\ SameServer(r.st, st) /\ r.rv \in {"AGAIN", "RETRY"} \union Verdicts /\ Allowed(st, r.adds)
  /\ r.rv = "AGAIN" => r.st.state \in Waiting /\ Tidy(r.st)
  /\ r.rv = "RETRY" => Resumes(r.st) /\ query # Nothing
  /\ r.rv \in Verdicts => r.st.state = "DONE" /\ Tidy(r.st)
  /\ r.rv = "OK" /\ query # Nothing => IsStored(r.ent) /\ r.ent.qname = query.name /\ Pairs(r.ns)

\* The end of a query.
LEMMA DiscardedSound ==
  ASSUME NEW st, NEW s, SameServer(s, st), s.open = FALSE, NEW query, NEW rv \in Verdicts, rv # "OK" \/ query = Nothing,
         NEW news
  PROVE  Sound(Discarded(rv, s, news), st, query)
<1>. DEFINE g == [s EXCEPT !.state = "DONE", !.asked = FALSE]
<1>1. SameServer(g, st) /\ g.state = "DONE" /\ Tidy(g)
  BY DEF SameServer, QueryFields, Tidy, Waiting
<1>2. Discarded(rv, s, news) = [rv |-> rv, st |-> g, ent |-> Nothing, ns |-> <<>>, adds |-> <<>>, news |-> news]
  BY DEF Discarded, NoReply
<1>3. rv \notin {"AGAIN", "RETRY"}
  BY DEF Verdicts, RCODES
<1>. HIDE DEF g
<1>. QED BY <1>1, <1>2, <1>3, NothingAllowed DEF Sound

LEMMA RestartedSound ==
  ASSUME NEW st, NEW s, Asked(s, st), s.open = FALSE, NEW query, query # Nothing, NEW news
  PROVE  Sound(Restarted(s, news), st, query)
<1>. DEFINE g == [s EXCEPT !.state = IF UseUdp(s) THEN "UDPINITIAL" ELSE "TCPINITIAL"]
<1>1. SameServer(g, st) /\ Resumes(g)
  BY DEF Asked, SameServer, QueryFields, Resumes
<1>2. Restarted(s, news) = [rv |-> "RETRY", st |-> g, ent |-> Nothing, ns |-> <<>>, adds |-> <<>>, news |-> news]
  BY DEF Restarted, NoReply
<1>3. "RETRY" \notin Verdicts
  BY DEF Verdicts, RCODES
<1>. HIDE DEF g
<1>. QED BY <1>1, <1>2, <1>3, NothingAllowed DEF Sound

LEMMA ReadSound ==
  ASSUME NEW st, NEW s, SameServer(s, st), s.open = FALSE, NEW m, IsMessage(m), m.header,
         NEW query, IsQuery(query), NEW news, NEW r \in Read(s, m, query, news)
  PROVE  Sound(r, st, query)
<1>. DEFINE g == [s EXCEPT !.state = "DONE", !.asked = FALSE]
            p == Process(g, m, query.name, query.type, s.rd)
<1>1. SameServer(g, st) /\ g.state = "DONE" /\ g.open = FALSE /\ g.asked = FALSE
  BY DEF SameServer, QueryFields
<1>2. m.rcode \in Verdicts /\ "FATALERR" \in Verdicts
  BY DEF IsMessage, Verdicts
<1>3. NoReply("FATALERR", g, news) = Discarded("FATALERR", s, news)
      /\ NoReply(m.rcode, g, news) = Discarded(m.rcode, s, news)
  BY DEF Discarded
<1>4. \/ query = Nothing /\ r = Discarded(m.rcode, s, news)
      \/ r = Discarded("FATALERR", s, news)
      \/ query # Nothing /\ r = With(p, news)
  BY <1>3 DEF Read
<1>. HIDE DEF g
<1>5. CASE query # Nothing /\ r = With(p, news)
  <2>1. Processed(p, g, query.name)
    BY <1>1, ProcessSound DEF SameServer
  <2>. HIDE DEF p
  <2>2. r.st = p.st /\ r.rv = p.rv /\ r.ent = p.ent /\ r.ns = p.ns /\ r.adds = p.adds
    BY <1>5 DEF With
  <2>3. SameState(p.st, g) /\ SameServer(p.st, st) /\ p.st.state = "DONE" /\ Tidy(p.st)
    BY <1>1, <2>1 DEF Processed, SameState, SameServer, Tidy, Waiting
  <2>4. Allowed(st, p.adds)
    BY <1>1, <2>1, SameSpeech DEF Processed
  <2>5. p.rv \in Verdicts /\ "AGAIN" \notin Verdicts /\ "RETRY" \notin Verdicts
    BY <2>1 DEF Processed, Verdicts, RCODES
  <2>. QED BY <2>1, <2>2, <2>3, <2>4, <2>5, <1>5 DEF Sound, Processed
<1>. QED BY <1>2, <1>4, <1>5, DiscardedSound

LEMMA AnsweredSound ==
  ASSUME NEW st, NEW s, Asked(s, st), s.open = FALSE, NEW m, IsMessage(m), m.header,
         NEW query, IsQuery(query), NEW news, NEW r \in Answered(s, m, query, news)
  PROVE  Sound(r, st, query)
<1>. DEFINE g == [s EXCEPT !.rd = FALSE]  h == WithoutEdns(s)  k == [s EXCEPT !.failed = 3]
<1>1. Asked(g, st) /\ g.open = FALSE /\ Asked(h, st) /\ h.open = FALSE /\ SameServer(k, st) /\ k.open = FALSE
      /\ SameServer(s, st)
  BY DEF Asked, SameServer, QueryFields, WithoutEdns
<1>2. \/ query # Nothing /\ (r = Restarted(g, news) \/ r = Restarted(h, news))
      \/ r \in Read(s, m, query, news) \/ r \in Read(k, m, query, news)
      \/ m.rcode \notin Succeeded /\ r = Discarded(m.rcode, s, news)
  BY DEF Answered
<1>3. m.rcode \in Verdicts /\ (m.rcode \notin Succeeded => m.rcode # "OK")
  BY DEF IsMessage, Verdicts, Succeeded
<1>. HIDE DEF g, h, k
<1>. QED BY <1>1, <1>2, <1>3, RestartedSound, ReadSound, DiscardedSound

LEMMA OutcomeSound ==
  ASSUME NEW st, NEW o, Sm(o, st), NEW query, IsQuery(query), NEW r \in Outcome(o, query)
  PROVE  Sound(r, st, query)
<1>1. CASE o.rv = "AGAIN"
  <2>1. r = [rv |-> "AGAIN", st |-> o.st, ent |-> Nothing, ns |-> <<>>, adds |-> <<>>, news |-> "none"]
    BY <1>1 DEF Outcome, NoReply
  <2>2. "AGAIN" \notin Verdicts
    BY DEF Verdicts, RCODES
  <2>. QED BY <1>1, <2>1, <2>2, NothingAllowed DEF Sm, Asked, Sound, Tidy
<1>2. CASE o.rv \in {"SERVFAIL", "FATALERR"}
  <2>. DEFINE g == [o.st EXCEPT !.testing = 0]
  <2>1. SameServer(g, st) /\ g.open = FALSE /\ SameServer(o.st, st) /\ o.st.open = FALSE
    BY <1>2 DEF Sm, Asked, SameServer, QueryFields
  <2>2. \E news : r \in {Discarded(o.rv, g, news), Discarded(o.rv, o.st, news)}
    BY <1>2 DEF Outcome, Failed
  <2>. HIDE DEF g
  <2>3. o.rv \in Verdicts /\ o.rv # "OK"
    BY <1>2 DEF Verdicts, RCODES
  <2>. QED BY <2>1, <2>2, <2>3, DiscardedSound
<1>3. CASE o.rv = "OK"
  <2>. DEFINE g == [o.st EXCEPT !.testing = 0]
  <2>1. Asked(g, st) /\ g.open = FALSE /\ SameServer(o.st, st) /\ o.st.open = FALSE /\ IsMessage(o.m)
    BY <1>3 DEF Sm, Asked, SameServer, QueryFields
  <2>2. \/ r = Discarded("SERVFAIL", o.st, "none")
        \/ o.m.header /\ \E news : r \in Answered(g, o.m, query, news)
    BY <1>3 DEF Outcome
  <2>. HIDE DEF g
  <2>3. "SERVFAIL" \in Verdicts
    BY DEF Verdicts, RCODES
  <2>. QED BY <2>1, <2>2, <2>3, DiscardedSound, AnsweredSound
<1>. QED BY <1>1, <1>2, <1>3 DEF Sm

LEMMA ExecSound ==
  ASSUME NEW st, DOMAIN st = QueryFields, Active(st), NEW query, IsQuery(query), NEW busy,
         NEW r \in Exec(st, query, busy)
  PROVE  Sound(r, st, query)
<1>. DEFINE s == IF st.state = "INITIAL" THEN Begun(st, query) ELSE st
<1>1. /\ Asked(s, st)
      /\ s.state \in {"TCPINITIAL", "UDPINITIAL"} \/ (s.state \in Waiting /\ s.open = TRUE)
  <2>1. CASE st.state = "INITIAL"
    BY <2>1 DEF Asked, SameServer, QueryFields, Begun
  <2>2. CASE st.state # "INITIAL"
    BY <2>2 DEF Asked, SameServer, Active, Tidy, Resumes
  <2>. QED BY <2>1, <2>2
<1>2. \/ st.state = "INITIAL" /\ r = NoReply("FATALERR", [st EXCEPT !.state = "DONE"], "none")
      \/ \E o \in QuerySm(s, query, busy) : r \in Outcome(o, query)
  BY DEF Exec
<1>. HIDE DEF s
<1>3. CASE st.state = "INITIAL" /\ r = NoReply("FATALERR", [st EXCEPT !.state = "DONE"], "none")
  <2>. DEFINE g == [st EXCEPT !.state = "DONE"]
  <2>1. SameServer(g, st) /\ g.state = "DONE" /\ Tidy(g)
    BY <1>3 DEF SameServer, QueryFields, Tidy, Waiting, Active, Resumes
  <2>. HIDE DEF g
  <2>2. r = [rv |-> "FATALERR", st |-> g, ent |-> Nothing, ns |-> <<>>, adds |-> <<>>, news |-> "none"]
    BY <1>3 DEF NoReply, g
  <2>3. "FATALERR" \in Verdicts
    BY DEF Verdicts
  <2>. QED BY <2>1, <2>2, <2>3, NothingAllowed DEF Sound
<1>. QED BY <1>1, <1>2, <1>3, SmSound, OutcomeSound

LEMMA CanceledTidy ==
  ASSUME NEW st, DOMAIN st = QueryFields, Active(st) \/ Tidy(st)
  PROVE  Tidy(Cancel(st)) /\ Cancel(st).open = FALSE /\ SameServer(Cancel(st), st)
<1>1. SameServer(Cancel(st), st)
  BY DEF SameServer, QueryFields, Cancel
<1>2. Tidy(Cancel(st)) /\ Cancel(st).open = FALSE
  BY DEF QueryFields, Cancel, Tidy, Active, Resumes, Waiting
<1>. QED BY <1>1, <1>2

\* Queries that nobody has sent.
Fresh(st) == DOMAIN st = QueryFields /\ st.state = "INITIAL" /\ Tidy(st)

LEMMA NewIsFresh ==
  ASSUME NEW addr, NEW flags, NEW nocache, NEW lean, NEW edns, NEW auth, NEW testing, NEW trusted, NEW nsdomain,
         NEW rejectlist, NEW qm
  PROVE  LET st == NewQuery(addr, flags, nocache, lean, edns, auth, testing, trusted, nsdomain, rejectlist, qm)
         IN  Fresh(st) /\ st.auth_serv = auth /\ st.trusted = trusted /\ st.nsdomain = nsdomain
BY DEF NewQuery, Fresh, QueryFields, Tidy, Waiting

-----------------------------------------------------------------------------
(* Names. *)

LEMMA Uppers ==
  ASSUME NEW n, IsList(n), NEW k \in 0..Len(n)
  PROVE  /\ IsList(Upper(n, k)) /\ Len(Upper(n, k)) = k
         /\ \A i \in 1..k : Upper(n, k)[i] = n[Len(n) - k + i]
<1>1. n \in Seq(ToSet(n)) /\ Len(n) \in Nat /\ \A i \in 1..Len(n) : n[i] \in ToSet(n)
  BY Lists
<1>. DEFINE R == ToSet(n)  u == SubSeq(n, Len(n) - k + 1, Len(n))
<1>2. \A i \in Len(n) - k + 1..Len(n) : n[i] \in R
  BY <1>1
<1>3. /\ u \in Seq(R)
      /\ Len(u) = IF Len(n) - k + 1 <= Len(n) THEN Len(n) - (Len(n) - k + 1) + 1 ELSE 0
      /\ \A i \in 1..Len(n) - (Len(n) - k + 1) + 1 : u[i] = n[Len(n) - k + 1 + i - 1]
  <2>1. Len(n) - k + 1 \in Int /\ Len(n) \in Int
    BY <1>1
  <2>. HIDE DEF R
  <2>. QED BY <2>1, <1>2, SubSeqProperties
<1>. HIDE DEF u
<1>4. Len(u) = k /\ \A i \in 1..k : u[i] = n[Len(n) - k + i]
  BY <1>1, <1>3
<1>. QED BY <1>3, <1>4, ListsFrom DEF Upper, u

LEMMA SameList ==
  ASSUME NEW s, NEW t, IsList(s), IsList(t), Len(s) = Len(t), \A i \in 1..Len(s) : s[i] = t[i]
  PROVE  s = t
<1>. DEFINE U == ToSet(s) \union ToSet(t)
<1>1. s \in Seq(U) /\ t \in Seq(U)
  BY Lists, SeqMonotonic
<1>. HIDE DEF U
<1>. QED BY <1>1, SeqEqual

LEMMA Maximum == ASSUME NEW a \in Int, NEW b \in Int PROVE Max({a, b}) = IF a <= b THEN b ELSE a
<1>. DEFINE c == IF a <= b THEN b ELSE a
<1>1. c \in {a, b} /\ \A y \in {a, b} : c >= y
  OBVIOUS
<1>2. \A x \in {a, b} : (\A y \in {a, b} : x >= y) => x = c
  OBVIOUS
<1>. HIDE DEF c
<1>3. (CHOOSE x \in {a, b} : \A y \in {a, b} : x >= y) = c
  BY <1>1, <1>2
<1>. QED BY <1>3 DEF Max, c

\* A set of places has a least one.
LEMMA LeastExists == ASSUME NEW n \in Nat, NEW t, t \subseteq 1..n, t # {} PROVE Min(t) \in t
<1>. DEFINE u == {n + 1 - k : k \in t}
<1>0. \A k \in t : n + 1 - k \in 1..n
  OBVIOUS
<1>1. u \subseteq 1..n /\ u # {}
  BY <1>0
<1>2. Max(u) \in u /\ \A y \in u : y <= Max(u)
  <2>. HIDE DEF u
  <2>. QED BY <1>1, Filter!MaxExists DEF Filter!Max, Max
<1>3. PICK x \in t : Max(u) = n + 1 - x
  BY <1>2
<1>4. ASSUME NEW y \in t PROVE x <= y
  <2>1. n + 1 - y \in u
    OBVIOUS
  <2>2. n + 1 - y <= n + 1 - x
    BY <2>1, <1>2, <1>3
  <2>. QED BY <2>2
<1>. QED BY <1>4 DEF Min

LEMMA WithinUpper == ASSUME NEW n, IsList(n), NEW j \in 1..Len(n) PROVE Within(n, Upper(n, j))
<1>. DEFINE z == Upper(n, j)  S == {k \in 0..Min({Len(z), Len(n)}) : Upper(z, k) = Upper(n, k)}
<1>1. Len(n) \in Nat /\ j \in 0..Len(n)
  BY Lists
<1>2. IsList(z) /\ Len(z) = j
  BY <1>1, Uppers
<1>3. Min({Len(z), Len(n)}) = j
  BY <1>1, <1>2, Minimum
<1>4. Upper(z, j) = z
  <2>. HIDE DEF z
  <2>1. j \in 0..Len(z)
    BY <1>1, <1>2
  <2>2. IsList(Upper(z, j)) /\ Len(Upper(z, j)) = j /\ \A i \in 1..j : Upper(z, j)[i] = z[Len(z) - j + i]
    BY <2>1, <1>2, Uppers
  <2>3. \A i \in 1..j : Len(z) - j + i = i
    BY <1>1, <1>2
  <2>. QED BY <2>2, <2>3, <1>2, SameList
<1>5. j \in S /\ S \subseteq 0..j
  <2>. DEFINE l == Min({Len(z), Len(n)})
  <2>1. l = j /\ S = {k \in 0..l : Upper(z, k) = Upper(n, k)} /\ Upper(z, j) = Upper(n, j) /\ j \in 0..j
    BY <1>1, <1>3, <1>4
  <2>. HIDE DEF l, S
  <2>. QED BY <2>1
<1>6. Match(z, n) = Max(S)
  BY DEF Match
<1>. HIDE DEF S
<1>7. Max(S) = j
  <2>1. j \in S /\ \A y \in S : j >= y
    BY <1>5
  <2>2. \A x \in S : (\A y \in S : x >= y) => x = j
    BY <1>5
  <2>. QED BY <2>1, <2>2 DEF Max
<1>. QED BY <1>2, <1>6, <1>7 DEF Within

LEMMA DelegatedAbove ==
  ASSUME NEW c, NEW name, IsList(name), Delegated(c, name) # Nothing
  PROVE  Within(name, Delegated(c, name).name)
<1>. DEFINE tops == TopDomains(name)  known == {k \in DOMAIN tops : LookupNs(c, tops[k]) # <<>>}
            m == IF Len(name) >= 2 /\ Within(name, <<"arpa">>) THEN 3 ELSE 1
            u == Min({m, Len(name) - 1})  top == Max({0, u})
<1>1. known # {} /\ Delegated(c, name) = [name |-> tops[Min(known)]]
  BY DEF Delegated
<1>2. Len(name) \in Nat /\ m \in Int
  BY Lists
<1>3. tops = [k \in 1..top |-> Upper(name, u - k + 1)]
  BY DEF TopDomains
<1>. HIDE DEF tops, m
<1>4. u \in Int /\ u <= Len(name) - 1
  <2>1. Len(name) - 1 \in Int
    BY <1>2
  <2>. QED BY <1>2, <2>1, Minimum
<1>. HIDE DEF u
<1>5. top \in Nat /\ \A k \in 1..top : k <= u
  BY <1>4, Maximum
<1>. HIDE DEF top
<1>6. known \subseteq 1..top
  BY <1>3
<1>. HIDE DEF known
<1>7. Min(known) \in known
  BY <1>1, <1>5, <1>6, LeastExists
<1>. DEFINE k == Min(known)
<1>8. k \in 1..top /\ tops[k] = Upper(name, u - k + 1)
  BY <1>3, <1>6, <1>7
<1>9. Delegated(c, name).name = tops[k]
  BY <1>1
<1>. HIDE DEF k
<1>10. u - k + 1 \in 1..Len(name)
  BY <1>2, <1>4, <1>5, <1>8
<1>. QED BY <1>8, <1>9, <1>10, WithinUpper

-----------------------------------------------------------------------------
(* The servers to ask. *)

\* A server that others have referred to is believed within a domain that the name is in.
Believed(name, st) ==
  Paranoid /\ st.auth_serv = 2 => st.trusted = FALSE /\ st.nsdomain # Nothing /\ Within(name, st.nsdomain.name)

ToAsk(name, qs) == IsList(qs) /\ \A k \in DOMAIN qs : Fresh(qs[k]) /\ Believed(name, qs[k])

LEMMA NobodyToAsk == ASSUME NEW name PROVE ToAsk(name, <<>>)
<1>1. DOMAIN <<>> = {}
  OBVIOUS
<1>. QED BY <1>1, NoList DEF ToAsk

LEMMA ToAskBoth == ASSUME NEW name, NEW a, NEW b, ToAsk(name, a), ToAsk(name, b) PROVE ToAsk(name, a \o b)
<1>. DEFINE S == {st \in ToSet(a) \union ToSet(b) : Fresh(st) /\ Believed(name, st)}
<1>1. \A st \in ToSet(a) \union ToSet(b) : Fresh(st) /\ Believed(name, st)
  BY DEF ToAsk, ToSet
<1>2. IsList(a \o b) /\ ToSet(a \o b) \subseteq ToSet(a) \union ToSet(b)
  BY Joined DEF ToAsk
<1>3. \A k \in DOMAIN (a \o b) : (a \o b)[k] \in ToSet(a \o b)
  BY DEF ToSet
<1>. QED BY <1>1, <1>2, <1>3 DEF ToAsk

LEMMA RotatedListed == ASSUME NEW s, IsList(s), NEW k \in Nat PROVE IsList(Rotated(s, k))
<1>1. CASE s = <<>>
  BY <1>1 DEF Rotated
<1>2. CASE s # <<>>
  <2>. DEFINE n == Len(s)  m == k % n
  <2>1. n \in Nat /\ n > 0
    BY <1>2, Lists
  <2>2. m \in 0..n - 1
    BY <2>1
  <2>3. Rotated(s, k) = SubSeq(s, 1 + m, n) \o SubSeq(s, 1, m)
    BY <1>2 DEF Rotated
  <2>. HIDE DEF m
  <2>4. 1 + m \in Nat \ {0} /\ m \in Nat /\ m <= Len(s) /\ n <= Len(s)
    BY <2>1, <2>2
  <2>5. IsList(SubSeq(s, 1 + m, n)) /\ IsList(SubSeq(s, 1, m))
    BY <2>1, <2>4, PartOf
  <2>. QED BY <2>3, <2>5, Joined
<1>. QED BY <1>1, <1>2

LEMMA DirectToAsk == ASSUME NEW sp, NEW addrs, IsList(addrs), NEW name PROVE ToAsk(name, Direct(sp, addrs))
<1>. DEFINE auth == IF sp.rootserver > 0 THEN 3 ELSE IF sp.proxy THEN 0 ELSE 1
            test == IF sp.testing THEN 1 ELSE 0
            flags == FlagVal(sp)  trusted == TRUE  none == Nothing
            q == [k \in DOMAIN addrs |-> NewQuery(addrs[k], flags, sp.nocache, sp.lean, sp.edns, auth, test, trusted,
                                                  none, sp.rejectlist, method)]
<1>1. Direct(sp, addrs) = q
  BY DEF Direct
<1>2. auth \in {0, 1, 3}
  OBVIOUS
<1>. HIDE DEF auth, test, flags, trusted, none
<1>3. Len(addrs) \in Nat /\ DOMAIN addrs = 1..Len(addrs)
  BY Lists
<1>4. \A k \in DOMAIN q : Fresh(q[k]) /\ q[k].auth_serv = auth
  BY NewIsFresh
<1>5. IsList(q)
  BY <1>3, Mapped
<1>. HIDE DEF q
<1>. QED BY <1>1, <1>2, <1>4, <1>5 DEF ToAsk, Believed

LEMMA KnownToAsk ==
  ASSUME NEW sp, NEW addrs, IsList(addrs), NEW name, NEW top, top # Nothing, Within(name, top.name)
  PROVE  ToAsk(name, Known(sp, top, addrs))
<1>. DEFINE flags == FlagVal(sp) \ NOINHERIT  trusted == ~Paranoid  reject == Inherited(sp.rejectlist)
            q == [k \in DOMAIN addrs |-> NewQuery(addrs[k], flags, sp.nocache, sp.lean, sp.edns, 2, 0, trusted,
                                                  top, reject, method)]
<1>1. Known(sp, top, addrs) = q
  BY DEF Known
<1>2. Paranoid => trusted = FALSE
  OBVIOUS
<1>. HIDE DEF trusted, flags, reject
<1>3. Len(addrs) \in Nat /\ DOMAIN addrs = 1..Len(addrs)
  BY Lists
<1>4. \A k \in DOMAIN q : Fresh(q[k]) /\ q[k].trusted = trusted /\ q[k].nsdomain = top
  BY NewIsFresh
<1>5. IsList(q)
  BY <1>3, Mapped
<1>. HIDE DEF q
<1>. QED BY <1>1, <1>2, <1>4, <1>5 DEF ToAsk, Believed

\* The sections of the configuration, and the cache.
Configured == IsList(servers) /\ \A i \in DOMAIN servers : IsList(servers[i].addrs)

LEMMA LiveListed ==
  ASSUME Configured, NEW i \in DOMAIN servers, NEW start \in Nat PROVE IsList(Live(servers[i], start))
<1>1. IsList(Rotated(servers[i].addrs, start))
  BY RotatedListed DEF Configured
<1>. QED BY <1>1, Filtered DEF Live

LEMMA InsteadToAsk ==
  ASSUME Stored(cache), NEW name, IsList(name), NEW acc, ToAsk(name, acc.serv), NEW sp, NEW start \in Nat,
         NEW direct, ToAsk(name, direct)
  PROVE  ToAsk(name, Instead(acc, sp, start, Delegated(cache, name), direct).serv)
<1>. DEFINE top == Delegated(cache, name)  ns == Rotated(LookupNs(cache, top.name), start)
            k == Known(sp, top, ns)
<1>1. IsList(ns)
  BY NsListed, RotatedListed
<1>2. top # Nothing => Within(name, top.name)
  BY DelegatedAbove
<1>. HIDE DEF top, ns
<1>3. top # Nothing => ToAsk(name, k)
  BY <1>1, <1>2, KnownToAsk
<1>4. Instead(acc, sp, start, top, direct).serv \in {acc.serv, acc.serv \o direct}
      \/ (top # Nothing /\ Instead(acc, sp, start, top, direct).serv = acc.serv \o k)
  BY DEF Instead, ns
<1>. HIDE DEF k
<1>. QED BY <1>3, <1>4, ToAskBoth DEF top

IsAcc(acc, name) == DOMAIN acc = {"serv", "seen"} /\ ToAsk(name, acc.serv)

LEMMA SectionToAsk ==
  ASSUME Configured, Stored(cache), NEW name, IsList(name), NEW acc, IsAcc(acc, name),
         NEW i \in DOMAIN servers, NEW start \in Nat
  PROVE  IsAcc(Section(acc, servers[i], start, name, Live(servers[i], start)), name)
<1>. DEFINE sp == servers[i]  live == Live(sp, start)  direct == Direct(sp, live)
            one == [acc EXCEPT !.serv = @ \o direct]
            two == Instead(acc, sp, start, Delegated(cache, name), direct)
<1>1. ToAsk(name, direct)
  BY LiveListed, DirectToAsk
<1>2. Section(acc, sp, start, name, live) \in {acc, one, two}
  BY DEF Section
<1>. HIDE DEF sp, live, direct
<1>3. IsAcc(one, name)
  <2>1. DOMAIN one = {"serv", "seen"} /\ one.serv = acc.serv \o direct
    BY DEF IsAcc
  <2>. QED BY <2>1, <1>1, ToAskBoth DEF IsAcc
<1>4. IsAcc(two, name)
  <2>1. ToAsk(name, two.serv)
    BY <1>1, InsteadToAsk DEF IsAcc
  <2>2. DOMAIN two = {"serv", "seen"}
    BY DEF Instead, IsAcc
  <2>. QED BY <2>1, <2>2 DEF IsAcc
<1>. QED BY <1>2, <1>3, <1>4 DEF sp, live

SectionOp(starts, name, z, acc, i) == Section(acc, servers[i], starts[i], name, Live(servers[i], starts[i]))
SectionGood(starts, name, z, base, k, acc) == IsAcc(acc, name)
Chosen == INSTANCE FoldFacts WITH Op <- SectionOp, Good <- SectionGood

LEMMA ServersToAsk ==
  ASSUME Configured, Stored(cache), NEW name, IsList(name), NEW starts, \A i \in DOMAIN servers : starts[i] \in Nat
  PROVE  ToAsk(name, ServersFor(name, starts))
<1>. DEFINE base == [serv |-> <<>>, seen |-> 0]  s == [i \in DOMAIN servers |-> i]
            p == Chosen!Folded(starts, name, 0, base, s)
<1>1. Len(servers) \in Nat /\ DOMAIN servers = 1..Len(servers)
  BY Lists DEF Configured
<1>2. DOMAIN s = 1..Len(servers) /\ \A k \in 1..Len(servers) : s[k] = k
  BY <1>1
<1>3. IsAcc(base, name)
  <2>1. DOMAIN base = {"serv", "seen"} /\ base.serv = <<>>
    OBVIOUS
  <2>. HIDE DEF base
  <2>. QED BY <2>1, NobodyToAsk DEF IsAcc
<1>4. SectionGood(starts, name, 0, base, 0, base)
  BY <1>3 DEF SectionGood
<1>. HIDE DEF base, s
<1>5. ASSUME NEW k \in 1..Len(servers), NEW acc, SectionGood(starts, name, 0, base, k - 1, acc)
      PROVE  SectionGood(starts, name, 0, base, k, SectionOp(starts, name, 0, acc, s[k]))
  <2>1. s[k] = k /\ starts[k] \in Nat /\ k \in DOMAIN servers /\ IsAcc(acc, name)
    BY <1>1, <1>2, <1>5 DEF SectionGood
  <2>. QED BY <2>1, SectionToAsk DEF SectionGood, SectionOp
<1>6. SectionGood(starts, name, 0, base, Len(servers), p)
  BY <1>1, <1>2, <1>4, <1>5, Chosen!FoldKeeps
<1>7. p.serv = ServersFor(name, starts)
  BY DEF ServersFor, base, s, Chosen!Folded, Chosen!FoldLeft, Chosen!MapThenFoldSet, FoldLeft, MapThenFoldSet, SectionOp,
         Max, Chosen!Max
<1>. HIDE DEF p
<1>. QED BY <1>6, <1>7 DEF SectionGood, IsAcc

\* The name servers to look up, with domains that the name is in.
ToDo(name, todo) == IsList(todo) /\ \A p \in ToSet(todo) : IsList(p[2]) /\ (Paranoid => Within(name, p[1]))

LEMMA NameServerAdded ==
  ASSUME Stored(cache), NEW name, NEW l, ToDo(name, l), NEW ns, Pairs(ns), NEW k \in DOMAIN ns
  PROVE  ToDo(name, AddNameServer(l, ns, k, name))
<1>. DEFINE d == ns[k][1]  e == Get(cache, d)  rrs == e.sets["NS"].rrs  more == LocalServers(d, e)
<1>1. IsList(ns[k][2]) /\ Perhaps(e)
  BY Gotten DEF Pairs, ToSet
<1>2. \/ AddNameServer(l, ns, k, name) = l
      \/ (Paranoid => Within(name, d)) /\ AddNameServer(l, ns, k, name) = Append(l, ns[k])
      \/ (Paranoid => Within(name, d)) /\ HasLocalServers(e) /\ AddNameServer(l, ns, k, name) = l \o more
  BY DEF AddNameServer
<1>3. (Paranoid => Within(name, d)) => ToDo(name, Append(l, ns[k]))
  <2>1. IsList(Append(l, ns[k])) /\ ToSet(Append(l, ns[k])) = ToSet(l) \union {ns[k]}
    BY Appended DEF ToDo
  <2>. QED BY <2>1, <1>1 DEF ToDo
<1>4. ASSUME Paranoid => Within(name, d), HasLocalServers(e) PROVE ToDo(name, l \o more)
  <2>1. e # Nothing /\ "NS" \in DOMAIN e.sets
    BY <1>4 DEF HasLocalServers, Has
  <2>2. IsList(rrs) /\ \A r \in ToSet(rrs) : IsList(r[1].v)
    <3>. HIDE DEF e
    <3>. QED BY <1>1, <2>1, StoredIs DEF Perhaps, IsSetOf
  <2>3. more = [i \in DOMAIN rrs |-> <<d, rrs[i][1].v>>]
    BY DEF LocalServers
  <2>. HIDE DEF rrs, d
  <2>4. Len(rrs) \in Nat /\ DOMAIN rrs = 1..Len(rrs) /\ \A i \in 1..Len(rrs) : IsList(rrs[i][1].v)
    BY <2>2, Lists
  <2>. DEFINE g == [i \in 1..Len(rrs) |-> <<d, rrs[i][1].v>>]
  <2>5. more = g
    BY <2>3, <2>4
  <2>6. IsList(g)
    BY <2>4, Mapped
  <2>7. \A p \in ToSet(g) : IsList(p[2]) /\ p[1] = d
    BY <2>4 DEF ToSet
  <2>. HIDE DEF g
  <2>8. IsList(l \o g) /\ ToSet(l \o g) \subseteq ToSet(l) \union ToSet(g)
    BY <2>6, Joined DEF ToDo
  <2>. QED BY <2>5, <2>7, <2>8, <1>4 DEF ToDo
<1>. QED BY <1>2, <1>3, <1>4

ToDoOp(ns, name, z, l, k) == AddNameServer(l, ns, k, name)
ToDoGood(ns, name, z, base, k, l) == ToDo(name, l)
Todo == INSTANCE FoldFacts WITH Op <- ToDoOp, Good <- ToDoGood

LEMMA NameServersToDo ==
  ASSUME Stored(cache), NEW name, NEW ns, Pairs(ns) PROVE ToDo(name, NameServersFor(ns, name))
<1>. DEFINE base == <<>>  s == [k \in DOMAIN ns |-> k]  p == Todo!Folded(ns, name, 0, base, s)
<1>1. Len(ns) \in Nat /\ DOMAIN ns = 1..Len(ns)
  BY Lists DEF Pairs
<1>2. DOMAIN s = 1..Len(ns) /\ \A k \in 1..Len(ns) : s[k] = k
  BY <1>1
<1>3. ToDoGood(ns, name, 0, base, 0, base)
  BY NoList DEF ToDoGood, ToDo
<1>. HIDE DEF base, s
<1>4. ASSUME NEW k \in 1..Len(ns), NEW l, ToDoGood(ns, name, 0, base, k - 1, l)
      PROVE  ToDoGood(ns, name, 0, base, k, ToDoOp(ns, name, 0, l, s[k]))
  <2>1. s[k] = k /\ k \in DOMAIN ns /\ ToDo(name, l)
    BY <1>1, <1>2, <1>4 DEF ToDoGood
  <2>. QED BY <2>1, NameServerAdded DEF ToDoGood, ToDoOp
<1>5. ToDoGood(ns, name, 0, base, Len(ns), p)
  BY <1>1, <1>2, <1>3, <1>4, Todo!FoldKeeps
<1>6. p = NameServersFor(ns, name)
  BY DEF NameServersFor, base, s, Todo!Folded, Todo!FoldLeft, Todo!MapThenFoldSet, FoldLeft, MapThenFoldSet, ToDoOp,
         Max, Todo!Max
<1>. QED BY <1>5, <1>6 DEF ToDoGood

LEMMA FoundToAsk ==
  ASSUME NEW name, NEW domain, Paranoid => Within(name, domain), NEW addrs, IsList(addrs), NEW set, NEW flags,
         NEW lean, NEW edns, NEW reject
  PROVE  LET new == Among(addrs, set)
         IN  ToAsk(name, [k \in DOMAIN new |-> NewQuery(new[k], flags, FALSE, lean, edns, 2, 0, ~Paranoid,
                                                        [name |-> domain], reject, method)])
<1>. DEFINE new == Among(addrs, set)  nocache == FALSE  trusted == ~Paranoid  top == [name |-> domain]
            q == [k \in DOMAIN new |-> NewQuery(new[k], flags, nocache, lean, edns, 2, 0, trusted, top, reject, method)]
<1>1. IsList(new)
  BY Filtered
<1>. HIDE DEF new
<1>2. Len(new) \in Nat /\ DOMAIN new = 1..Len(new)
  BY <1>1, Lists
<1>3. (Paranoid => trusted = FALSE) /\ top # Nothing /\ top.name = domain
  <2>1. DOMAIN top = {"name"} /\ DOMAIN Nothing = {"none"} /\ "name" # "none"
    BY DEF Nothing
  <2>2. top # Nothing
    BY <2>1
  <2>. QED BY <2>2
<1>. HIDE DEF nocache, trusted, top
<1>4. \A k \in DOMAIN q : Fresh(q[k]) /\ q[k].trusted = trusted /\ q[k].nsdomain = top
  BY NewIsFresh
<1>5. IsList(q)
  BY <1>2, Mapped
<1>6. ToAsk(name, q)
  <2>. HIDE DEF q
  <2>. QED BY <1>3, <1>4, <1>5 DEF ToAsk, Believed
<1>. QED BY <1>6 DEF nocache, trusted, top, new

-----------------------------------------------------------------------------
(* What is known of a call at each of its places. *)

\* A query that nobody is busy with.
Kept(st) == Tidy(st) /\ st.state \in {"INITIAL", "DONE"} \union Waiting

\* An answer to the name, from the query by; what was saved of one.
Answers(f, ans) == DOMAIN ans = {"ent", "by"} /\ IsStored(ans.ent) /\ ans.ent.qname = f.name /\ ans.by \in DOMAIN f.q
Saves(f) ==
  f.saved # Nothing => /\ IsStored(f.saved.ent) /\ f.saved.ent.qname = f.name /\ f.saved.by \in DOMAIN f.q
                       /\ ToAsk(f.name, f.saved.serv)

Basic(f) ==
  /\ IsCall(f) /\ IsList(f.name) /\ IsList(f.q) /\ f.j \in Nat \ {0} /\ f.i \in Nat
  /\ Perhaps(f.cached) /\ ToAsk(f.name, f.serv) /\ Saves(f)
  /\ \A k \in DOMAIN f.q : DOMAIN f.q[k] = QueryFields /\ Believed(f.name, f.q[k])

\* The batches. The query that a loop is at, those it has not come to, and those of later batches.
AtOne == {"send", "events", "again", "judge", "names"}
Loops == AtOne \union {"poll", "timeouts", "finish"}

Unsent(f) ==
  /\ \A k \in DOMAIN f.q : k >= f.j + ParQueries => f.q[k].state = "INITIAL"
  /\ f.at \in AtOne /\ f.ctx = "send" => \A k \in DOMAIN f.q : k > f.i => f.q[k].state = "INITIAL"

Ready(f) ==
  f.at \in AtOne /\ f.ctx = "events" =>
    \A k \in f.ready : k \in DOMAIN f.q /\ k < f.j + ParQueries /\ (k > f.i => f.q[k].state # "DONE")

Current(f) ==
  /\ f.at \in AtOne => f.i \in DOMAIN f.q /\ f.i < f.j + ParQueries
  /\ f.at = "send" => f.ctx = "send" /\ f.q[f.i].state = "INITIAL"
  /\ f.at = "events" => f.ctx = "events" /\ f.q[f.i].state # "DONE"
  /\ f.at = "again" => Resumes(f.q[f.i])
  /\ f.at = "timeouts" => f.ctx = "timeouts" /\ f.i # 0
  /\ f.at \in {"judge", "names"} => /\ f.q[f.i].state = "DONE"
                                    /\ IsStored(f.ans.ent) /\ f.ans.ent.qname = f.name /\ Pairs(f.ans.ns)
  /\ f.at = "names" => ToDo(f.name, f.todo)

\* "OK" comes with an answer.
Founded(f) ==
  /\ f.rv \notin {"CACHED", "STALE"}
  /\ f.rv = "OK" /\ f.at \notin {"judge", "names"} => f.saved # Nothing \/ (f.at = "finish" /\ Answers(f, f.ans))

Asks(f) ==
  /\ \A k \in DOMAIN f.q : Kept(f.q[k]) \/ (f.at = "again" /\ k = f.i)
  /\ Unsent(f) /\ Ready(f) /\ Current(f) /\ Founded(f)

\* When the queries are over.
Settled(f) ==
  /\ \A k \in DOMAIN f.q : Tidy(f.q[k]) /\ f.q[k].open = FALSE
  /\ f.at = "referral" => Answers(f, f.ans)
  /\ f.at = "result" /\ Resolved(f) => IsStored(f.ans.ent)
  /\ f.at = "result" /\ f.rv = "OK" => Answers(f, f.ans)
  /\ f.at = "return" /\ f.res.rc \in {"OK", "CACHED", "STALE"} => IsStored(f.res.ent)
  /\ f.at = "return" /\ f.kind = "auth" /\ f.res.rc = "OK" => f.res.ent.qname = f.name

Unstarted(f) == f.ctx = "send" /\ f.saved = Nothing /\ f.rv = "SERVFAIL" /\ ToAsk(f.name, f.q)

Calling(f) ==
  /\ Basic(f)
  /\ \/ f.at = "lookup" /\ Unstarted(f)
     \/ f.at \in Loops /\ Asks(f)
     \/ f.at \in {"result", "referral", "return"} /\ Settled(f)

Discovering(f, sps) ==
  /\ IsCall(f) /\ f.q = <<>> /\ f.j \in DOMAIN sps
  /\ IsList(f.todo) /\ \A d \in ToSet(f.todo) : IsList(d[1].v)

Framed(f, sps) == IF f.at \in RootPlaces THEN Discovering(f, sps) ELSE Calling(f)

\* What a caller waits for.
Linked(f, g) ==
  /\ g.kind = "ns" => f.at = "names" /\ f.todo # <<>>
  /\ g.kind = "auth" => f.at = "referral" /\ f.name = g.name
  /\ g.kind = "simple" /\ f.at = "root names" => f.todo # <<>>

Frames(s, sps) ==
  /\ \A d \in 1..Len(s) : Framed(s[d], sps)
  /\ \A d \in 1..Len(s) - 1 : Linked(s[d], s[d + 1])

Tested(p) == p # Nothing => /\ DOMAIN p = {"rounds", "st"} /\ DOMAIN p.st = QueryFields
                            /\ Tidy(p.st) /\ p.st.state \in {"INITIAL"} \union Waiting

NoneLeft(s) == IsSequence(s) /\ \A k \in DOMAIN s : s[k].call = "test" => ~s[k].left

-----------------------------------------------------------------------------
(* The parts of a step. *)

\* The call goes on.
Stays(g, f) == Calling(g) /\ g.at \notin RootPlaces /\ g.kind = f.kind /\ g.name = f.name

LEMMA CallingPlaces == ASSUME NEW f, Calling(f) PROVE f.at \notin RootPlaces
BY DEF Calling, Loops, AtOne, RootPlaces

LEMMA BasicKept ==
  ASSUME NEW f, Basic(f), NEW g, IsCall(g), g.name = f.name, g.q = f.q, g.j \in Nat \ {0}, g.i \in Nat,
         g.cached = f.cached, g.serv = f.serv, g.saved = f.saved
  PROVE  Basic(g)
BY DEF Basic, Saves

\* Between two queries: whatever the last has left.
Loose(f) ==
  /\ Basic(f) /\ \A k \in DOMAIN f.q : Kept(f.q[k])
  /\ \A k \in DOMAIN f.q : k >= f.j + ParQueries => f.q[k].state = "INITIAL"
Waits(f) == Loose(f) /\ f.rv \notin {"CACHED", "STALE"} /\ (f.rv = "OK" => f.saved # Nothing)
Turns(f) ==
  /\ Waits(f)
  /\ f.ctx = "send" => \A k \in DOMAIN f.q : k > f.i => f.q[k].state = "INITIAL"
  /\ f.ctx = "events" =>
       \A k \in f.ready : k \in DOMAIN f.q /\ k < f.j + ParQueries /\ (k > f.i => f.q[k].state # "DONE")

LEMMA DoneStays ==
  ASSUME NEW f, Loose(f), NEW rv, rv \notin {"CACHED", "STALE"}, NEW ans, rv = "OK" => Answers(f, ans)
  PROVE  Stays(Done(f, rv, ans), f)
<1>. DEFINE g == Done(f, rv, ans)
<1>1. /\ IsCall(g) /\ g.at = "finish" /\ g.rv = rv /\ g.saved = Nothing /\ g.ans = ans
      /\ g.kind = f.kind /\ g.name = f.name /\ g.q = f.q /\ g.j = f.j /\ g.i = f.i /\ g.cached = f.cached
      /\ g.serv = f.serv /\ g.ctx = f.ctx
  BY DEF Loose, Basic, IsCall, Fields, Contexts, Done
<1>. HIDE DEF g
<1>2. Basic(g)
  BY <1>1 DEF Loose, Basic, Saves
<1>3. Asks(g)
  BY <1>1 DEF Loose, Asks, Unsent, Ready, Current, Founded, AtOne, Answers
<1>. QED BY <1>1, <1>2, <1>3, CallingPlaces DEF Stays, Calling, Loops, g

LEMMA NextBatchStays == ASSUME NEW f, Waits(f) PROVE Stays(NextBatch(f), f)
<1>. DEFINE g == [f EXCEPT !.at = "finish"]
            h == [f EXCEPT !.at = "send", !.j = @ + ParQueries, !.i = f.j + ParQueries, !.ctx = "send"]
<1>1. NextBatch(f) = IF f.j + ParQueries > Len(f.q) THEN g ELSE h
  BY DEF NextBatch
<1>2. /\ IsCall(g) /\ g.at = "finish" /\ g.rv = f.rv /\ g.saved = f.saved
      /\ g.kind = f.kind /\ g.name = f.name /\ g.q = f.q /\ g.j = f.j /\ g.i = f.i /\ g.cached = f.cached
      /\ g.serv = f.serv /\ g.ctx = f.ctx
  BY DEF Waits, Loose, Basic, IsCall, Fields, Contexts
<1>3. /\ IsCall(h) /\ h.at = "send" /\ h.rv = f.rv /\ h.saved = f.saved
      /\ h.kind = f.kind /\ h.name = f.name /\ h.q = f.q /\ h.j = f.j + ParQueries /\ h.i = h.j
      /\ h.cached = f.cached /\ h.serv = f.serv /\ h.ctx = "send"
  BY DEF Waits, Loose, Basic, IsCall, Fields, Contexts
<1>. HIDE DEF g, h
<1>4. Stays(g, f)
  <2>1. Basic(g)
    BY <1>2, BasicKept DEF Waits, Loose, Basic
  <2>2. Asks(g)
    BY <1>2 DEF Waits, Loose, Asks, Unsent, Ready, Current, Founded, AtOne
  <2>. QED BY <1>2, <2>1, <2>2, CallingPlaces DEF Stays, Calling, Loops
<1>5. ASSUME ~(f.j + ParQueries > Len(f.q)) PROVE Stays(h, f)
  <2>1. f.j \in Nat \ {0} /\ Len(f.q) \in Nat /\ DOMAIN f.q = 1..Len(f.q) /\ ParQueries \in Nat \ {0}
    BY Lists, ParQueriesAssumption DEF Waits, Loose, Basic
  <2>2. h.j \in Nat \ {0} /\ h.i \in Nat /\ h.i \in DOMAIN f.q /\ h.i < h.j + ParQueries
    BY <1>3, <1>5, <2>1
  <2>3. Basic(h)
    BY <1>3, <2>2, BasicKept DEF Waits, Loose
  <2>4. \A k \in DOMAIN f.q : k >= h.i => k >= f.j + ParQueries
    BY <1>3, <2>1
  <2>5. \A k \in DOMAIN f.q : (k >= h.j + ParQueries \/ k > h.i) => k >= h.i
    BY <2>1, <2>2, <1>3
  <2>6. Unsent(h) /\ h.q[h.i].state = "INITIAL"
    <3>1. \A k \in DOMAIN f.q : k >= h.i => f.q[k].state = "INITIAL"
      BY <2>4 DEF Waits, Loose
    <3>2. h.i >= h.i
      BY <2>2
    <3>. QED BY <3>1, <3>2, <2>2, <2>5, <1>3 DEF Unsent
  <2>7. Asks(h)
    BY <1>3, <2>2, <2>6 DEF Waits, Loose, Asks, Ready, Current, Founded, AtOne
  <2>. QED BY <1>3, <2>3, <2>7, CallingPlaces DEF Stays, Calling, Loops, AtOne
<1>. QED BY <1>1, <1>4, <1>5

LEMMA EndRoundStays == ASSUME NEW f, Waits(f) PROVE Stays(EndRound(f), f)
<1>. DEFINE g == [f EXCEPT !.at = "poll"]
<1>1. EndRound(f) \in {NextBatch(f), g}
  BY DEF EndRound
<1>2. /\ IsCall(g) /\ g.at = "poll" /\ g.rv = f.rv /\ g.saved = f.saved
      /\ g.kind = f.kind /\ g.name = f.name /\ g.q = f.q /\ g.j = f.j /\ g.i = f.i /\ g.cached = f.cached
      /\ g.serv = f.serv /\ g.ctx = f.ctx
  BY DEF Waits, Loose, Basic, IsCall, Fields, Contexts
<1>. HIDE DEF g
<1>3. Basic(g)
  BY <1>2, BasicKept DEF Waits, Loose, Basic
<1>4. Asks(g)
  BY <1>2 DEF Waits, Loose, Asks, Unsent, Ready, Current, Founded, AtOne
<1>5. Stays(g, f)
  BY <1>2, <1>3, <1>4, CallingPlaces DEF Stays, Calling, Loops
<1>. QED BY <1>1, <1>5, NextBatchStays

-----------------------------------------------------------------------------
(* The batches of queries. *)

LEMMA BatchEnds ==
  ASSUME NEW f, Basic(f)
  PROVE  /\ f.j \in Nat \ {0} /\ f.i \in Nat /\ Len(f.q) \in Nat /\ DOMAIN f.q = 1..Len(f.q) /\ ParQueries \in Nat \ {0}
         /\ Mc(f) \in Int /\ Mc(f) <= Len(f.q) /\ Mc(f) <= f.j + ParQueries - 1
         /\ \A k \in 1..Mc(f) : k \in DOMAIN f.q /\ k < f.j + ParQueries
<1>1. f.j \in Nat \ {0} /\ f.i \in Nat /\ Len(f.q) \in Nat /\ DOMAIN f.q = 1..Len(f.q) /\ ParQueries \in Nat \ {0}
  BY Lists, ParQueriesAssumption DEF Basic
<1>. DEFINE a == f.j + ParQueries - 1  b == Len(f.q)
<1>2. a \in Int /\ b \in Int
  BY <1>1
<1>3. Mc(f) = IF a <= b THEN a ELSE b
  <2>. HIDE DEF a, b
  <2>1. Min({a, b}) = IF a <= b THEN a ELSE b
    BY <1>2, Minimum
  <2>. QED BY <2>1 DEF Mc, a, b
<1>. QED BY <1>1, <1>3

LEMMA ContinueStays == ASSUME NEW f, Turns(f) PROVE Stays(Continue(f), f)
<1>1. IsCall(f) /\ Waits(f) /\ Loose(f) /\ Basic(f)
  BY DEF Turns, Waits, Loose, Basic
<1>2. /\ f.j \in Nat \ {0} /\ f.i \in Nat /\ Len(f.q) \in Nat /\ DOMAIN f.q = 1..Len(f.q)
      /\ Mc(f) \in Int /\ Mc(f) <= Len(f.q) /\ Mc(f) <= f.j + ParQueries - 1 /\ ParQueries \in Nat \ {0}
  BY <1>1, BatchEnds
<1>3. CASE f.ctx = "send"
  <2>. DEFINE g == [f EXCEPT !.at = "send", !.i = @ + 1]
  <2>1. Continue(f) = IF f.i < Mc(f) THEN g ELSE EndRound(f)
    BY <1>3 DEF Continue
  <2>2. /\ IsCall(g) /\ g.at = "send" /\ g.rv = f.rv /\ g.saved = f.saved
        /\ g.kind = f.kind /\ g.name = f.name /\ g.q = f.q /\ g.j = f.j /\ g.i = f.i + 1 /\ g.cached = f.cached
        /\ g.serv = f.serv /\ g.ctx = f.ctx
    BY <1>1 DEF IsCall, Fields, Contexts
  <2>. HIDE DEF g
  <2>3. ASSUME f.i < Mc(f) PROVE Stays(g, f)
    <3>1. g.i \in Nat /\ g.i \in DOMAIN f.q /\ g.i < g.j + ParQueries /\ g.i > f.i
          /\ \A k \in DOMAIN f.q : k > g.i => k > f.i
      BY <2>2, <2>3, <1>2
    <3>2. Basic(g)
      BY <1>1, <1>2, <2>2, <3>1, BasicKept
    <3>3. Unsent(g) /\ g.q[g.i].state = "INITIAL"
      BY <1>1, <1>3, <2>2, <3>1 DEF Unsent, Turns, Waits, Loose
    <3>4. Asks(g)
      BY <1>1, <1>3, <2>2, <3>1, <3>3 DEF Waits, Loose, Asks, Ready, Current, Founded, AtOne
    <3>. QED BY <2>2, <3>2, <3>4, CallingPlaces DEF Stays, Calling, Loops, AtOne
  <2>. QED BY <2>1, <2>3, <1>1, EndRoundStays
<1>4. CASE f.ctx = "events"
  <2>. DEFINE left == {k \in f.ready : k > f.i}  l == Min(left)
              g == [f EXCEPT !.at = "events", !.i = l]
  <2>1. Continue(f) = IF left # {} THEN g ELSE EndRound(f)
    BY <1>4 DEF Continue
  <2>2. left # {} => l \in left
    <3>1. left \subseteq 1..Len(f.q)
      BY <1>2, <1>4 DEF Turns
    <3>. HIDE DEF left
    <3>. QED BY <1>2, <3>1, LeastExists
  <2>. HIDE DEF l
  <2>3. /\ IsCall(g) /\ g.at = "events" /\ g.rv = f.rv /\ g.saved = f.saved
        /\ g.kind = f.kind /\ g.name = f.name /\ g.q = f.q /\ g.j = f.j /\ g.i = l /\ g.cached = f.cached
        /\ g.serv = f.serv /\ g.ctx = f.ctx /\ g.ready = f.ready
    BY <1>1 DEF IsCall, Fields, Contexts
  <2>. HIDE DEF g
  <2>4. ASSUME left # {} PROVE Stays(g, f)
    <3>1. l \in f.ready /\ l > f.i /\ l \in DOMAIN f.q /\ l < f.j + ParQueries /\ f.q[l].state # "DONE"
      BY <2>2, <2>4, <1>4 DEF Turns
    <3>2. g.i \in Nat /\ \A k \in f.ready : k \in DOMAIN f.q /\ (k > g.i => k > f.i)
      BY <3>1, <2>3, <1>2, <1>4 DEF Turns
    <3>3. Basic(g)
      BY <1>1, <1>2, <2>3, <3>2, BasicKept
    <3>4. Ready(g)
      BY <1>4, <2>3, <3>2 DEF Ready, Turns
    <3>5. Asks(g)
      BY <1>1, <1>4, <2>3, <3>1, <3>4 DEF Waits, Loose, Asks, Unsent, Current, Founded, AtOne
    <3>. QED BY <2>3, <3>3, <3>5, CallingPlaces DEF Stays, Calling, Loops, AtOne
  <2>. QED BY <2>1, <2>4, <1>1, EndRoundStays
<1>5. CASE f.ctx = "timeouts"
  <2>. DEFINE g == [f EXCEPT !.at = "timeouts", !.i = @ + 1]
  <2>1. Continue(f) = g
    BY <1>5 DEF Continue
  <2>2. /\ IsCall(g) /\ g.at = "timeouts" /\ g.rv = f.rv /\ g.saved = f.saved
        /\ g.kind = f.kind /\ g.name = f.name /\ g.q = f.q /\ g.j = f.j /\ g.i = f.i + 1 /\ g.cached = f.cached
        /\ g.serv = f.serv /\ g.ctx = f.ctx
    BY <1>1 DEF IsCall, Fields, Contexts
  <2>. HIDE DEF g
  <2>3. g.i \in Nat /\ g.i # 0
    BY <2>2, <1>2
  <2>4. Basic(g)
    BY <1>1, <1>2, <2>2, <2>3, BasicKept
  <2>5. Asks(g)
    BY <1>1, <1>5, <2>2, <2>3 DEF Waits, Loose, Asks, Unsent, Ready, Current, Founded, AtOne
  <2>6. Stays(g, f)
    BY <2>2, <2>4, <2>5, CallingPlaces DEF Stays, Calling, Loops, AtOne
  <2>. QED BY <2>1, <2>6
<1>. QED BY <1>1, <1>3, <1>4, <1>5 DEF IsCall, Contexts

\* A query of the frame changes; it is for the same server.
LEMMA QueryChanges ==
  ASSUME NEW f, Basic(f), NEW i \in DOMAIN f.q, i < f.j + ParQueries,
         NEW st, SameServer(st, f.q[i]),
         \A k \in DOMAIN f.q : k # i => Kept(f.q[k]),
         \A k \in DOMAIN f.q : k >= f.j + ParQueries => f.q[k].state = "INITIAL",
         NEW g, IsCall(g), g.name = f.name, g.j = f.j, g.i = f.i, g.cached = f.cached, g.serv = f.serv,
         g.saved = f.saved, g.q = [f.q EXCEPT ![i] = st]
  PROVE  /\ DOMAIN g.q = DOMAIN f.q /\ g.q[i] = st /\ \A k \in DOMAIN f.q : k # i => g.q[k] = f.q[k]
         /\ Basic(g) /\ (Kept(st) => Loose(g))
         /\ \A k \in DOMAIN g.q : k >= g.j + ParQueries => g.q[k].state = "INITIAL"
<1>1. /\ DOMAIN g.q = DOMAIN f.q /\ g.q[i] = st /\ \A k \in DOMAIN f.q : k # i => g.q[k] = f.q[k]
  OBVIOUS
<1>2. IsList(g.q)
  <2>1. Len(f.q) \in Nat /\ DOMAIN f.q = 1..Len(f.q)
    BY Lists DEF Basic
  <2>. DEFINE h == [k \in 1..Len(f.q) |-> IF k = i THEN st ELSE f.q[k]]
  <2>2. g.q = h
    BY <2>1
  <2>. HIDE DEF h
  <2>3. DOMAIN h = 1..Len(f.q) /\ h = [k \in 1..Len(f.q) |-> h[k]]
    BY <2>1 DEF h
  <2>4. IsList(h)
    BY <2>1, <2>3, Mapped
  <2>. QED BY <2>2, <2>4
<1>3. \A k \in DOMAIN g.q : DOMAIN g.q[k] = QueryFields /\ Believed(f.name, g.q[k])
  <2>1. DOMAIN st = QueryFields /\ Believed(f.name, st)
    BY DEF Basic, SameServer, Believed
  <2>. QED BY <2>1, <1>1 DEF Basic
<1>4. Basic(g)
  BY <1>1, <1>2, <1>3 DEF Basic, Saves
<1>5. \A k \in DOMAIN g.q : k >= g.j + ParQueries => g.q[k].state = "INITIAL"
  <2>1. f.j \in Nat /\ ParQueries \in Nat /\ i \in Nat
    BY BatchEnds
  <2>. QED BY <2>1, <1>1
<1>6. Kept(st) => Loose(g)
  BY <1>1, <1>4, <1>5 DEF Loose
<1>. QED BY <1>1, <1>4, <1>5, <1>6

\* p_exec_query() for the query that a loop is at.
LEMMA AboutToExec ==
  ASSUME NEW f, Calling(f), f.at \in {"send", "events", "again"}
  PROVE  /\ Basic(f) /\ f.i \in DOMAIN f.q /\ f.i < f.j + ParQueries /\ DOMAIN f.q[f.i] = QueryFields /\ Active(f.q[f.i])
         /\ \A k \in DOMAIN f.q : k # f.i => Kept(f.q[k])
         /\ \A k \in DOMAIN f.q : k >= f.j + ParQueries => f.q[k].state = "INITIAL"
         /\ f.ctx = "send" => \A k \in DOMAIN f.q : k > f.i => f.q[k].state = "INITIAL"
         /\ f.ctx = "events" =>
              \A k \in f.ready : k \in DOMAIN f.q /\ k < f.j + ParQueries /\ (k > f.i => f.q[k].state # "DONE")
<1>1. Basic(f) /\ Asks(f) /\ f.at \in AtOne
  BY DEF Calling, AtOne, Loops
<1>2. f.i \in DOMAIN f.q /\ f.i < f.j + ParQueries /\ DOMAIN f.q[f.i] = QueryFields
  BY <1>1 DEF Asks, Current, Basic
<1>3. Active(f.q[f.i])
  <2>1. CASE f.at = "again"
    BY <2>1, <1>1 DEF Asks, Current, Active
  <2>2. CASE f.at # "again"
    <3>1. Kept(f.q[f.i]) /\ f.q[f.i].state # "DONE"
      BY <2>2, <1>1, <1>2 DEF Asks, Current
    <3>. QED BY <3>1 DEF Kept, Active
  <2>. QED BY <2>1, <2>2
<1>. QED BY <1>1, <1>2, <1>3 DEF Asks, Unsent, Ready

LEMMA ExecStays ==
  ASSUME NEW f, Calling(f), f.at \in {"send", "events", "again"}, NEW r, Sound(r, f.q[f.i], Question(f)), NEW fired
  PROVE  LET g == [f EXCEPT !.q[f.i] = r.st, !.rv = r.rv, !.fired = fired]
         IN  /\ r.rv = "OK" => Stays([g EXCEPT !.at = "judge", !.ans = [ent |-> r.ent, ns |-> r.ns]], f)
             /\ r.rv \in {"NAMEERR", "FATALERR"} => \A ans : Stays(Done(g, r.rv, ans), f)
             /\ r.rv = "RETRY" => Stays([g EXCEPT !.at = "again"], f)
             /\ r.rv \notin {"OK", "NAMEERR", "FATALERR", "RETRY"} => Stays(Continue(g), f)
<1>. DEFINE g == [f EXCEPT !.q[f.i] = r.st, !.rv = r.rv, !.fired = fired]
            ans == [ent |-> r.ent, ns |-> r.ns]
            h == [g EXCEPT !.at = "judge", !.ans = ans]
            a == [g EXCEPT !.at = "again"]
<1>1. /\ Basic(f) /\ f.i \in DOMAIN f.q /\ f.i < f.j + ParQueries /\ DOMAIN f.q[f.i] = QueryFields /\ Active(f.q[f.i])
      /\ \A k \in DOMAIN f.q : k # f.i => Kept(f.q[k])
      /\ \A k \in DOMAIN f.q : k >= f.j + ParQueries => f.q[k].state = "INITIAL"
      /\ f.ctx = "send" => \A k \in DOMAIN f.q : k > f.i => f.q[k].state = "INITIAL"
      /\ f.ctx = "events" =>
           \A k \in f.ready : k \in DOMAIN f.q /\ k < f.j + ParQueries /\ (k > f.i => f.q[k].state # "DONE")
  BY AboutToExec
<1>2. /\ f.j \in Nat \ {0} /\ f.i \in Nat /\ Len(f.q) \in Nat /\ DOMAIN f.q = 1..Len(f.q) /\ ParQueries \in Nat \ {0}
  BY <1>1, BatchEnds
<1>3. SameServer(r.st, f.q[f.i])
  BY DEF Sound
<1>4. /\ IsCall(g) /\ g.at = f.at /\ g.kind = f.kind /\ g.name = f.name /\ g.q = [f.q EXCEPT ![f.i] = r.st]
      /\ g.j = f.j /\ g.i = f.i /\ g.cached = f.cached /\ g.serv = f.serv /\ g.saved = f.saved /\ g.rv = r.rv
      /\ g.ctx = f.ctx /\ g.ready = f.ready
  BY <1>1 DEF Basic, IsCall, Fields, Contexts
<1>. HIDE DEF g
<1>5. /\ DOMAIN g.q = DOMAIN f.q /\ g.q[f.i] = r.st /\ \A k \in DOMAIN f.q : k # f.i => g.q[k] = f.q[k]
      /\ Basic(g) /\ (Kept(r.st) => Loose(g))
      /\ \A k \in DOMAIN g.q : k >= g.j + ParQueries => g.q[k].state = "INITIAL"
  BY <1>1, <1>3, <1>4, QueryChanges
<1>6. /\ g.ctx = "send" => \A k \in DOMAIN g.q : k > g.i => g.q[k].state = "INITIAL"
      /\ g.ctx = "events" =>
           \A k \in g.ready : k \in DOMAIN g.q /\ k < g.j + ParQueries /\ (k > g.i => g.q[k].state # "DONE")
  <2>1. \A k \in DOMAIN f.q : k > f.i => k # f.i
    BY <1>2
  <2>. QED BY <2>1, <1>1, <1>4, <1>5
<1>7. r.rv # "RETRY" => Kept(r.st)
  BY DEF Sound, Kept
<1>8. r.rv \notin {"CACHED", "STALE"}
  BY DEF Sound, Verdicts, RCODES
<1>9. ASSUME r.rv = "OK" PROVE Stays(h, f)
  <2>1. /\ IsCall(h) /\ h.at = "judge" /\ h.kind = f.kind /\ h.name = f.name /\ h.q = g.q
        /\ h.j = f.j /\ h.i = f.i /\ h.cached = f.cached /\ h.serv = f.serv /\ h.saved = f.saved /\ h.rv = r.rv
        /\ h.ctx = f.ctx /\ h.ready = f.ready /\ h.ans.ent = r.ent /\ h.ans.ns = r.ns
    BY <1>4 DEF IsCall, Fields, Contexts
  <2>. HIDE DEF h, ans
  <2>2. Basic(h)
    BY <2>1, <1>2, <1>4, <1>5, BasicKept
  <2>3. Question(f) # Nothing /\ Question(f).name = f.name
    <3>1. DOMAIN Question(f) = {"name", "type"} /\ DOMAIN Nothing = {"none"} /\ "name" # "none"
      BY DEF Question, Nothing
    <3>. QED BY <3>1 DEF Question
  <2>4. r.st.state = "DONE" /\ IsStored(r.ent) /\ r.ent.qname = f.name /\ Pairs(r.ns)
    <3>1. "OK" \in Verdicts
      BY DEF Verdicts, RCODES
    <3>. QED BY <3>1, <2>3, <1>9 DEF Sound
  <2>5. Loose(g)
    BY <1>5, <1>7, <1>9
  <2>6. Unsent(h) /\ Ready(h)
    BY <1>4, <1>5, <1>6, <2>1 DEF Unsent, Ready
  <2>7. Current(h)
    BY <1>1, <1>4, <1>5, <2>1, <2>4 DEF Current, AtOne
  <2>8. Asks(h)
    BY <2>1, <2>5, <2>6, <2>7, <1>8 DEF Asks, Loose, Founded
  <2>. QED BY <2>1, <2>2, <2>8, CallingPlaces DEF Stays, Calling, Loops, AtOne
<1>10. ASSUME r.rv \in {"NAMEERR", "FATALERR"}, NEW x PROVE Stays(Done(g, r.rv, x), f)
  <2>1. Loose(g)
    BY <1>5, <1>7, <1>10
  <2>2. Stays(Done(g, r.rv, x), g)
    BY <2>1, <1>10, DoneStays
  <2>. QED BY <2>2, <1>4 DEF Stays
<1>11. ASSUME r.rv = "RETRY" PROVE Stays(a, f)
  <2>1. /\ IsCall(a) /\ a.at = "again" /\ a.kind = f.kind /\ a.name = f.name /\ a.q = g.q
        /\ a.j = f.j /\ a.i = f.i /\ a.cached = f.cached /\ a.serv = f.serv /\ a.saved = f.saved /\ a.rv = r.rv
        /\ a.ctx = f.ctx /\ a.ready = f.ready
    BY <1>4 DEF IsCall, Fields, Contexts
  <2>. HIDE DEF a
  <2>2. Basic(a)
    BY <2>1, <1>2, <1>4, <1>5, BasicKept
  <2>3. Resumes(r.st)
    BY <1>11 DEF Sound
  <2>4. Unsent(a) /\ Ready(a)
    BY <1>4, <1>5, <1>6, <2>1 DEF Unsent, Ready
  <2>5. Current(a)
    BY <1>1, <1>4, <1>5, <2>1, <2>3 DEF Current, AtOne
  <2>6. \A k \in DOMAIN a.q : Kept(a.q[k]) \/ k = a.i
    BY <1>1, <1>5, <2>1
  <2>7. Asks(a)
    BY <1>11, <2>1, <2>4, <2>5, <2>6 DEF Asks, Founded
  <2>. QED BY <2>1, <2>2, <2>7, CallingPlaces DEF Stays, Calling, Loops, AtOne
<1>12. ASSUME r.rv \notin {"OK", "NAMEERR", "FATALERR", "RETRY"} PROVE Stays(Continue(g), f)
  <2>1. Turns(g)
    BY <1>4, <1>5, <1>6, <1>7, <1>8, <1>12 DEF Turns, Waits
  <2>2. Stays(Continue(g), g)
    BY <2>1, ContinueStays
  <2>. QED BY <2>2, <1>4 DEF Stays
<1>. QED BY <1>9, <1>10, <1>11, <1>12 DEF g

\* Where a call waits for its sockets.
LEMMA AtPoll ==
  ASSUME NEW f, Calling(f), f.at = "poll"
  PROVE  /\ Loose(f) /\ Pending(f) \subseteq 1..Len(f.q) /\ Len(f.q) \in Nat
         /\ \A k \in Pending(f) : k \in DOMAIN f.q /\ k < f.j + ParQueries /\ f.q[k].state # "DONE"
<1>1. Basic(f) /\ Asks(f)
  BY DEF Calling, Loops
<1>2. Loose(f)
  BY <1>1 DEF Loose, Asks, Unsent
<1>3. /\ Len(f.q) \in Nat /\ Mc(f) \in Int /\ Mc(f) <= Len(f.q)
      /\ \A k \in 1..Mc(f) : k \in DOMAIN f.q /\ k < f.j + ParQueries
  BY <1>1, BatchEnds
<1>. QED BY <1>2, <1>3 DEF Pending, IsDone

LEMMA PollReportsStays ==
  ASSUME NEW f, Calling(f), f.at = "poll", NEW ready \in (SUBSET Pending(f)) \ {{}}
  PROVE  Stays([f EXCEPT !.at = "events", !.ctx = "events", !.ready = ready, !.i = Min(ready), !.rv = "SERVFAIL"], f)
<1>1. /\ Loose(f) /\ Pending(f) \subseteq 1..Len(f.q) /\ Len(f.q) \in Nat
      /\ \A k \in Pending(f) : k \in DOMAIN f.q /\ k < f.j + ParQueries /\ f.q[k].state # "DONE"
  BY AtPoll
<1>. DEFINE l == Min(ready)
            g == [f EXCEPT !.at = "events", !.ctx = "events", !.ready = ready, !.i = l, !.rv = "SERVFAIL"]
<1>2. l \in ready
  <2>1. ready \subseteq Pending(f) /\ ready # {}
    OBVIOUS
  <2>. QED BY <1>1, <2>1, LeastExists
<1>. HIDE DEF l
<1>3. /\ IsCall(g) /\ g.at = "events" /\ g.rv = "SERVFAIL" /\ g.saved = f.saved
      /\ g.kind = f.kind /\ g.name = f.name /\ g.q = f.q /\ g.j = f.j /\ g.i = l /\ g.cached = f.cached
      /\ g.serv = f.serv /\ g.ctx = "events" /\ g.ready = ready
  BY <1>1 DEF Loose, Basic, IsCall, Fields, Contexts
<1>. HIDE DEF g
<1>4. l \in Pending(f) /\ l \in Nat /\ f.j \in Nat \ {0}
  BY <1>1, <1>2 DEF Loose, Basic
<1>5. Basic(g)
  BY <1>1, <1>3, <1>4, BasicKept DEF Loose
<1>6. Unsent(g) /\ Ready(g) /\ Current(g) /\ Founded(g)
  BY <1>1, <1>2, <1>3, <1>4 DEF Loose, Unsent, Ready, Current, Founded, AtOne
<1>7. Asks(g)
  BY <1>1, <1>3, <1>6 DEF Asks, Loose
<1>. QED BY <1>3, <1>5, <1>7, CallingPlaces DEF Stays, Calling, Loops, AtOne, g, l

LEMMA PollTimesOutStays ==
  ASSUME NEW f, Calling(f), f.at = "poll"
  PROVE  Stays([f EXCEPT !.at = "timeouts", !.ctx = "timeouts", !.i = f.j, !.fired = FALSE, !.rv = "SERVFAIL"], f)
<1>1. Loose(f)
  BY AtPoll
<1>. DEFINE no == FALSE
            g == [f EXCEPT !.at = "timeouts", !.ctx = "timeouts", !.i = f.j, !.fired = no, !.rv = "SERVFAIL"]
<1>. HIDE DEF no
<1>3. /\ IsCall(g) /\ g.at = "timeouts" /\ g.rv = "SERVFAIL" /\ g.saved = f.saved
      /\ g.kind = f.kind /\ g.name = f.name /\ g.q = f.q /\ g.j = f.j /\ g.i = f.j /\ g.cached = f.cached
      /\ g.serv = f.serv /\ g.ctx = "timeouts"
  BY <1>1 DEF Loose, Basic, IsCall, Fields, Contexts
<1>. HIDE DEF g
<1>4. f.j \in Nat \ {0}
  BY <1>1 DEF Loose, Basic
<1>5. Basic(g)
  BY <1>1, <1>3, <1>4, BasicKept DEF Loose
<1>6. Unsent(g) /\ Ready(g) /\ Current(g) /\ Founded(g)
  BY <1>1, <1>3, <1>4 DEF Loose, Unsent, Ready, Current, Founded, AtOne
<1>7. Asks(g)
  BY <1>1, <1>3, <1>6 DEF Asks, Loose
<1>. QED BY <1>3, <1>5, <1>7, CallingPlaces DEF Stays, Calling, Loops, AtOne, g, no

LEMMA NothingPendingStays ==
  ASSUME NEW f, Calling(f), f.at = "poll" PROVE Stays(NextBatch([f EXCEPT !.rv = "SERVFAIL"]), f)
<1>. DEFINE g == [f EXCEPT !.rv = "SERVFAIL"]
<1>1. Loose(f)
  BY AtPoll
<1>2. /\ IsCall(g) /\ g.rv = "SERVFAIL" /\ g.saved = f.saved
      /\ g.kind = f.kind /\ g.name = f.name /\ g.q = f.q /\ g.j = f.j /\ g.i = f.i /\ g.cached = f.cached
      /\ g.serv = f.serv
  BY <1>1 DEF Loose, Basic, IsCall, Fields, Contexts
<1>. HIDE DEF g
<1>3. Waits(g)
  BY <1>1, <1>2, BasicKept DEF Waits, Loose, Basic
<1>4. Stays(NextBatch(g), g)
  BY <1>3, NextBatchStays
<1>. QED BY <1>2, <1>4 DEF Stays, g

\* Where it goes through the batch after poll() has timed out.
LEMMA AtTimeouts ==
  ASSUME NEW f, Calling(f), f.at = "timeouts"
  PROVE  Loose(f) /\ Turns(f) /\ Asks(f) /\ f.ctx = "timeouts" /\ f.i # 0
<1>1. Basic(f) /\ Asks(f)
  BY DEF Calling, Loops
<1>2. Loose(f)
  BY <1>1 DEF Loose, Asks, Unsent
<1>3. Waits(f)
  BY <1>1, <1>2 DEF Waits, Asks, Founded
<1>. QED BY <1>1, <1>2, <1>3 DEF Turns, Asks, Current

LEMMA EndTimeOutsStays ==
  ASSUME NEW f, Calling(f), f.at = "timeouts"
  PROVE  Stays([f EXCEPT !.at = "poll"], f) /\ Stays(NextBatch(f), f)
<1>. DEFINE g == [f EXCEPT !.at = "poll"]
<1>1. Loose(f) /\ Waits(f) /\ Asks(f)
  BY AtTimeouts DEF Turns
<1>2. /\ IsCall(g) /\ g.at = "poll" /\ g.rv = f.rv /\ g.saved = f.saved
      /\ g.kind = f.kind /\ g.name = f.name /\ g.q = f.q /\ g.j = f.j /\ g.i = f.i /\ g.cached = f.cached
      /\ g.serv = f.serv /\ g.ctx = f.ctx
  BY <1>1 DEF Loose, Basic, IsCall, Fields, Contexts
<1>. HIDE DEF g
<1>3. Basic(g)
  BY <1>1, <1>2, BasicKept DEF Loose, Basic
<1>4. Asks(g)
  BY <1>1, <1>2 DEF Waits, Loose, Asks, Unsent, Ready, Current, Founded, AtOne
<1>5. Stays(g, f)
  BY <1>2, <1>3, <1>4, CallingPlaces DEF Stays, Calling, Loops
<1>. QED BY <1>1, <1>5, NextBatchStays DEF g

LEMMA TestingChanged ==
  ASSUME NEW st, DOMAIN st = QueryFields, NEW x
  PROVE  LET s == [st EXCEPT !.testing = x]
         IN  SameServer(s, st) /\ s.state = st.state /\ s.open = st.open /\ s.asked = st.asked /\ s.qm = st.qm
BY DEF SameServer, QueryFields

LEMMA TentativeResumes ==
  ASSUME NEW st, DOMAIN st = QueryFields, Tidy(st), TentativeTcp(st)
  PROVE  Resumes(SwitchToUdp(st)) /\ SameServer(SwitchToUdp(st), st)
BY DEF TentativeTcp, Tidy, Resumes, SwitchToUdp, SameServer, QueryFields, Waiting

LEMMA TimeOutStays ==
  ASSUME NEW f, Calling(f), f.at = "timeouts", f.i <= Mc(f), NEW x
  PROVE  LET g == [f EXCEPT !.q[f.i].testing = x]
             st == g.q[g.i]
         IN  /\ TentativeTcp(st) => Stays([g EXCEPT !.q[g.i] = SwitchToUdp(st), !.at = "again"], f)
             /\ ~TentativeTcp(st) => Stays(Continue(g), f)
<1>. DEFINE s == [f.q[f.i] EXCEPT !.testing = x]
            g == [f EXCEPT !.q[f.i] = s]
            st == g.q[g.i]
            u == SwitchToUdp(st)
            h == [g EXCEPT !.q[g.i] = u, !.at = "again"]
<1>1. Loose(f) /\ Turns(f) /\ Asks(f) /\ f.ctx = "timeouts" /\ f.i # 0 /\ Basic(f)
  BY AtTimeouts DEF Loose
<1>2. f.i \in DOMAIN f.q /\ f.i < f.j + ParQueries
  BY <1>1, BatchEnds
<1>3. DOMAIN f.q[f.i] = QueryFields /\ Kept(f.q[f.i])
  BY <1>1, <1>2 DEF Loose, Basic
<1>4. SameServer(s, f.q[f.i]) /\ Kept(s) /\ DOMAIN s = QueryFields /\ Tidy(s)
  <2>1. SameServer(s, f.q[f.i]) /\ s.state = f.q[f.i].state /\ s.open = f.q[f.i].open /\ s.asked = f.q[f.i].asked
    BY <1>3, TestingChanged
  <2>. HIDE DEF s
  <2>. QED BY <1>3, <2>1 DEF Kept, Tidy, SameServer
<1>. HIDE DEF s
<1>5. /\ IsCall(g) /\ g.at = "timeouts" /\ g.rv = f.rv /\ g.saved = f.saved
      /\ g.kind = f.kind /\ g.name = f.name /\ g.q = [f.q EXCEPT ![f.i] = s] /\ g.j = f.j /\ g.i = f.i
      /\ g.cached = f.cached /\ g.serv = f.serv /\ g.ctx = "timeouts"
  BY <1>1 DEF Loose, Basic, IsCall, Fields, Contexts
<1>. HIDE DEF g
<1>6. /\ DOMAIN g.q = DOMAIN f.q /\ g.q[f.i] = s /\ Basic(g) /\ Loose(g)
  BY <1>1, <1>2, <1>4, <1>5, QueryChanges DEF Loose
<1>7. Turns(g)
  BY <1>1, <1>5, <1>6 DEF Turns, Waits
<1>8. Stays(Continue(g), f)
  <2>1. Stays(Continue(g), g)
    BY <1>7, ContinueStays
  <2>. QED BY <2>1, <1>5 DEF Stays
<1>9. ASSUME TentativeTcp(st) PROVE Stays(h, f)
  <2>1. st = s /\ Resumes(u) /\ SameServer(u, s)
    BY <1>4, <1>5, <1>6, <1>9, TentativeResumes
  <2>. HIDE DEF u
  <2>2. /\ IsCall(h) /\ h.at = "again" /\ h.rv = f.rv /\ h.saved = f.saved
        /\ h.kind = f.kind /\ h.name = f.name /\ h.q = [g.q EXCEPT ![g.i] = u] /\ h.j = f.j /\ h.i = f.i
        /\ h.cached = f.cached /\ h.serv = f.serv /\ h.ctx = "timeouts"
    BY <1>5 DEF IsCall, Fields, Contexts
  <2>. HIDE DEF h
  <2>3. g.i \in DOMAIN g.q /\ g.i < g.j + ParQueries
    BY <1>2, <1>5, <1>6
  <2>4. /\ DOMAIN h.q = DOMAIN g.q /\ h.q[g.i] = u /\ (\A k \in DOMAIN g.q : k # g.i => h.q[k] = g.q[k])
        /\ Basic(h) /\ \A k \in DOMAIN h.q : k >= h.j + ParQueries => h.q[k].state = "INITIAL"
    <3>1. SameServer(u, g.q[g.i])
      BY <2>1, <1>5, <1>6
    <3>2. (\A k \in DOMAIN g.q : k # g.i => Kept(g.q[k]))
          /\ \A k \in DOMAIN g.q : k >= g.j + ParQueries => g.q[k].state = "INITIAL"
      BY <1>6 DEF Loose
    <3>. QED BY <1>5, <1>6, <2>2, <2>3, <3>1, <3>2, QueryChanges
  <2>5. Unsent(h) /\ Ready(h) /\ Founded(h)
    BY <1>7, <1>5, <2>2, <2>4 DEF Unsent, Ready, Founded, Turns, Waits
  <2>6. Current(h)
    BY <1>2, <1>5, <1>6, <2>1, <2>2, <2>4 DEF Current, AtOne
  <2>7. Asks(h)
    BY <1>5, <1>6, <2>2, <2>4, <2>5, <2>6 DEF Asks, Loose
  <2>. QED BY <2>2, <2>4, <2>7, CallingPlaces DEF Stays, Calling, Loops, AtOne
<1>. QED BY <1>8, <1>9 DEF g, s

-----------------------------------------------------------------------------
(* Judging an answer, and what is done about it. *)

\* Where an answer is judged.
LEMMA AtJudge ==
  ASSUME NEW f, Calling(f), f.at \in {"judge", "names"}
  PROVE  /\ Loose(f) /\ Basic(f) /\ f.rv \notin {"CACHED", "STALE"} /\ f.i \in DOMAIN f.q /\ f.i < f.j + ParQueries
         /\ DOMAIN f.q[f.i] = QueryFields /\ f.q[f.i].state = "DONE" /\ Tidy(f.q[f.i])
         /\ IsStored(f.ans.ent) /\ f.ans.ent.qname = f.name /\ Pairs(f.ans.ns)
         /\ Unsent(f) /\ Ready(f)
         /\ f.ctx = "send" => \A k \in DOMAIN f.q : k > f.i => f.q[k].state = "INITIAL"
         /\ f.ctx = "events" =>
              \A k \in f.ready : k \in DOMAIN f.q /\ k < f.j + ParQueries /\ (k > f.i => f.q[k].state # "DONE")
<1>1. Basic(f) /\ Asks(f) /\ f.at \in AtOne /\ f.at # "again"
  BY DEF Calling, Loops, AtOne
<1>2. f.i \in DOMAIN f.q /\ f.i < f.j + ParQueries /\ f.q[f.i].state = "DONE"
      /\ IsStored(f.ans.ent) /\ f.ans.ent.qname = f.name /\ Pairs(f.ans.ns)
  BY <1>1 DEF Asks, Current
<1>3. DOMAIN f.q[f.i] = QueryFields /\ Tidy(f.q[f.i])
  BY <1>1, <1>2 DEF Asks, Basic, Kept
<1>4. Loose(f)
  BY <1>1 DEF Asks, Loose, Unsent
<1>. QED BY <1>1, <1>2, <1>3, <1>4 DEF Asks, Founded, Unsent, Ready

LEMMA Saved ==
  ASSUME NEW f, Calling(f), f.at \in {"judge", "names"}, NEW authok
  PROVE  LET g == Save(f, authok)
         IN  /\ IsCall(g) /\ g.at = f.at /\ g.rv = f.rv /\ g.kind = f.kind /\ g.name = f.name /\ g.q = f.q /\ g.j = f.j
             /\ g.i = f.i /\ g.cached = f.cached /\ g.serv = f.serv /\ g.ctx = f.ctx /\ g.ready = f.ready
             /\ g.saved # Nothing /\ Basic(g)
<1>1. /\ Loose(f) /\ Basic(f) /\ f.i \in DOMAIN f.q /\ IsStored(f.ans.ent) /\ f.ans.ent.qname = f.name
  BY AtJudge
<1>. DEFINE qual == Quality(f.q[f.i], authok)
            new == [ent |-> f.ans.ent, serv |-> f.serv, qual |-> qual, by |-> f.i]
            h == [f EXCEPT !.saved = new]
<1>2. Save(f, authok) = IF f.saved = Nothing \/ qual > f.saved.qual THEN h ELSE f
  BY DEF Save
<1>3. new # Nothing
  <2>1. DOMAIN new = {"ent", "serv", "qual", "by"} /\ DOMAIN Nothing = {"none"} /\ "ent" # "none"
    BY DEF Nothing
  <2>. HIDE DEF new
  <2>. QED BY <2>1
<1>4. new.ent = f.ans.ent /\ new.serv = f.serv /\ new.by = f.i
  OBVIOUS
<1>. HIDE DEF new, qual
<1>5. /\ IsCall(h) /\ h.at = f.at /\ h.rv = f.rv /\ h.kind = f.kind /\ h.name = f.name /\ h.q = f.q /\ h.j = f.j
      /\ h.i = f.i /\ h.cached = f.cached /\ h.serv = f.serv /\ h.ctx = f.ctx /\ h.ready = f.ready
      /\ h.saved = new
  BY <1>1 DEF Basic, IsCall, Fields, Contexts
<1>. HIDE DEF h
<1>6. Basic(h)
  BY <1>1, <1>4, <1>5 DEF Basic, Saves
<1>. QED BY <1>1, <1>2, <1>3, <1>5, <1>6 DEF Basic

LEMMA SwitchedToTcp ==
  ASSUME NEW st, DOMAIN st = QueryFields, st.state = "DONE", Tidy(st)
  PROVE  SameServer(SwitchToTcp(st), st) /\ Kept(SwitchToTcp(st)) /\ SwitchToTcp(st).state = "INITIAL"
BY DEF SwitchToTcp, SameServer, Kept, Tidy, QueryFields, Waiting

LEMMA JudgedStays ==
  ASSUME NEW f, Calling(f), f.at \in {"judge", "names"}, NEW authok PROVE Stays(Judged(f, authok), f)
<1>. DEFINE qs == f.q[f.i]
            again == f.ctx # "timeouts" /\ qs.qm = "UDP_TCP" /\ qs.tc
            g == Save(f, authok)
            ans == [ent |-> f.ans.ent, by |-> f.i]
            tcp == SwitchToTcp(qs)
            none == <<>>
            h == [g EXCEPT !.q[f.i] = tcp, !.serv = none, !.at = f.ctx]
            c == [g EXCEPT !.serv = none]
<1>1. Judged(f, authok) \in {Done(f, "OK", ans), Continue(c)} \union (IF again THEN {h} ELSE {})
  BY DEF Judged
<1>2. /\ Loose(f) /\ Basic(f) /\ f.rv \notin {"CACHED", "STALE"} /\ f.i \in DOMAIN f.q /\ f.i < f.j + ParQueries
      /\ DOMAIN f.q[f.i] = QueryFields /\ f.q[f.i].state = "DONE" /\ Tidy(f.q[f.i])
      /\ IsStored(f.ans.ent) /\ f.ans.ent.qname = f.name /\ Pairs(f.ans.ns)
      /\ Unsent(f) /\ Ready(f)
      /\ f.ctx = "send" => \A k \in DOMAIN f.q : k > f.i => f.q[k].state = "INITIAL"
      /\ f.ctx = "events" =>
           \A k \in f.ready : k \in DOMAIN f.q /\ k < f.j + ParQueries /\ (k > f.i => f.q[k].state # "DONE")
  BY AtJudge
<1>3. Stays(Done(f, "OK", ans), f)
  <2>1. Answers(f, ans)
    BY <1>2 DEF Answers
  <2>. HIDE DEF ans
  <2>. QED BY <1>2, <2>1, DoneStays
<1>4. /\ IsCall(g) /\ g.at = f.at /\ g.rv = f.rv /\ g.kind = f.kind /\ g.name = f.name /\ g.q = f.q /\ g.j = f.j
      /\ g.i = f.i /\ g.cached = f.cached /\ g.serv = f.serv /\ g.ctx = f.ctx /\ g.ready = f.ready
      /\ g.saved # Nothing /\ Basic(g)
  BY Saved
<1>5. ToAsk(f.name, none)
  BY NobodyToAsk
<1>. HIDE DEF g, none
<1>6. /\ IsCall(c) /\ c.at = f.at /\ c.rv = f.rv /\ c.kind = f.kind /\ c.name = f.name /\ c.q = f.q /\ c.j = f.j
      /\ c.i = f.i /\ c.cached = f.cached /\ c.serv = none /\ c.ctx = f.ctx /\ c.ready = f.ready
      /\ c.saved = g.saved
  BY <1>4 DEF IsCall, Fields, Contexts
<1>. HIDE DEF c
<1>7. Basic(c)
  BY <1>4, <1>5, <1>6 DEF Basic, Saves
<1>8. Stays(Continue(c), f)
  <2>1. Turns(c)
    BY <1>2, <1>4, <1>6, <1>7 DEF Turns, Waits, Loose
  <2>2. Stays(Continue(c), c)
    BY <2>1, ContinueStays
  <2>. QED BY <2>2, <1>6 DEF Stays
<1>9. ASSUME again PROVE Stays(h, f)
  <2>1. SameServer(tcp, f.q[f.i]) /\ Kept(tcp) /\ tcp.state = "INITIAL"
    BY <1>2, SwitchedToTcp
  <2>. HIDE DEF tcp
  <2>2. f.ctx \in {"send", "events"}
    BY <1>2, <1>9 DEF Basic, IsCall, Contexts
  <2>3. /\ IsCall(h) /\ h.at = f.ctx /\ h.rv = f.rv /\ h.kind = f.kind /\ h.name = f.name
        /\ h.q = [f.q EXCEPT ![f.i] = tcp] /\ h.j = f.j
        /\ h.i = f.i /\ h.cached = f.cached /\ h.serv = none /\ h.ctx = f.ctx /\ h.ready = f.ready
        /\ h.saved = g.saved
    BY <1>4 DEF IsCall, Fields, Contexts
  <2>. HIDE DEF h
  <2>4. /\ DOMAIN h.q = DOMAIN c.q /\ h.q[c.i] = tcp /\ (\A k \in DOMAIN c.q : k # c.i => h.q[k] = c.q[k])
        /\ Loose(h) /\ Basic(h)
    <3>1. /\ c.i \in DOMAIN c.q /\ c.i < c.j + ParQueries /\ SameServer(tcp, c.q[c.i])
          /\ (\A k \in DOMAIN c.q : k # c.i => Kept(c.q[k]))
          /\ \A k \in DOMAIN c.q : k >= c.j + ParQueries => c.q[k].state = "INITIAL"
      BY <1>2, <1>6, <2>1 DEF Loose
    <3>. QED BY <1>6, <1>7, <2>1, <2>3, <3>1, QueryChanges
  <2>5. Unsent(h)
    BY <1>2, <1>6, <2>1, <2>2, <2>3, <2>4 DEF Unsent, Loose
  <2>6. Ready(h)
    BY <1>2, <1>6, <2>1, <2>2, <2>3, <2>4 DEF Ready
  <2>7. Current(h) /\ Founded(h)
    BY <1>2, <1>4, <1>6, <2>1, <2>2, <2>3, <2>4 DEF Current, Founded, AtOne
  <2>8. Asks(h)
    BY <2>4, <2>5, <2>6, <2>7 DEF Asks, Loose
  <2>. QED BY <2>2, <2>3, <2>4, <2>8, CallingPlaces DEF Stays, Calling, Loops, AtOne
<1>. QED BY <1>1, <1>3, <1>8, <1>9

\* On with the name servers to look up.
LEMMA NamesStay ==
  ASSUME NEW f, Calling(f), f.at \in {"judge", "names"},
         NEW g, IsCall(g), g.at = "names", g.rv = f.rv, g.kind = f.kind, g.name = f.name, g.q = f.q, g.j = f.j,
         g.i = f.i, g.cached = f.cached, g.ctx = f.ctx, g.ready = f.ready, g.saved = f.saved, g.ans = f.ans,
         ToDo(f.name, g.todo), ToAsk(f.name, g.serv)
  PROVE  Stays(g, f)
<1>1. /\ Loose(f) /\ Basic(f) /\ f.rv \notin {"CACHED", "STALE"} /\ f.i \in DOMAIN f.q /\ f.i < f.j + ParQueries
      /\ f.q[f.i].state = "DONE" /\ IsStored(f.ans.ent) /\ f.ans.ent.qname = f.name /\ Pairs(f.ans.ns)
      /\ f.ctx = "send" => \A k \in DOMAIN f.q : k > f.i => f.q[k].state = "INITIAL"
      /\ f.ctx = "events" =>
           \A k \in f.ready : k \in DOMAIN f.q /\ k < f.j + ParQueries /\ (k > f.i => f.q[k].state # "DONE")
  BY AtJudge
<1>3. Basic(g)
  BY <1>1 DEF Basic, Saves
<1>4. Unsent(g) /\ Ready(g)
  BY <1>1 DEF Loose, Unsent, Ready
<1>5. Current(g) /\ Founded(g)
  BY <1>1 DEF Current, Founded, AtOne
<1>6. Asks(g)
  BY <1>1, <1>4, <1>5 DEF Asks, Loose
<1>. QED BY <1>3, <1>6, CallingPlaces DEF Stays, Calling, Loops, AtOne

LEMMA NamesBegin ==
  ASSUME Stored(cache), NEW f, Calling(f), f.at = "judge"
  PROVE  Stays([f EXCEPT !.at = "names", !.todo = NameServersFor(f.ans.ns, f.name)], f)
<1>. DEFINE todo == NameServersFor(f.ans.ns, f.name)
            g == [f EXCEPT !.at = "names", !.todo = todo]
<1>1. Pairs(f.ans.ns) /\ Basic(f)
  BY AtJudge
<1>2. ToDo(f.name, todo)
  BY <1>1, NameServersToDo
<1>. HIDE DEF todo
<1>3. /\ IsCall(g) /\ g.at = "names" /\ g.rv = f.rv /\ g.kind = f.kind /\ g.name = f.name /\ g.q = f.q /\ g.j = f.j
      /\ g.i = f.i /\ g.cached = f.cached /\ g.ctx = f.ctx /\ g.ready = f.ready /\ g.saved = f.saved
      /\ g.ans = f.ans /\ g.todo = todo /\ g.serv = f.serv
  BY <1>1 DEF Basic, IsCall, Fields, Contexts
<1>. HIDE DEF g
<1>4. ToAsk(f.name, g.serv) /\ ToDo(f.name, g.todo)
  BY <1>1, <1>2, <1>3 DEF Basic
<1>5. Stays(g, f)
  BY <1>3, <1>4, NamesStay
<1>. QED BY <1>5 DEF g, todo

LEMMA AtNames ==
  ASSUME NEW f, Calling(f), f.at = "names"
  PROVE  Basic(f) /\ ToDo(f.name, f.todo) /\ Calling(f)
         /\ (f.todo # <<>> => /\ IsList(Head(f.todo)[2]) /\ (Paranoid => Within(f.name, Head(f.todo)[1]))
                              /\ ToDo(f.name, Tail(f.todo)))
<1>1. Basic(f) /\ ToDo(f.name, f.todo)
  BY DEF Calling, Loops, AtOne, Asks, Current
<1>2. ASSUME f.todo # <<>>
      PROVE  /\ IsList(Head(f.todo)[2]) /\ (Paranoid => Within(f.name, Head(f.todo)[1])) /\ ToDo(f.name, Tail(f.todo))
  <2>1. IsList(f.todo)
    BY <1>1 DEF ToDo
  <2>2. Head(f.todo) \in ToSet(f.todo) /\ IsList(Tail(f.todo)) /\ ToSet(Tail(f.todo)) \subseteq ToSet(f.todo)
    BY <1>2, <2>1, Lists, TailOf
  <2>. QED BY <1>1, <2>2 DEF ToDo
<1>. QED BY <1>1, <1>2

LEMMA NameSkipped ==
  ASSUME NEW f, Calling(f), f.at = "names", f.todo # <<>> PROVE Stays([f EXCEPT !.todo = Tail(@)], f)
<1>. DEFINE rest == Tail(f.todo)
            g == [f EXCEPT !.todo = rest]
<1>1. Basic(f) /\ ToDo(f.name, rest)
  BY AtNames
<1>. HIDE DEF rest
<1>3. /\ IsCall(g) /\ g.at = "names" /\ g.rv = f.rv /\ g.kind = f.kind /\ g.name = f.name /\ g.q = f.q /\ g.j = f.j
      /\ g.i = f.i /\ g.cached = f.cached /\ g.ctx = f.ctx /\ g.ready = f.ready /\ g.saved = f.saved
      /\ g.ans = f.ans /\ g.todo = rest /\ g.serv = f.serv
  BY <1>1 DEF Basic, IsCall, Fields, Contexts
<1>. HIDE DEF g
<1>4. ToAsk(f.name, g.serv) /\ ToDo(f.name, g.todo)
  BY <1>1, <1>3 DEF Basic
<1>5. Stays(g, f)
  BY <1>3, <1>4, NamesStay
<1>. QED BY <1>5 DEF g, rest

LEMMA ServersFound ==
  ASSUME NEW frames, NEW f, f = frames[Len(frames)], Calling(f), f.at = "names", f.todo # <<>>,
         NEW addrs, IsList(addrs)
  PROVE  Stays(WithServers(frames, addrs), f)
<1>. DEFINE qs == f.q[f.i]
            set == {a \in ToSet(addrs) : /\ a \notin LocalAddrs
                                         /\ \A k \in DOMAIN f.serv : f.serv[k].addr # a
                                         /\ ~AlreadyQueried(frames, a)}
            new == Among(addrs, set)
            domain == Head(f.todo)[1]
            flags == qs.flags \ NOINHERIT
            reject == Inherited(qs.rejectlist)
            more == [k \in DOMAIN new |-> NewQuery(new[k], flags, FALSE, qs.lean, qs.edns, 2, 0, ~Paranoid,
                                                   [name |-> domain], reject, method)]
            serv == f.serv \o more
            rest == Tail(f.todo)
            g == [f EXCEPT !.todo = rest, !.serv = serv]
<1>1. WithServers(frames, addrs) = g
  BY DEF WithServers
<1>2. Basic(f) /\ ToDo(f.name, rest) /\ (Paranoid => Within(f.name, domain))
  BY AtNames
<1>3. ToAsk(f.name, serv)
  <2>1. ToAsk(f.name, more)
    <3>. HIDE DEF set, domain, flags, reject, qs
    <3>. QED BY <1>2, FoundToAsk
  <2>. HIDE DEF more
  <2>. QED BY <1>2, <2>1, ToAskBoth DEF Basic
<1>. HIDE DEF serv, rest, more
<1>4. /\ IsCall(g) /\ g.at = "names" /\ g.rv = f.rv /\ g.kind = f.kind /\ g.name = f.name /\ g.q = f.q /\ g.j = f.j
      /\ g.i = f.i /\ g.cached = f.cached /\ g.ctx = f.ctx /\ g.ready = f.ready /\ g.saved = f.saved
      /\ g.ans = f.ans /\ g.todo = rest /\ g.serv = serv
  BY <1>2 DEF Basic, IsCall, Fields, Contexts
<1>. HIDE DEF g
<1>5. Stays(g, f)
  BY <1>2, <1>3, <1>4, NamesStay
<1>. QED BY <1>1, <1>5

\* A call that begins.
LEMMA CallBegins ==
  ASSUME NEW kind, NEW name, IsList(name), NEW type, NEW q, ToAsk(name, q), NEW hops, NEW hints
  PROVE  LET g == NewFrame(kind, name, type, q, hops, hints)
         IN  Calling(g) /\ g.at = "lookup" /\ g.kind = kind /\ g.name = name
<1>. DEFINE g == NewFrame(kind, name, type, q, hops, hints)
<1>1. /\ IsCall(g) /\ g.at = "lookup" /\ g.kind = kind /\ g.name = name /\ g.q = q /\ g.j = 1 /\ g.i = 1
      /\ g.cached = Nothing /\ g.serv = <<>> /\ g.saved = Nothing /\ g.rv = "SERVFAIL" /\ g.ctx = "send"
  BY DEF NewFrame, IsCall, Fields, Contexts
<1>. HIDE DEF g
<1>2. IsList(q) /\ \A k \in DOMAIN q : DOMAIN q[k] = QueryFields /\ Believed(name, q[k])
  BY DEF ToAsk, Fresh
<1>3. ToAsk(name, g.serv)
  BY <1>1, NobodyToAsk
<1>4. Basic(g)
  BY <1>1, <1>2, <1>3 DEF Basic, Saves, Perhaps
<1>. QED BY <1>1, <1>4 DEF Calling, Unstarted, g

\* The end of the queries.
LEMMA FlaggedStored ==
  ASSUME NEW e, IsStored(e) PROVE IsStored(Flagged(e)) /\ Flagged(e).qname = e.qname
<1>. DEFINE sets == [t \in DOMAIN e.sets |-> NotToBeKept(e.sets[t])]
            g == [e EXCEPT !.sets = sets]
            h == NotToBeKept(e)
<1>1. DOMAIN e = EntryFields /\ IsFiniteSet(DOMAIN e.sets) /\ \A t \in DOMAIN e.sets : IsSetOf(e.sets[t], t)
  BY StoredIs
<1>2. \A t \in DOMAIN sets : IsSetOf(sets[t], t)
  <2>1. ASSUME NEW t \in DOMAIN e.sets PROVE IsSetOf(NotToBeKept(e.sets[t]), t)
    BY <1>1, <2>1 DEF IsSetOf, NotToBeKept
  <2>2. \A t \in DOMAIN sets : t \in DOMAIN e.sets /\ sets[t] = NotToBeKept(e.sets[t])
    OBVIOUS
  <2>. HIDE DEF sets
  <2>. QED BY <2>1, <2>2
<1>3. DOMAIN sets = DOMAIN e.sets
  OBVIOUS
<1>. HIDE DEF sets
<1>4. DOMAIN g = DOMAIN e /\ g.sets = sets /\ g.qname = e.qname
  BY <1>1 DEF EntryFields
<1>5. DOMAIN h = DOMAIN e /\ h.sets = e.sets /\ h.qname = e.qname
  BY <1>1 DEF EntryFields, NotToBeKept
<1>6. IsStored(g)
  <2>. HIDE DEF g
  <2>. QED BY <1>1, <1>2, <1>3, <1>4, OtherSets
<1>7. IsStored(h)
  <2>. HIDE DEF h
  <2>. QED BY <1>5, SameSets
<1>8. Flagged(e) = IF Negative(e) THEN h ELSE g
  BY DEF Flagged, sets
<1>. QED BY <1>4, <1>5, <1>6, <1>7, <1>8

LEMMA WithCutsStored ==
  ASSUME NEW e, IsStored(e), NEW old PROVE IsStored(WithCutsOf(e, old)) /\ WithCutsOf(e, old).qname = e.qname
<1>. DEFINE g == WithCutsOf(e, old)
<1>1. DOMAIN g = DOMAIN e /\ g.sets = e.sets /\ g.qname = e.qname
  <2>1. DOMAIN e = EntryFields
    BY StoredIs
  <2>. QED BY <2>1 DEF WithCutsOf, EntryFields
<1>. HIDE DEF g
<1>2. IsStored(g)
  BY <1>1, SameSets
<1>. QED BY <1>1, <1>2 DEF g

LEMMA AllCanceled ==
  ASSUME NEW f, Basic(f), \A k \in DOMAIN f.q : Kept(f.q[k])
  PROVE  LET q == [k \in DOMAIN f.q |-> Cancel(f.q[k])]
         IN  /\ IsList(q) /\ DOMAIN q = DOMAIN f.q
             /\ \A k \in DOMAIN q : /\ DOMAIN q[k] = QueryFields /\ Believed(f.name, q[k])
                                    /\ Tidy(q[k]) /\ q[k].open = FALSE
<1>. DEFINE q == [k \in DOMAIN f.q |-> Cancel(f.q[k])]
<1>1. \A k \in DOMAIN f.q : DOMAIN f.q[k] = QueryFields /\ Believed(f.name, f.q[k])
  BY DEF Basic
<1>2. ASSUME NEW k \in DOMAIN f.q
      PROVE  /\ DOMAIN Cancel(f.q[k]) = QueryFields /\ Believed(f.name, Cancel(f.q[k]))
             /\ Tidy(Cancel(f.q[k])) /\ Cancel(f.q[k]).open = FALSE
  <2>1. Tidy(Cancel(f.q[k])) /\ Cancel(f.q[k]).open = FALSE /\ SameServer(Cancel(f.q[k]), f.q[k])
    BY <1>1, CanceledTidy DEF Kept
  <2>. QED BY <1>1, <2>1 DEF SameServer, Believed
<1>3. IsList(q) /\ DOMAIN q = DOMAIN f.q
  <2>1. Len(f.q) \in Nat /\ DOMAIN f.q = 1..Len(f.q)
    BY Lists DEF Basic
  <2>2. DOMAIN q = 1..Len(f.q) /\ q = [k \in 1..Len(f.q) |-> q[k]]
    BY <2>1
  <2>3. IsList(q)
    <3>. HIDE DEF q
    <3>. QED BY <2>1, <2>2, Mapped
  <2>. QED BY <2>3
<1>4. \A k \in DOMAIN q : k \in DOMAIN f.q /\ q[k] = Cancel(f.q[k])
  OBVIOUS
<1>5. \A k \in DOMAIN q : DOMAIN q[k] = QueryFields /\ Believed(f.name, q[k]) /\ Tidy(q[k]) /\ q[k].open = FALSE
  <2>. HIDE DEF q
  <2>. QED BY <1>2, <1>4
<1>. QED BY <1>3, <1>5

LEMMA FinishStays ==
  ASSUME NEW f0, Calling(f0), f0.at = "finish"
  PROVE  LET f == [f0 EXCEPT !.q = [k \in DOMAIN @ |-> Cancel(@[k])]]
             best == f.saved
             poor == best # Nothing /\ best.qual < GOODQUAL
             ent == IF best = Nothing THEN f.ans.ent ELSE IF poor THEN Flagged(best.ent) ELSE best.ent
             serv == IF best = Nothing THEN f.serv ELSE best.serv
             by == IF best = Nothing THEN f.ans.by ELSE best.by
             g == [f EXCEPT !.ans = [ent |-> ent, by |-> by]]
         IN  /\ best = Nothing /\ f.rv # "OK" =>
                  \A ans : Stays([f EXCEPT !.at = "result", !.rv = IF @ = "FATALERR" THEN "SERVFAIL" ELSE @,
                                           !.ans = ans], f0)
             /\ best # Nothing \/ f.rv = "OK" =>
                  /\ Stays([g EXCEPT !.at = "result", !.rv = "OK"], f0)
                  /\ ToAsk(f0.name, serv)
                  /\ \A fallback : Stays([g EXCEPT !.at = "referral", !.serv = serv, !.fallback = fallback], f0)
<1>. DEFINE q == [k \in DOMAIN f0.q |-> Cancel(f0.q[k])]
            f == [f0 EXCEPT !.q = q]
            best == f.saved
            poor == best # Nothing /\ best.qual < GOODQUAL
            ent == IF best = Nothing THEN f.ans.ent ELSE IF poor THEN Flagged(best.ent) ELSE best.ent
            serv == IF best = Nothing THEN f.serv ELSE best.serv
            by == IF best = Nothing THEN f.ans.by ELSE best.by
            fans == [ent |-> ent, by |-> by]
            g == [f EXCEPT !.ans = fans]
<1>1. Basic(f0) /\ Asks(f0) /\ \A k \in DOMAIN f0.q : Kept(f0.q[k])
  BY DEF Calling, Loops, Asks
<1>2. /\ IsList(q) /\ DOMAIN q = DOMAIN f0.q
      /\ \A k \in DOMAIN q : DOMAIN q[k] = QueryFields /\ Believed(f0.name, q[k]) /\ Tidy(q[k]) /\ q[k].open = FALSE
  BY <1>1, AllCanceled
<1>. HIDE DEF q
<1>3. /\ IsCall(f) /\ f.at = "finish" /\ f.rv = f0.rv /\ f.kind = f0.kind /\ f.name = f0.name /\ f.q = q /\ f.j = f0.j
      /\ f.i = f0.i /\ f.cached = f0.cached /\ f.serv = f0.serv /\ f.ctx = f0.ctx /\ f.saved = f0.saved /\ f.ans = f0.ans
  BY <1>1 DEF Basic, IsCall, Fields, Contexts
<1>. HIDE DEF f
<1>4. Basic(f)
  BY <1>1, <1>2, <1>3 DEF Basic, Saves
<1>5. \A k \in DOMAIN f.q : Tidy(f.q[k]) /\ f.q[k].open = FALSE
  BY <1>2, <1>3
<1>6. ASSUME f.saved = Nothing, f.rv # "OK", NEW ans
      PROVE  Stays([f EXCEPT !.at = "result", !.rv = IF @ = "FATALERR" THEN "SERVFAIL" ELSE @, !.ans = ans], f0)
  <2>. DEFINE rv == IF f.rv = "FATALERR" THEN "SERVFAIL" ELSE f.rv
              h == [f EXCEPT !.at = "result", !.rv = rv, !.ans = ans]
  <2>1. rv \notin {"OK", "CACHED", "STALE"}
    BY <1>1, <1>3, <1>6 DEF Asks, Founded
  <2>. HIDE DEF rv
  <2>2. /\ IsCall(h) /\ h.at = "result" /\ h.rv = rv /\ h.kind = f.kind /\ h.name = f.name /\ h.q = f.q /\ h.j = f.j
        /\ h.i = f.i /\ h.cached = f.cached /\ h.serv = f.serv /\ h.saved = f.saved
    BY <1>4 DEF Basic, IsCall, Fields, Contexts
  <2>. HIDE DEF h
  <2>3. Basic(h)
    BY <1>4, <2>2 DEF Basic, Saves
  <2>4. Settled(h)
    BY <1>5, <2>1, <2>2 DEF Settled, Resolved
  <2>5. Stays(h, f0)
    BY <1>3, <2>2, <2>3, <2>4, CallingPlaces DEF Stays, Calling
  <2>. QED BY <2>5 DEF h, rv
<1>7. ASSUME f.saved # Nothing \/ f.rv = "OK"
      PROVE  /\ Stays([g EXCEPT !.at = "result", !.rv = "OK"], f0)
             /\ ToAsk(f0.name, serv)
             /\ \A fallback : Stays([g EXCEPT !.at = "referral", !.serv = serv, !.fallback = fallback], f0)
  <2>1. IsStored(ent) /\ ent.qname = f.name /\ by \in DOMAIN f.q /\ ToAsk(f.name, serv)
    <3>1. CASE f.saved # Nothing
      <4>1. IsStored(best.ent) /\ best.ent.qname = f.name /\ best.by \in DOMAIN f.q /\ ToAsk(f.name, best.serv)
        BY <1>4, <3>1 DEF Basic, Saves
      <4>2. ent \in {best.ent, Flagged(best.ent)} /\ by = best.by /\ serv = best.serv
        BY <3>1
      <4>. HIDE DEF ent, by, serv, best, poor
      <4>. QED BY <4>1, <4>2, FlaggedStored
    <3>2. CASE f.saved = Nothing
      <4>1. Answers(f0, f0.ans)
        BY <1>1, <1>3, <1>7, <3>2 DEF Asks, Founded
      <4>. QED BY <1>2, <1>3, <1>4, <3>2, <4>1 DEF Answers, Basic
    <3>. QED BY <3>1, <3>2
  <2>2. fans.ent = ent /\ fans.by = by /\ DOMAIN fans = {"ent", "by"}
    OBVIOUS
  <2>. HIDE DEF ent, by, serv, fans, best, poor
  <2>3. Answers(f, fans)
    BY <2>1, <2>2 DEF Answers
  <2>4. ASSUME NEW h, IsCall(h), h.at \in {"result", "referral"}, h.kind = f.kind, h.name = f.name, h.q = f.q, h.j = f.j,
               h.i = f.i, h.cached = f.cached, h.serv \in {f.serv, serv}, h.saved = f.saved, h.ans = fans
        PROVE  Stays(h, f0)
    <3>1. Basic(h)
      BY <1>4, <2>1, <2>4 DEF Basic, Saves
    <3>2. Settled(h)
      BY <1>5, <2>3, <2>4 DEF Settled, Answers
    <3>. QED BY <1>3, <2>4, <3>1, <3>2, CallingPlaces DEF Stays, Calling
  <2>5. /\ IsCall(g) /\ g.kind = f.kind /\ g.name = f.name /\ g.q = f.q /\ g.j = f.j
        /\ g.i = f.i /\ g.cached = f.cached /\ g.serv = f.serv /\ g.saved = f.saved /\ g.ans = fans
    BY <1>4 DEF Basic, IsCall, Fields, Contexts
  <2>. HIDE DEF g
  <2>6. Stays([g EXCEPT !.at = "result", !.rv = "OK"], f0)
    <3>. DEFINE h == [g EXCEPT !.at = "result", !.rv = "OK"]
    <3>1. /\ IsCall(h) /\ h.at = "result" /\ h.kind = f.kind /\ h.name = f.name /\ h.q = f.q /\ h.j = f.j
          /\ h.i = f.i /\ h.cached = f.cached /\ h.serv = f.serv /\ h.saved = f.saved /\ h.ans = fans
      BY <2>5 DEF IsCall, Fields, Contexts
    <3>. HIDE DEF h
    <3>2. Stays(h, f0)
      BY <2>4, <3>1
    <3>. QED BY <3>2 DEF h
  <2>7. ASSUME NEW fallback PROVE Stays([g EXCEPT !.at = "referral", !.serv = serv, !.fallback = fallback], f0)
    <3>. DEFINE h == [g EXCEPT !.at = "referral", !.serv = serv, !.fallback = fallback]
    <3>1. /\ IsCall(h) /\ h.at = "referral" /\ h.kind = f.kind /\ h.name = f.name /\ h.q = f.q /\ h.j = f.j
          /\ h.i = f.i /\ h.cached = f.cached /\ h.serv = serv /\ h.saved = f.saved /\ h.ans = fans
      BY <2>5 DEF IsCall, Fields, Contexts
    <3>. HIDE DEF h
    <3>2. Stays(h, f0)
      BY <2>4, <3>1
    <3>. QED BY <3>2 DEF h
  <2>. QED BY <1>3, <2>1, <2>6, <2>7
<1>. QED BY <1>6, <1>7 DEF f, q

\* A call is over.
Quiet(f) == \A k \in DOMAIN f.q : Tidy(f.q[k]) /\ f.q[k].open = FALSE

LEMMA ReturningStays ==
  ASSUME NEW f, Basic(f), Quiet(f), NEW rc, NEW ent, NEW soa,
         rc \in {"OK", "CACHED", "STALE"} => IsStored(ent), f.kind = "auth" /\ rc = "OK" => ent.qname = f.name
  PROVE  Stays(Returning(f, rc, ent, soa), f)
<1>. DEFINE g == Returning(f, rc, ent, soa)
<1>1. /\ IsCall(g) /\ g.at = "return" /\ g.kind = f.kind /\ g.name = f.name /\ g.q = f.q /\ g.j = f.j
      /\ g.i = f.i /\ g.cached = f.cached /\ g.serv = f.serv /\ g.saved = f.saved
      /\ g.res.rc = rc /\ g.res.ent = ent
  BY DEF Basic, IsCall, Fields, Contexts, Returning, Result
<1>. HIDE DEF g
<1>2. Basic(g)
  BY <1>1 DEF Basic, Saves
<1>3. Settled(g)
  BY <1>1 DEF Settled, Quiet
<1>. QED BY <1>1, <1>2, <1>3, CallingPlaces DEF Stays, Calling, g

LEMMA FreshOver == ASSUME NEW st, Fresh(st) PROVE Tidy(st) /\ st.open = FALSE /\ Kept(st)
BY DEF Fresh, Tidy, Kept, Waiting

\* Where a call looks into the cache.
LEMMA AtLookup ==
  ASSUME NEW f, Calling(f), f.at = "lookup" PROVE Basic(f) /\ Unstarted(f) /\ Quiet(f)
<1>1. Basic(f) /\ Unstarted(f)
  BY DEF Calling, Loops, AtOne
<1>. QED BY <1>1, FreshOver DEF Unstarted, ToAsk, Quiet

LEMMA QueriesStart ==
  ASSUME NEW f, Calling(f), f.at = "lookup", NEW ent, Perhaps(ent), NEW flags, NEW serv, ToAsk(f.name, serv)
  PROVE  LET g == [f EXCEPT !.cached = ent, !.flags = flags]
         IN  Stays(IF serv = <<>> THEN [g EXCEPT !.at = "result", !.rv = "SERVFAIL"] ELSE StartQueries(g, serv), f)
<1>. DEFINE g == [f EXCEPT !.cached = ent, !.flags = flags]
            a == [g EXCEPT !.at = "result", !.rv = "SERVFAIL"]
            b == StartQueries(g, serv)
<1>1. Basic(f) /\ Unstarted(f) /\ Quiet(f)
  BY AtLookup
<1>2. Stays(a, f)
  <2>1. /\ IsCall(a) /\ a.at = "result" /\ a.kind = f.kind /\ a.name = f.name /\ a.q = f.q /\ a.j = f.j
        /\ a.i = f.i /\ a.cached = ent /\ a.serv = f.serv /\ a.saved = f.saved /\ a.rv = "SERVFAIL"
    BY <1>1 DEF Basic, IsCall, Fields, Contexts
  <2>. HIDE DEF a
  <2>2. Basic(a)
    BY <1>1, <2>1 DEF Basic, Saves
  <2>3. Settled(a)
    BY <1>1, <2>1 DEF Settled, Quiet, Resolved
  <2>. QED BY <2>1, <2>2, <2>3, CallingPlaces DEF Stays, Calling
<1>3. ASSUME serv # <<>> PROVE Stays(b, f)
  <2>1. /\ IsCall(b) /\ b.at = "send" /\ b.kind = f.kind /\ b.name = f.name /\ b.q = serv /\ b.j = 1
        /\ b.i = 1 /\ b.cached = ent /\ b.serv = f.serv /\ b.saved = f.saved /\ b.rv = f.rv /\ b.ctx = f.ctx
    BY <1>1 DEF Basic, IsCall, Fields, Contexts, StartQueries
  <2>. HIDE DEF b
  <2>2. IsList(serv) /\ \A k \in DOMAIN serv : Fresh(serv[k]) /\ Believed(f.name, serv[k])
    BY DEF ToAsk
  <2>3. /\ \A k \in DOMAIN serv : DOMAIN serv[k] = QueryFields /\ Believed(f.name, serv[k]) /\ Kept(serv[k])
        /\ \A k \in DOMAIN serv : serv[k].state = "INITIAL"
    BY <2>2, FreshOver DEF Fresh
  <2>4. 1 \in DOMAIN serv /\ 1 < 1 + ParQueries
    BY <1>3, <2>2, Lists, ParQueriesAssumption
  <2>5. Basic(b)
    BY <1>1, <2>1, <2>2, <2>3 DEF Unstarted, Basic, Saves
  <2>6. Asks(b)
    BY <1>1, <2>1, <2>3, <2>4 DEF Unstarted, Asks, Unsent, Ready, Current, Founded, AtOne
  <2>. QED BY <2>1, <2>5, <2>6, CallingPlaces DEF Stays, Calling, Loops, AtOne
<1>. QED BY <1>2, <1>3

LEMMA LookedUpStays ==
  ASSUME Configured, Stored(cache), stack # <<>>, NEW f, f = Top, Calling(f), f.at = "lookup",
         LookedUp(f, LookupCacheStatus(cache, f.name, f.type))
  PROVE  \E g : Stays(g, f) /\ Unchanged(g)
<1>. DEFINE s == LookupCacheStatus(cache, f.name, f.type)
            g == [f EXCEPT !.cached = s.ent, !.flags = s.flags]
            next(serv) == IF serv = <<>> THEN [g EXCEPT !.at = "result", !.rv = "SERVFAIL"] ELSE StartQueries(g, serv)
<1>1. Basic(f) /\ Unstarted(f) /\ Quiet(f) /\ IsList(f.name)
  BY AtLookup DEF Basic
<1>2. /\ Perhaps(s.ent) /\ (s.rc \in {"OK", "CACHED"} => IsStored(s.ent))
  BY <1>1, StatusFound
<1>3. LookedUp(f, s)
  OBVIOUS
<1>. HIDE DEF s
<1>4. \/ /\ s.rc = "OK" /\ Unchanged(Returning(f, IF f.kind = "simple" THEN "OK" ELSE "CACHED", s.ent, cundef))
      \/ s.rc = "NAMEERR" /\ Unchanged(Returning(f, "NAMEERR", Nothing, s.soa))
      \/ Unchanged(Returning(f, "SERVFAIL", Nothing, cundef))
      \/ s.rc = "CACHED" /\ Unchanged(Returning(f, "CACHED", s.ent, cundef))
      \/ AskServers(g, f.q)
      \/ \E starts \in Starts : AskServers(g, ServersFor(f.name, starts))
  BY <1>3 DEF LookedUp
<1>5. CASE s.rc = "OK" /\ Unchanged(Returning(f, IF f.kind = "simple" THEN "OK" ELSE "CACHED", s.ent, cundef))
  <2>. DEFINE rc == IF f.kind = "simple" THEN "OK" ELSE "CACHED"
  <2>1. f.kind = "auth" => rc # "OK"
    OBVIOUS
  <2>. HIDE DEF rc
  <2>2. Stays(Returning(f, rc, s.ent, cundef), f)
    BY <1>1, <1>2, <1>5, <2>1, ReturningStays
  <2>. QED BY <1>5, <2>2 DEF rc
<1>6. CASE Unchanged(Returning(f, "NAMEERR", Nothing, s.soa))
  <2>. DEFINE none == Nothing
  <2>. HIDE DEF none
  <2>1. Stays(Returning(f, "NAMEERR", none, s.soa), f)
    BY <1>1, ReturningStays
  <2>. QED BY <1>6, <2>1 DEF none
<1>7. CASE Unchanged(Returning(f, "SERVFAIL", Nothing, cundef))
  <2>. DEFINE none == Nothing
  <2>. HIDE DEF none
  <2>1. Stays(Returning(f, "SERVFAIL", none, cundef), f)
    BY <1>1, ReturningStays
  <2>. QED BY <1>7, <2>1 DEF none
<1>8. CASE s.rc = "CACHED" /\ Unchanged(Returning(f, "CACHED", s.ent, cundef))
  <2>1. Stays(Returning(f, "CACHED", s.ent, cundef), f)
    BY <1>1, <1>2, <1>8, ReturningStays
  <2>. QED BY <1>8, <2>1
<1>9. ASSUME NEW serv, ToAsk(f.name, serv), AskServers(g, serv) PROVE \E h : Stays(h, f) /\ Unchanged(h)
  <2>1. Stays(next(serv), f)
    BY <1>2, <1>9, QueriesStart
  <2>2. Unchanged(next(serv))
    BY <1>9 DEF AskServers
  <2>. HIDE DEF next
  <2>. QED BY <2>1, <2>2
<1>10. ToAsk(f.name, f.q)
  BY <1>1 DEF Unstarted
<1>11. ASSUME NEW starts \in Starts PROVE ToAsk(f.name, ServersFor(f.name, starts))
  <2>1. \A i \in DOMAIN servers : starts[i] \in Nat
    BY AddressesAssumption DEF Starts
  <2>. QED BY <1>1, <2>1, ServersToAsk
<1>. QED BY <1>4, <1>5, <1>6, <1>7, <1>8, <1>9, <1>10, <1>11

\* Where a call has its result.
LEMMA AtResult ==
  ASSUME NEW f, Calling(f), f.at = "result"
  PROVE  /\ Basic(f) /\ Settled(f) /\ Quiet(f)
         /\ Resolved(f) => IsStored(f.ans.ent)
         /\ f.rv = "OK" => Answers(f, f.ans)
<1>1. Basic(f) /\ Settled(f)
  BY DEF Calling, Loops, AtOne
<1>. QED BY <1>1 DEF Settled, Quiet

LEMMA StoreResultStays ==
  ASSUME Stored(cache), stack # <<>>, Calling(Top), StoreResult
  PROVE  /\ Top.at = "result"
         /\ \E g : Stays(g, Top) /\ Put(g)
         /\ Stored(cache')
         /\ \A n \in DOMAIN cache' : Untouched(cache', cache, n) \/ (Answers(Top, Top.ans) /\ n = Top.name)
<1>. DEFINE f == Top
            stores == f.rv = "OK" /\ f.kind # "auth" /\ ~f.q[f.ans.by].nocache
            c == IF stores THEN AddCache(cache, f.ans.ent) ELSE cache
            merged == IF stores THEN {Get(c, f.name)} \ {Nothing} ELSE {}
            ents == IF merged = {} \/ "purge" \in Faults THEN merged \union {f.ans.ent} ELSE merged
            soa == IF f.rv = "NAMEERR" THEN f.ans.soa ELSE cundef
            none == Nothing
<1>1. Top.at = "result"
  BY DEF StoreResult
<1>2. /\ Basic(f) /\ Settled(f) /\ Quiet(f) /\ (Resolved(f) => IsStored(f.ans.ent)) /\ (f.rv = "OK" => Answers(f, f.ans))
  BY <1>1, AtResult
<1>3. /\ Stored(c) /\ \A n \in DOMAIN c : Untouched(c, cache, n) \/ (Answers(Top, Top.ans) /\ n = Top.name)
  <2>1. CASE stores
    <3>1. Answers(f, f.ans) /\ IsStored(f.ans.ent) /\ f.ans.ent.qname = f.name
      BY <1>2, <2>1 DEF Answers
    <3>2. /\ Stored(AddCache(cache, f.ans.ent))
          /\ \A n \in DOMAIN AddCache(cache, f.ans.ent) :
               n = f.ans.ent.qname \/ Untouched(AddCache(cache, f.ans.ent), cache, n)
      BY <3>1, EntryAdded
    <3>3. c = AddCache(cache, f.ans.ent)
      BY <2>1
    <3>. HIDE DEF c
    <3>. QED BY <3>1, <3>2, <3>3
  <2>2. CASE ~stores
    <3>1. c = cache
      BY <2>2
    <3>. HIDE DEF c
    <3>. QED BY <3>1 DEF Untouched
  <2>. QED BY <2>1, <2>2
<1>4. \A ent \in ents : (Resolved(f) => IsStored(ent)) /\ (f.kind = "auth" => ent = f.ans.ent)
  <2>. DEFINE got == Get(c, f.name)
  <2>1. Perhaps(got)
    BY <1>3, Gotten
  <2>. HIDE DEF got
  <2>2. merged = IF stores THEN {got} \ {Nothing} ELSE {}
    BY DEF got
  <2>3. ASSUME NEW ent \in merged PROVE IsStored(ent) /\ f.kind # "auth"
    BY <2>1, <2>2, <2>3 DEF Perhaps
  <2>4. ents \subseteq merged \union {f.ans.ent}
    OBVIOUS
  <2>. HIDE DEF merged, ents
  <2>. QED BY <1>2, <2>3, <2>4
<1>5. cache' = c
  BY DEF StoreResult
<1>6. \/ Resolved(f) /\ \E ent \in ents : Put(Returning(f, f.rv, ent, cundef))
      \/ f.cached # Nothing /\ Put(Returning(f, "STALE", f.cached, cundef))
      \/ ~Resolved(f) /\ Put(Returning(f, f.rv, none, soa))
  BY DEF StoreResult
<1>. HIDE DEF c, ents, soa, none
<1>7. CASE Resolved(f) /\ \E ent \in ents : Put(Returning(f, f.rv, ent, cundef))
  <2>1. PICK ent \in ents : Put(Returning(f, f.rv, ent, cundef))
    BY <1>7
  <2>2. IsStored(ent) /\ (f.kind = "auth" /\ f.rv = "OK" => ent.qname = f.name)
    BY <1>2, <1>4, <1>7 DEF Answers
  <2>3. Stays(Returning(f, f.rv, ent, cundef), f)
    BY <1>2, <2>2, ReturningStays
  <2>. QED BY <1>1, <1>3, <1>5, <2>1, <2>3
<1>8. CASE f.cached # Nothing /\ Put(Returning(f, "STALE", f.cached, cundef))
  <2>1. IsStored(f.cached)
    BY <1>2, <1>8 DEF Basic, Perhaps
  <2>2. Stays(Returning(f, "STALE", f.cached, cundef), f)
    BY <1>2, <2>1, ReturningStays
  <2>. QED BY <1>1, <1>3, <1>5, <1>8, <2>2
<1>9. CASE ~Resolved(f) /\ Put(Returning(f, f.rv, none, soa))
  <2>1. Stays(Returning(f, f.rv, none, soa), f)
    <3>1. f.rv \notin {"OK", "CACHED", "STALE"}
      BY <1>9 DEF Resolved
    <3>. QED BY <1>2, <3>1, ReturningStays
  <2>. QED BY <1>1, <1>3, <1>5, <1>9, <2>1
<1>. QED BY <1>6, <1>7, <1>8, <1>9

\* What a call returns.
Returned(g) ==
  /\ g.res.rc \in {"OK", "CACHED", "STALE"} => IsStored(g.res.ent)
  /\ g.kind = "auth" /\ g.res.rc = "OK" => g.res.ent.qname = g.name

LEMMA AtReturn == ASSUME NEW g, Calling(g), g.at = "return" PROVE Returned(g)
BY DEF Calling, Loops, AtOne, Settled, Returned

LEMMA AfterReferralStays ==
  ASSUME NEW f, Calling(f), f.at = "referral", NEW g, Returned(g), g.kind = "auth", f.name = g.name
  PROVE  Stays(AfterReferral(f, g.res), f)
<1>. DEFINE res == g.res  old == f.ans.ent
            ent == WithCutsOf(res.ent, old)
            ans == [f.ans EXCEPT !.ent = ent]
            soa == [soa |-> Greater(res.soa, old.c_soa)]
            undef == [soa |-> cundef]
            a == [f EXCEPT !.at = "result", !.rv = res.rc, !.ans = ans]
            b == [f EXCEPT !.at = "result", !.rv = res.rc, !.ans = soa]
            c == [f EXCEPT !.at = "result", !.rv = "OK"]
            d == [f EXCEPT !.at = "result", !.rv = res.rc, !.ans = undef]
            h == AfterReferral(f, res)
<1>1. Basic(f) /\ Quiet(f) /\ Answers(f, f.ans)
  BY DEF Calling, Loops, AtOne, Settled, Quiet
<1>2. \/ res.rc \in {"OK", "CACHED", "STALE"} /\ h = a
      \/ res.rc = "NAMEERR" /\ h = b
      \/ h = c
      \/ res.rc \notin {"OK", "CACHED", "STALE"} /\ h = d
  BY DEF AfterReferral
<1>3. ans.ent = ent /\ ans.by = f.ans.by /\ DOMAIN ans = {"ent", "by"}
  BY <1>1 DEF Answers
<1>4. res.rc \in {"OK", "CACHED", "STALE"} =>
        /\ IsStored(ent)
        /\ res.rc = "OK" => ent.qname = f.name
  BY WithCutsStored DEF Returned
<1>. SUFFICES Stays(h, f)
  OBVIOUS
<1>. HIDE DEF h, ent, ans, soa, undef
<1>5. ASSUME NEW x, IsCall(x), x.at = "result", x.kind = f.kind, x.name = f.name, x.q = f.q, x.j = f.j,
             x.i = f.i, x.cached = f.cached, x.serv = f.serv, x.saved = f.saved,
             x.rv \in {"OK", "CACHED", "STALE"} => IsStored(x.ans.ent),
             x.rv = "OK" => Answers(f, x.ans)
      PROVE  Stays(x, f)
  <2>1. Basic(x)
    BY <1>1, <1>5 DEF Basic, Saves
  <2>2. Settled(x)
    BY <1>1, <1>5 DEF Settled, Quiet, Answers, Resolved
  <2>. QED BY <1>5, <2>1, <2>2, CallingPlaces DEF Stays, Calling
<1>6. CASE res.rc \in {"OK", "CACHED", "STALE"} /\ h = a
  <2>1. /\ IsCall(a) /\ a.at = "result" /\ a.kind = f.kind /\ a.name = f.name /\ a.q = f.q /\ a.j = f.j
        /\ a.i = f.i /\ a.cached = f.cached /\ a.serv = f.serv /\ a.saved = f.saved /\ a.ans = ans /\ a.rv = res.rc
    BY <1>1 DEF Basic, IsCall, Fields, Contexts
  <2>. HIDE DEF a
  <2>2. IsStored(a.ans.ent) /\ (a.rv = "OK" => Answers(f, a.ans))
    BY <1>1, <1>3, <1>4, <1>6, <2>1 DEF Answers
  <2>3. Stays(a, f)
    BY <1>5, <2>1, <2>2
  <2>. QED BY <1>6, <2>3
<1>7. CASE res.rc = "NAMEERR" /\ h = b
  <2>1. /\ IsCall(b) /\ b.at = "result" /\ b.kind = f.kind /\ b.name = f.name /\ b.q = f.q /\ b.j = f.j
        /\ b.i = f.i /\ b.cached = f.cached /\ b.serv = f.serv /\ b.saved = f.saved /\ b.rv = res.rc
    BY <1>1 DEF Basic, IsCall, Fields, Contexts
  <2>. HIDE DEF b
  <2>3. Stays(b, f)
    BY <1>5, <1>7, <2>1
  <2>. QED BY <1>7, <2>3
<1>8. CASE h = c
  <2>1. /\ IsCall(c) /\ c.at = "result" /\ c.kind = f.kind /\ c.name = f.name /\ c.q = f.q /\ c.j = f.j
        /\ c.i = f.i /\ c.cached = f.cached /\ c.serv = f.serv /\ c.saved = f.saved /\ c.ans = f.ans
    BY <1>1 DEF Basic, IsCall, Fields, Contexts
  <2>. HIDE DEF c
  <2>3. Stays(c, f)
    BY <1>1, <1>5, <2>1 DEF Answers
  <2>. QED BY <1>8, <2>3
<1>9. CASE res.rc \notin {"OK", "CACHED", "STALE"} /\ h = d
  <2>1. /\ IsCall(d) /\ d.at = "result" /\ d.kind = f.kind /\ d.name = f.name /\ d.q = f.q /\ d.j = f.j
        /\ d.i = f.i /\ d.cached = f.cached /\ d.serv = f.serv /\ d.saved = f.saved /\ d.rv = res.rc
    BY <1>1 DEF Basic, IsCall, Fields, Contexts
  <2>. HIDE DEF d
  <2>3. Stays(d, f)
    BY <1>5, <1>9, <2>1
  <2>. QED BY <1>9, <2>3
<1>. QED BY <1>2, <1>6, <1>7, <1>8, <1>9

\* What is wrapped.
LEMMA WrappedFound ==
  ASSUME NEW g, Returned(g), Wrapped(g.res).rc = "OK"
  PROVE  Wrapped(g.res).ent = g.res.ent /\ IsStored(g.res.ent)
BY DEF Wrapped, Result, Returned

-----------------------------------------------------------------------------
(* The discovery of root servers. *)

LEMMA SimpleBegins ==
  ASSUME NEW sp, IsList(sp.addrs), NEW name, IsList(name), NEW type
  PROVE  LET g == Simple(sp, name, type) IN Calling(g) /\ g.at = "lookup" /\ g.kind = "simple"
<1>. DEFINE no == FALSE  yes == TRUE  none == Nothing  empty == {}
            q == [k \in DOMAIN sp.addrs |-> NewQuery(sp.addrs[k], empty, no, yes, sp.edns, 0, 0, yes, none, none, method)]
<1>1. \A k \in DOMAIN sp.addrs : Fresh(q[k]) /\ Believed(name, q[k])
  <2>1. ASSUME NEW a PROVE LET st == NewQuery(a, empty, no, yes, sp.edns, 0, 0, yes, none, none, method)
                           IN  Fresh(st) /\ Believed(name, st)
    <3>. HIDE DEF no, yes, none, empty
    <3>. QED BY NewIsFresh DEF Believed
  <2>. QED BY <2>1
<1>2. IsList(q) /\ DOMAIN q = DOMAIN sp.addrs
  <2>1. Len(sp.addrs) \in Nat /\ DOMAIN sp.addrs = 1..Len(sp.addrs)
    BY Lists
  <2>2. DOMAIN q = 1..Len(sp.addrs) /\ q = [k \in 1..Len(sp.addrs) |-> q[k]]
    BY <2>1
  <2>. HIDE DEF q
  <2>. QED BY <2>1, <2>2, Mapped
<1>3. ToAsk(name, q)
  <2>. HIDE DEF q
  <2>. QED BY <1>1, <1>2 DEF ToAsk
<1>4. Simple(sp, name, type) = NewFrame("simple", name, type, q, 0, empty)
  BY DEF Simple
<1>. HIDE DEF q, empty
<1>. QED BY <1>3, <1>4, CallBegins

LEMMA RootNamesFound ==
  ASSUME NEW sps, NEW f, Discovering(f, sps), f.at = "root domain", NEW g, Returned(g)
  PROVE  Discovering(WithRootNames(f, Wrapped(g.res)), sps)
<1>. DEFINE res == Wrapped(g.res)
            todo == IF res.rc = "OK" /\ HaveRr(res.ent, "NS") THEN res.ent.sets["NS"].rrs ELSE <<>>
            h == [f EXCEPT !.at = "root names", !.todo = todo]
<1>1. IsList(todo) /\ \A d \in ToSet(todo) : IsList(d[1].v)
  <2>1. CASE res.rc = "OK" /\ HaveRr(res.ent, "NS")
    <3>1. IsStored(res.ent)
      BY <2>1, WrappedFound
    <3>. HIDE DEF res
    <3>2. IsSetOf(res.ent.sets["NS"], "NS")
      BY <2>1, <3>1, StoredIs DEF HaveRr, Has
    <3>. QED BY <2>1, <3>2 DEF IsSetOf
  <2>2. CASE ~(res.rc = "OK" /\ HaveRr(res.ent, "NS"))
    <3>1. todo = <<>>
      BY <2>2
    <3>. HIDE DEF todo
    <3>. QED BY <3>1, NoList
  <2>. QED BY <2>1, <2>2
<1>. HIDE DEF todo
<1>2. /\ IsCall(h) /\ h.at = "root names" /\ h.q = f.q /\ h.j = f.j /\ h.todo = todo
  BY DEF Discovering, IsCall, Fields, Contexts
<1>3. WithRootNames(f, res) = h
  BY DEF WithRootNames, todo
<1>. HIDE DEF h
<1>. QED BY <1>1, <1>2, <1>3 DEF Discovering

LEMMA RootAddressesFound ==
  ASSUME NEW sps, NEW f, Discovering(f, sps), f.at = "root names", f.todo # <<>>, NEW res
  PROVE  Discovering(WithRootAddresses(f, res), sps)
<1>. DEFINE h == WithRootAddresses(f, res)
<1>1. IsList(Tail(f.todo)) /\ \A d \in ToSet(Tail(f.todo)) : IsList(d[1].v)
  BY TailOf DEF Discovering
<1>2. /\ IsCall(h) /\ h.at = "root names" /\ h.q = f.q /\ h.j = f.j /\ h.todo = Tail(f.todo)
  BY DEF Discovering, IsCall, Fields, Contexts, WithRootAddresses
<1>. HIDE DEF h
<1>3. Discovering(h, sps)
  BY <1>1, <1>2 DEF Discovering
<1>. QED BY <1>3 DEF h

-----------------------------------------------------------------------------
(* The stack. *)

LEMMA FramesTop ==
  ASSUME NEW sps, NEW s, IsSequence(s), s # <<>>, Frames(s, sps), NEW g, Framed(g, sps),
         g.kind = s[Len(s)].kind, g.name = s[Len(s)].name
  PROVE  Frames([s EXCEPT ![Len(s)] = g], sps)
<1>. DEFINE n == Len(s)  t == [s EXCEPT ![n] = g]
<1>1. Len(t) = n /\ n \in Nat \ {0} /\ (\A d \in 1..n - 1 : t[d] = s[d]) /\ t[n] = g
  BY TopReplaced
<1>. HIDE DEF t
<1>2. \A d \in 1..n : Framed(t[d], sps)
  <2>1. TAKE d \in 1..n
  <2>2. CASE d = n
    BY <2>2, <1>1
  <2>3. CASE d # n
    <3>1. d \in 1..n - 1 /\ Framed(s[d], sps)
      BY <2>3, <1>1 DEF Frames
    <3>. QED BY <3>1, <1>1
  <2>. QED BY <2>2, <2>3
<1>3. \A d \in 1..n - 1 : Linked(t[d], t[d + 1])
  <2>1. TAKE d \in 1..n - 1
  <2>2. t[d] = s[d] /\ Linked(s[d], s[d + 1])
    BY <1>1 DEF Frames
  <2>3. t[d + 1].kind = s[d + 1].kind /\ t[d + 1].name = s[d + 1].name
    <3>1. CASE d + 1 = n
      BY <3>1, <1>1
    <3>2. CASE d + 1 # n
      <4>1. d + 1 \in 1..n - 1
        BY <3>2, <1>1
      <4>. QED BY <4>1, <1>1
    <3>. QED BY <3>1, <3>2
  <2>. QED BY <2>2, <2>3 DEF Linked
<1>. QED BY <1>1, <1>2, <1>3 DEF Frames, t

LEMMA FramesPushed ==
  ASSUME NEW sps, NEW s, IsSequence(s), s # <<>>, Frames(s, sps), NEW g, Framed(g, sps), Linked(s[Len(s)], g)
  PROVE  Frames(Append(s, g), sps)
<1>. DEFINE n == Len(s)  t == Append(s, g)
<1>1. Len(t) = n + 1 /\ n \in Nat /\ (\A d \in 1..n : t[d] = s[d]) /\ t[n + 1] = g
  BY Pushed
<1>2. n # 0
  BY DEF IsSequence
<1>. HIDE DEF t
<1>3. \A d \in 1..n + 1 : Framed(t[d], sps)
  <2>1. TAKE d \in 1..n + 1
  <2>2. CASE d = n + 1
    BY <2>2, <1>1
  <2>3. CASE d # n + 1
    <3>1. d \in 1..n /\ Framed(s[d], sps)
      BY <2>3, <1>1 DEF Frames
    <3>. QED BY <3>1, <1>1
  <2>. QED BY <2>2, <2>3
<1>4. \A d \in 1..n : Linked(t[d], t[d + 1])
  <2>1. TAKE d \in 1..n
  <2>2. CASE d = n
    BY <2>2, <1>1
  <2>3. CASE d # n
    <3>1. d \in 1..n - 1 /\ Linked(s[d], s[d + 1]) /\ d + 1 \in 1..n
      BY <2>3, <1>1 DEF Frames
    <3>. QED BY <3>1, <1>1
  <2>. QED BY <2>2, <2>3
<1>. QED BY <1>1, <1>3, <1>4 DEF Frames, t

LEMMA FramesPopped ==
  ASSUME NEW sps, NEW s, IsSequence(s), Len(s) > 0, Frames(s, sps) PROVE Frames(Front(s), sps)
<1>1. Len(Front(s)) = Len(s) - 1 /\ Len(s) \in Nat /\ \A d \in 1..Len(s) - 1 : Front(s)[d] = s[d]
  BY Popped
<1>2. \A d \in 1..Len(s) - 1 : Framed(Front(s)[d], sps)
  <2>1. \A d \in 1..Len(s) - 1 : d \in 1..Len(s)
    BY <1>1
  <2>. QED BY <1>1, <2>1 DEF Frames
<1>3. \A d \in 1..(Len(s) - 1) - 1 : Linked(Front(s)[d], Front(s)[d + 1])
  <2>1. \A d \in 1..(Len(s) - 1) - 1 : d \in 1..Len(s) - 1 /\ d + 1 \in 1..Len(s) - 1
    BY <1>1
  <2>. QED BY <1>1, <2>1 DEF Frames
<1>. QED BY <1>1, <1>2, <1>3 DEF Frames

LEMMA FramesNone == ASSUME NEW sps PROVE Frames(<<>>, sps)
BY DEF Frames

LEMMA FramesOne == ASSUME NEW sps, NEW f, Framed(f, sps) PROVE Frames(<<f>>, sps)
<1>. DEFINE s == <<f>>
<1>1. Len(s) = 1 /\ s[1] = f
  OBVIOUS
<1>. HIDE DEF s
<1>2. Frames(s, sps)
  BY <1>1 DEF Frames
<1>. QED BY <1>2 DEF s

-----------------------------------------------------------------------------
(* The inductive invariant. *)

IInv ==
  /\ Nested(stack) /\ Frames(stack, servers) /\ Stored(cache) /\ Configured
  /\ Tested(probe) /\ NoneLeft(results)

\* The call that goes on.
LEMMA TopGoesOn ==
  ASSUME IInv, stack # <<>>
  PROVE  /\ IsSequence(stack) /\ Len(stack) \in Nat \ {0} /\ Top = stack[Len(stack)] /\ Framed(Top, servers)
         /\ Top.at \notin RootPlaces => Calling(Top)
<1>1. IsSequence(stack) /\ Len(stack) \in Nat \ {0} /\ Top = stack[Len(stack)]
  BY TopIs DEF IInv, Nested, Top
<1>2. Framed(Top, servers)
  BY <1>1 DEF IInv, Frames
<1>. QED BY <1>1, <1>2 DEF Framed

LEMMA FramesGoOn ==
  ASSUME IInv, stack # <<>>, NEW g, Stays(g, Top), Put(g), UNCHANGED servers
  PROVE  Frames(stack', servers')
<1>1. Framed(g, servers)
  BY DEF Stays, Framed
<1>2. IsSequence(stack) /\ Top = stack[Len(stack)] /\ Frames(stack, servers)
  BY TopGoesOn DEF IInv
<1>. QED BY <1>1, <1>2, FramesTop DEF Stays, Put

\* A call after f, of a call g that f has made.
LEMMA FramesCall ==
  ASSUME IInv, stack # <<>>, NEW f, Framed(f, servers), f.kind = Top.kind, f.name = Top.name,
         NEW g, Framed(g, servers), Linked(f, g),
         stack' = Append([stack EXCEPT ![Len(stack)] = f], g), UNCHANGED servers
  PROVE  Frames(stack', servers')
<1>. DEFINE t == [stack EXCEPT ![Len(stack)] = f]
<1>1. IsSequence(stack) /\ Top = stack[Len(stack)] /\ Frames(stack, servers) /\ Len(stack) \in Nat \ {0}
  BY TopGoesOn DEF IInv
<1>2. Frames(t, servers)
  BY <1>1, FramesTop
<1>3. IsSequence(t) /\ Len(t) = Len(stack) /\ t[Len(stack)] = f
  BY <1>1, TopReplaced
<1>. HIDE DEF t
<1>4. t # <<>>
  BY <1>1, <1>3
<1>5. Frames(Append(t, g), servers)
  BY <1>2, <1>3, <1>4, FramesPushed
<1>. QED BY <1>5 DEF t

-----------------------------------------------------------------------------
(* Steps that look further than their call. *)

LEMMA LookupFrames == ASSUME IInv, Lookup PROVE Frames(stack', servers')
<1>1. stack # <<>> /\ Top.at = "lookup" /\ LookedUp(Top, LookupCacheStatus(cache, Top.name, Top.type))
  BY DEF Lookup
<1>2. Calling(Top)
  BY <1>1, TopGoesOn DEF RootPlaces
<1>3. \E g : Stays(g, Top) /\ Unchanged(g)
  BY <1>1, <1>2, LookedUpStays DEF IInv
<1>. QED BY <1>1, <1>3, FramesGoOn DEF Unchanged, setup

\* What p_exec_query() makes of a query and of the cache.
LEMMA ExecFrames ==
  ASSUME IInv, ExecQuery
  PROVE  /\ Frames(stack', servers') /\ Stored(cache') /\ Top.at \notin {"result"} \union RootPlaces
         /\ Calling(Top) /\ Top.i \in DOMAIN Top.q
         /\ \A n \in DOMAIN cache' : Untouched(cache', cache, n) \/ MaySpeakFor(Top.q[Top.i], n)
<1>. DEFINE f == Top  i == f.i  fired == (f.fired \/ f.ctx = "timeouts")
<1>1. stack # <<>> /\ f.at \in {"send", "events", "again"}
  BY DEF ExecQuery
<1>2. PICK r \in Exec(f.q[i], Question(f), Busy(i)) : Executed(f, i, r)
  BY DEF ExecQuery
<1>3. Calling(f) /\ f.at \notin {"result"} \union RootPlaces
  BY <1>1, TopGoesOn DEF RootPlaces
<1>4. DOMAIN f.q[i] = QueryFields /\ Active(f.q[i]) /\ i \in DOMAIN f.q
  BY <1>1, <1>3, AboutToExec
<1>5. IsQuery(Question(f))
  BY DEF IsQuery, Question
<1>6. Sound(r, f.q[i], Question(f))
  BY <1>2, <1>4, <1>5, ExecSound
<1>. DEFINE g == [f EXCEPT !.q[i] = r.st, !.rv = r.rv, !.fired = fired]
            ans == [ent |-> r.ent, by |-> i]
<1>7. /\ UNCHANGED servers /\ cache' = AddAll(cache, r.adds)
      /\ \/ r.rv = "OK" /\ Put([g EXCEPT !.at = "judge", !.ans = [ent |-> r.ent, ns |-> r.ns]])
         \/ r.rv \in {"NAMEERR", "FATALERR"} /\ Put(Done(g, r.rv, ans))
         \/ r.rv = "RETRY" /\ Put([g EXCEPT !.at = "again"])
         \/ r.rv \notin {"OK", "NAMEERR", "FATALERR", "RETRY"} /\ Put(Continue(g))
  <2>. HIDE DEF f, i
  <2>. QED BY <1>2 DEF Executed, setup
<1>8. Frames(stack', servers')
  <2>. HIDE DEF f, fired, ans
  <2>1. /\ r.rv = "OK" => Stays([g EXCEPT !.at = "judge", !.ans = [ent |-> r.ent, ns |-> r.ns]], f)
        /\ r.rv \in {"NAMEERR", "FATALERR"} => Stays(Done(g, r.rv, ans), f)
        /\ r.rv = "RETRY" => Stays([g EXCEPT !.at = "again"], f)
        /\ r.rv \notin {"OK", "NAMEERR", "FATALERR", "RETRY"} => Stays(Continue(g), f)
    BY <1>1, <1>3, <1>6, ExecStays
  <2>. HIDE DEF g
  <2>2. \E h : Stays(h, f) /\ Put(h)
    BY <1>7, <2>1
  <2>. QED BY <1>1, <1>7, <2>2, FramesGoOn DEF f
<1>9. /\ Stored(cache')
      /\ \A n \in DOMAIN cache' : Untouched(cache', cache, n) \/ MaySpeakFor(f.q[i], n)
  <2>1. Allowed(f.q[i], r.adds)
    BY <1>6 DEF Sound
  <2>2. Entries(r.adds)
    BY <2>1 DEF Allowed, Entries
  <2>3. /\ Stored(AddAll(cache, r.adds))
        /\ \A n \in DOMAIN AddAll(cache, r.adds) :
             Untouched(AddAll(cache, r.adds), cache, n) \/ \E e \in ToSet(r.adds) : e.qname = n
    BY <2>2, EntriesAdded DEF IInv
  <2>. QED BY <1>7, <2>1, <2>3 DEF Allowed
<1>. QED BY <1>3, <1>4, <1>8, <1>9

LEMMA PollFrames ==
  ASSUME IInv, PollReports \/ PollTimesOut \/ PollFails \/ NothingPending PROVE Frames(stack', servers')
<1>. DEFINE f == Top
<1>1. stack # <<>> /\ f.at = "poll"
  BY DEF PollReports, PollTimesOut, PollFails, NothingPending
<1>2. Calling(f)
  BY <1>1, TopGoesOn DEF RootPlaces
<1>3. \E g : Stays(g, f) /\ Unchanged(g)
  <2>1. CASE PollReports
    <3>1. PICK ready \in (SUBSET Pending(f)) \ {{}} :
             Unchanged([f EXCEPT !.at = "events", !.ctx = "events", !.ready = ready, !.i = Min(ready), !.rv = "SERVFAIL"])
      BY <2>1 DEF PollReports
    <3>. HIDE DEF f
    <3>. QED BY <1>1, <1>2, <3>1, PollReportsStays
  <2>2. CASE PollTimesOut
    <3>1. Unchanged([f EXCEPT !.at = "timeouts", !.ctx = "timeouts", !.i = f.j, !.fired = FALSE, !.rv = "SERVFAIL"])
      BY <2>2 DEF PollTimesOut
    <3>. HIDE DEF f
    <3>. QED BY <1>1, <1>2, <3>1, PollTimesOutStays
  <2>3. CASE PollFails
    <3>. DEFINE none == Nothing
    <3>1. Unchanged(Done(f, "SERVFAIL", none))
      BY <2>3 DEF PollFails
    <3>. HIDE DEF f, none
    <3>2. Loose(f)
      BY <1>1, <1>2, AtPoll
    <3>3. Stays(Done(f, "SERVFAIL", none), f)
      BY <3>2, DoneStays
    <3>. QED BY <3>1, <3>3
  <2>4. CASE NothingPending
    <3>1. Unchanged(NextBatch([f EXCEPT !.rv = "SERVFAIL"]))
      BY <2>4 DEF NothingPending
    <3>. HIDE DEF f
    <3>. QED BY <1>1, <1>2, <3>1, NothingPendingStays
  <2>. QED BY <2>1, <2>2, <2>3, <2>4
<1>. QED BY <1>1, <1>3, FramesGoOn DEF Unchanged, setup

LEMMA TimeOutFrames == ASSUME IInv, TimeOut \/ EndTimeOuts PROVE Frames(stack', servers')
<1>. DEFINE f == Top
<1>1. stack # <<>> /\ f.at = "timeouts"
  BY DEF TimeOut, EndTimeOuts
<1>2. Calling(f)
  BY <1>1, TopGoesOn DEF RootPlaces
<1>3. \E g : Stays(g, f) /\ Unchanged(g)
  <2>1. CASE TimeOut
    <3>. DEFINE x == IF f.q[f.i].testing > 0 /\ ~IsDone(f.q[f.i]) THEN 2 ELSE f.q[f.i].testing
                g == [f EXCEPT !.q[f.i].testing = x]
                st == g.q[g.i]
    <3>1. /\ f.i <= Mc(f)
          /\ Unchanged(IF TentativeTcp(st) THEN [g EXCEPT !.q[g.i] = SwitchToUdp(st), !.at = "again"] ELSE Continue(g))
      BY <2>1 DEF TimeOut
    <3>. HIDE DEF f, x
    <3>2. /\ TentativeTcp(st) => Stays([g EXCEPT !.q[g.i] = SwitchToUdp(st), !.at = "again"], f)
          /\ ~TentativeTcp(st) => Stays(Continue(g), f)
      BY <1>1, <1>2, <3>1, TimeOutStays
    <3>. HIDE DEF g
    <3>. QED BY <3>1, <3>2
  <2>2. CASE EndTimeOuts
    <3>1. Unchanged([f EXCEPT !.at = "poll"]) \/ Unchanged(NextBatch(f))
      BY <2>2 DEF EndTimeOuts
    <3>. HIDE DEF f
    <3>. QED BY <1>1, <1>2, <3>1, EndTimeOutsStays
  <2>. QED BY <2>1, <2>2
<1>. QED BY <1>1, <1>3, FramesGoOn DEF Unchanged, setup

LEMMA JudgeFrames == ASSUME IInv, JudgeAnswer \/ NameServersDone PROVE Frames(stack', servers')
<1>. DEFINE f == Top
<1>1. stack # <<>> /\ f.at \in {"judge", "names"} /\ (JudgeAnswer => f.at = "judge")
  BY DEF JudgeAnswer, NameServersDone
<1>2. Calling(f)
  BY <1>1, TopGoesOn DEF RootPlaces
<1>. DEFINE g == [f EXCEPT !.at = "names", !.todo = NameServersFor(f.ans.ns, f.name)]
<1>3. \E authok : Unchanged(Judged(f, authok)) \/ (JudgeAnswer /\ Unchanged(g))
  BY DEF JudgeAnswer, NameServersDone
<1>. HIDE DEF f
<1>4. f.at = "judge" => Stays(g, f)
  BY <1>2, NamesBegin DEF IInv
<1>. HIDE DEF g
<1>5. \E h : Stays(h, f) /\ Unchanged(h)
  BY <1>1, <1>2, <1>3, <1>4, JudgedStays
<1>. QED BY <1>1, <1>5, FramesGoOn DEF Unchanged, setup, f

LEMMA NameServerFrames == ASSUME IInv, LookupNameServer PROVE Frames(stack', servers')
<1>. DEFINE f == Top  nsname == Head(f.todo)[2]  hops == f.hops - 1  hints == f.hints \union {<<f.name, f.type>>}
            none == <<>>
            g == NewFrame("ns", nsname, "A", none, hops, hints)
<1>1. stack # <<>> /\ f.at = "names" /\ f.todo # <<>>
  BY DEF LookupNameServer
<1>2. Calling(f)
  BY <1>1, TopGoesOn DEF RootPlaces
<1>3. UNCHANGED servers /\ (Unchanged([f EXCEPT !.todo = Tail(@)]) \/ stack' = Append(stack, g))
  BY DEF LookupNameServer, Unchanged, setup
<1>4. CASE Unchanged([f EXCEPT !.todo = Tail(@)])
  <2>. HIDE DEF f
  <2>1. Stays([f EXCEPT !.todo = Tail(@)], f)
    BY <1>1, <1>2, NameSkipped
  <2>. QED BY <1>1, <1>3, <1>4, <2>1, FramesGoOn DEF Unchanged, f
<1>5. CASE stack' = Append(stack, g)
  <2>1. IsList(nsname)
    BY <1>1, <1>2, AtNames
  <2>2. ToAsk(nsname, none)
    BY NobodyToAsk
  <2>. HIDE DEF f, nsname, hops, hints, none
  <2>3. Calling(g) /\ g.at = "lookup" /\ g.kind = "ns"
    BY <2>1, <2>2, CallBegins
  <2>. HIDE DEF g
  <2>4. Framed(g, servers) /\ Linked(f, g)
    BY <1>1, <2>3, CallingPlaces DEF Framed, Linked
  <2>5. IsSequence(stack) /\ f = stack[Len(stack)] /\ Frames(stack, servers)
    BY <1>1, TopGoesOn DEF IInv, f
  <2>. QED BY <1>1, <1>3, <1>5, <2>4, <2>5, FramesPushed
<1>. QED BY <1>3, <1>4, <1>5

LEMMA FinishFrames == ASSUME IInv, Finish PROVE Frames(stack', servers')
<1>1. stack # <<>> /\ Top.at = "finish"
  BY DEF Finish
<1>2. Calling(Top)
  BY <1>1, TopGoesOn DEF RootPlaces
<1>. DEFINE f0 == Top
            f == [f0 EXCEPT !.q = [k \in DOMAIN @ |-> Cancel(@[k])]]
            best == f.saved
            poor == best # Nothing /\ best.qual < GOODQUAL
            ent == IF best = Nothing THEN f.ans.ent ELSE IF poor THEN Flagged(best.ent) ELSE best.ent
            serv == IF best = Nothing THEN f.serv ELSE best.serv
            by == IF best = Nothing THEN f.ans.by ELSE best.by
            qs == f.q[by]
            ans == [soa |-> IF f.rv = "NAMEERR" THEN f.ans.ent.c_soa ELSE cundef]
            fallback == (qs.aa \/ qs.ra)
            g == [f EXCEPT !.ans = [ent |-> ent, by |-> by]]
            failed == [f EXCEPT !.at = "result", !.rv = IF @ = "FATALERR" THEN "SERVFAIL" ELSE @, !.ans = ans]
            found == [g EXCEPT !.at = "result", !.rv = "OK"]
            asks == [g EXCEPT !.at = "referral", !.serv = serv, !.fallback = fallback]
            hops == f.hops - 1
            call == NewFrame("auth", f.name, f.type, serv, hops, f.hints)
<1>3. /\ UNCHANGED servers
      /\ \/ best = Nothing /\ f.rv # "OK" /\ Put(failed)
         \/ (best # Nothing \/ f.rv = "OK") /\ Put(found)
         \/ (best # Nothing \/ f.rv = "OK") /\ stack' = Append([stack EXCEPT ![Len(stack)] = asks], call)
  BY DEF Finish, setup
<1>4. f.name = f0.name
  <2>1. IsCall(f0)
    BY <1>2 DEF Calling, Basic
  <2>. QED BY <2>1 DEF IsCall, Fields
<1>. HIDE DEF f0, ans, fallback
<1>5. /\ best = Nothing /\ f.rv # "OK" => Stays(failed, f0)
      /\ best # Nothing \/ f.rv = "OK" =>
           /\ Stays(found, f0) /\ ToAsk(f0.name, serv) /\ Stays(asks, f0)
  <2>1. Calling(f0) /\ f0.at = "finish"
    BY <1>1, <1>2 DEF f0
  <2>. QED BY <2>1, FinishStays
<1>6. IsList(f0.name)
  BY <1>2 DEF Calling, Basic, f0
<1>7. asks.at = "referral"
  <2>1. "at" \in DOMAIN g
    BY <1>2 DEF Calling, Basic, IsCall, Fields, f0
  <2>. HIDE DEF g
  <2>. QED BY <2>1
<1>. HIDE DEF f, best, serv, by, ent, g, failed, found, asks, hops
<1>8. CASE best = Nothing /\ f.rv # "OK" /\ Put(failed)
  BY <1>1, <1>3, <1>5, <1>8, FramesGoOn DEF f0
<1>9. CASE (best # Nothing \/ f.rv = "OK") /\ Put(found)
  BY <1>1, <1>3, <1>5, <1>9, FramesGoOn DEF f0
<1>10. CASE (best # Nothing \/ f.rv = "OK") /\ stack' = Append([stack EXCEPT ![Len(stack)] = asks], call)
  <2>1. Stays(asks, f0) /\ ToAsk(f0.name, serv)
    BY <1>5, <1>10
  <2>2. Calling(call) /\ call.at = "lookup" /\ call.kind = "auth" /\ call.name = f0.name
    BY <1>4, <1>6, <2>1, CallBegins
  <2>. HIDE DEF call
  <2>3. Framed(asks, servers) /\ asks.kind = Top.kind /\ asks.name = Top.name
    BY <2>1 DEF Stays, Framed, f0
  <2>4. Framed(call, servers) /\ Linked(asks, call)
    BY <1>7, <2>1, <2>2, CallingPlaces DEF Framed, Linked, Stays
  <2>. QED BY <1>1, <1>3, <1>10, <2>3, <2>4, FramesCall
<1>. QED BY <1>3, <1>8, <1>9, <1>10

LEMMA StoreFrames ==
  ASSUME IInv, StoreResult
  PROVE  /\ Frames(stack', servers') /\ Stored(cache') /\ Top.at = "result" /\ Calling(Top)
         /\ \A n \in DOMAIN cache' : Untouched(cache', cache, n) \/ (Answers(Top, Top.ans) /\ n = Top.name)
<1>1. stack # <<>> /\ Top.at = "result" /\ UNCHANGED servers
  BY DEF StoreResult, setup
<1>2. Calling(Top)
  BY <1>1, TopGoesOn DEF RootPlaces
<1>3. /\ \E g : Stays(g, Top) /\ Put(g)
      /\ Stored(cache')
      /\ \A n \in DOMAIN cache' : Untouched(cache', cache, n) \/ (Answers(Top, Top.ans) /\ n = Top.name)
  BY <1>1, <1>2, StoreResultStays DEF IInv
<1>. QED BY <1>1, <1>2, <1>3, FramesGoOn

LEMMA ReturnFrames == ASSUME IInv, Return PROVE Frames(stack', servers')
<1>. DEFINE n == Len(stack)  frames == Front(stack)  f == frames[Len(frames)]  res == Top.res
<1>1. stack # <<>> /\ Top.at = "return" /\ Top.kind # "top" /\ UNCHANGED servers
  BY DEF Return, setup
<1>2. Nested(stack) /\ IsSequence(stack) /\ n \in Nat \ {0} /\ Top = stack[n] /\ Calling(Top)
  BY <1>1, TopGoesOn DEF IInv, RootPlaces
<1>3. /\ n - 1 \in Nat \ {0} /\ Top.kind \in {"ns", "auth", "simple"}
      /\ Top.kind = "simple" <=> stack[n - 1].at \in RootPlaces
  BY <1>1, <1>2, Caller DEF RootPlaces
<1>4. IsSequence(frames) /\ Len(frames) = n - 1 /\ frames # <<>> /\ f = stack[n - 1] /\ Frames(frames, servers)
  <2>1. IsSequence(frames) /\ Len(frames) = n - 1 /\ \A d \in 1..n - 1 : frames[d] = stack[d]
    BY <1>2, Popped
  <2>2. Frames(frames, servers)
    BY <1>2, FramesPopped DEF IInv
  <2>3. f = stack[n - 1] /\ frames # <<>>
    BY <2>1, <1>3
  <2>. QED BY <2>1, <2>2, <2>3
<1>5. Framed(f, servers) /\ Linked(f, Top)
  <2>1. n - 1 \in 1..n /\ n - 1 \in 1..n - 1 /\ (n - 1) + 1 = n
    <3>1. n \in Nat /\ n - 1 \in Nat \ {0}
      BY <1>2, <1>3
    <3>. HIDE DEF n
    <3>. QED BY <3>1
  <2>2. Framed(stack[n - 1], servers) /\ Linked(stack[n - 1], stack[n])
    BY <2>1 DEF IInv, Frames
  <2>. QED BY <2>2, <1>2, <1>4
<1>6. Returned(Top) /\ Last(frames) = f
  BY <1>1, <1>2, AtReturn DEF Last
<1>7. \/ Top.kind = "ns" /\ stack' = [frames EXCEPT ![Len(frames)] =
                                        WithServers(frames, IF Wrapped(res).rc = "OK" THEN Addresses(res.ent) ELSE <<>>)]
      \/ Top.kind = "auth" /\ stack' = [frames EXCEPT ![Len(frames)] = AfterReferral(f, res)]
      \/ /\ Top.kind = "simple" /\ f.at = "root domain"
         /\ stack' = [frames EXCEPT ![Len(frames)] = WithRootNames(f, Wrapped(res))]
      \/ /\ Top.kind = "simple" /\ f.at = "root names"
         /\ stack' = [frames EXCEPT ![Len(frames)] = WithRootAddresses(f, Wrapped(res))]
  <2>1. Top.kind = "simple" => f.at \in {"root domain", "root names"}
    BY <1>3, <1>4 DEF RootPlaces
  <2>. QED BY <1>3, <1>6, <2>1 DEF Return
<1>. HIDE DEF frames, f
<1>8. f = frames[Len(frames)]
  BY DEF f
<1>9. ASSUME NEW g, Framed(g, servers), g.kind = f.kind, g.name = f.name, stack' = [frames EXCEPT ![Len(frames)] = g]
      PROVE  Frames(stack', servers')
  BY <1>1, <1>4, <1>8, <1>9, FramesTop
<1>10. ASSUME NEW g, Stays(g, f), stack' = [frames EXCEPT ![Len(frames)] = g]
       PROVE  Frames(stack', servers')
  <2>1. Framed(g, servers)
    BY <1>10 DEF Stays, Framed
  <2>. QED BY <1>9, <1>10, <2>1 DEF Stays
<1>11. ASSUME NEW addrs, Top.kind = "ns", IsList(addrs),
              stack' = [frames EXCEPT ![Len(frames)] = WithServers(frames, addrs)]
       PROVE  Frames(stack', servers')
  <2>1. f.at = "names" /\ f.todo # <<>>
    BY <1>5, <1>11 DEF Linked
  <2>2. Calling(f)
    BY <1>5, <2>1 DEF Framed, RootPlaces
  <2>3. Stays(WithServers(frames, addrs), f)
    BY <1>8, <1>11, <2>1, <2>2, ServersFound
  <2>. QED BY <1>10, <1>11, <2>3
<1>12. IsList(IF Wrapped(res).rc = "OK" THEN Addresses(res.ent) ELSE <<>>)
  <2>1. CASE Wrapped(res).rc = "OK"
    <3>1. IsStored(res.ent)
      BY <1>6, <2>1, WrappedFound
    <3>2. IsList(Addresses(res.ent))
      BY <3>1, AddressesListed DEF Perhaps
    <3>. QED BY <2>1, <3>2
  <2>2. CASE Wrapped(res).rc # "OK"
    BY <2>2, NoList
  <2>. QED BY <2>1, <2>2
<1>13. CASE Top.kind = "auth" /\ stack' = [frames EXCEPT ![Len(frames)] = AfterReferral(f, res)]
  <2>1. f.at = "referral" /\ f.name = Top.name
    BY <1>5, <1>13 DEF Linked
  <2>2. Calling(f)
    BY <1>5, <2>1 DEF Framed, RootPlaces
  <2>3. Stays(AfterReferral(f, Top.res), f)
    BY <1>6, <1>13, <2>1, <2>2, AfterReferralStays
  <2>. QED BY <1>10, <1>13, <2>3
<1>14. CASE /\ Top.kind = "simple" /\ f.at = "root domain"
            /\ stack' = [frames EXCEPT ![Len(frames)] = WithRootNames(f, Wrapped(res))]
  <2>. DEFINE g == WithRootNames(f, Wrapped(res))
  <2>1. Discovering(f, servers)
    BY <1>5, <1>14 DEF Framed, RootPlaces
  <2>2. Discovering(g, servers)
    BY <1>6, <1>14, <2>1, RootNamesFound
  <2>3. g.at \in RootPlaces /\ g.kind = f.kind /\ g.name = f.name
    BY <2>1 DEF Discovering, IsCall, Fields, WithRootNames, RootPlaces
  <2>. HIDE DEF g
  <2>4. Framed(g, servers)
    BY <2>2, <2>3 DEF Framed
  <2>. QED BY <1>9, <1>14, <2>3, <2>4 DEF g
<1>15. CASE /\ Top.kind = "simple" /\ f.at = "root names"
            /\ stack' = [frames EXCEPT ![Len(frames)] = WithRootAddresses(f, Wrapped(res))]
  <2>. DEFINE g == WithRootAddresses(f, Wrapped(res))
  <2>1. Discovering(f, servers) /\ f.todo # <<>>
    BY <1>5, <1>15 DEF Framed, RootPlaces, Linked
  <2>2. Discovering(g, servers)
    BY <1>15, <2>1, RootAddressesFound
  <2>3. g.at \in RootPlaces /\ g.kind = f.kind /\ g.name = f.name
    BY <1>15, <2>1 DEF Discovering, IsCall, Fields, WithRootAddresses, RootPlaces
  <2>. HIDE DEF g
  <2>4. Framed(g, servers)
    BY <2>2, <2>3 DEF Framed
  <2>. QED BY <1>9, <1>15, <2>3, <2>4 DEF g
<1>. QED BY <1>7, <1>11, <1>12, <1>13, <1>14, <1>15

LEMMA RootServerFrames == ASSUME IInv, LookupRootServer PROVE Frames(stack', servers')
<1>. DEFINE f == Top  g == Simple(servers[f.j], Head(f.todo)[1].v, "A")
<1>1. stack # <<>> /\ f.at = "root names" /\ f.todo # <<>> /\ stack' = Append(stack, g) /\ UNCHANGED servers
  BY DEF LookupRootServer, setup
<1>2. /\ IsSequence(stack) /\ Frames(stack, servers) /\ f = stack[Len(stack)]
      /\ Discovering(f, servers)
  BY <1>1, TopGoesOn DEF IInv, Framed, RootPlaces
<1>. HIDE DEF f
<1>3. IsList(servers[f.j].addrs)
  BY <1>2 DEF IInv, Configured, Discovering
<1>4. IsList(Head(f.todo)[1].v)
  BY <1>1, <1>2, Lists DEF Discovering
<1>5. Calling(g) /\ g.at = "lookup" /\ g.kind = "simple"
  BY <1>3, <1>4, SimpleBegins
<1>. HIDE DEF g
<1>6. Framed(g, servers) /\ Linked(f, g)
  BY <1>1, <1>5, CallingPlaces DEF Framed, Linked
<1>. QED BY <1>1, <1>2, <1>6, FramesPushed

LEMMA AskFrames == ASSUME IInv, Ask PROVE Frames(stack', servers')
<1>1. PICK qu \in Questions : stack' = <<NewFrame("top", qu[1], qu[2], <<>>, MaxHops, {})>>
  BY DEF Ask
<1>. DEFINE none == <<>>  empty == {}  g == NewFrame("top", qu[1], qu[2], none, MaxHops, empty)
<1>2. IsList(qu[1])
  BY QuestionsAssumption
<1>3. ToAsk(qu[1], none)
  BY NobodyToAsk
<1>4. stack' = <<g>> /\ UNCHANGED servers
  BY <1>1 DEF Ask, setup
<1>. HIDE DEF none, empty
<1>5. Calling(g)
  BY <1>2, <1>3, CallBegins
<1>. HIDE DEF g
<1>6. Framed(g, servers)
  BY <1>5, CallingPlaces DEF Framed
<1>. QED BY <1>4, <1>6, FramesOne

LEMMA DiscoverFrames == ASSUME IInv, Discover PROVE Frames(stack', servers')
<1>. DEFINE none == <<>>
            f(i) == [NewFrame("roots", <<>>, "NS", <<>>, 0, {}) EXCEPT !.at = "root domain", !.j = i]
            g(i) == Simple(servers[i], none, "NS")
<1>1. PICK i \in DOMAIN servers : stack' = <<f(i), g(i)>> /\ UNCHANGED servers
  BY DEF Discover, setup
<1>2. /\ IsCall(f(i)) /\ f(i).at = "root domain" /\ f(i).q = none /\ f(i).j = i /\ f(i).todo = none
  BY DEF NewFrame, IsCall, Fields, Contexts
<1>3. IsList(none) /\ ToSet(none) = {}
  BY NoList
<1>. HIDE DEF f
<1>4. Framed(f(i), servers)
  BY <1>2, <1>3 DEF Framed, Discovering, RootPlaces, none
<1>. HIDE DEF none
<1>5. IsList(servers[i].addrs)
  BY DEF IInv, Configured
<1>6. Calling(g(i)) /\ g(i).kind = "simple"
  BY <1>3, <1>5, SimpleBegins
<1>. HIDE DEF g
<1>7. Framed(g(i), servers) /\ Linked(f(i), g(i))
  BY <1>2, <1>6, CallingPlaces DEF Framed, Linked
<1>. DEFINE s == <<f(i)>>
<1>8. Frames(s, servers)
  BY <1>4, FramesOne
<1>9. IsSequence(s) /\ s # <<>> /\ Len(s) = 1 /\ s[1] = f(i)
  <2>1. s \in Seq({f(i)})
    OBVIOUS
  <2>. QED BY <2>1 DEF IsSequence
<1>10. Append(s, g(i)) = <<f(i), g(i)>>
  BY TwoCalls
<1>. HIDE DEF s
<1>11. Frames(Append(s, g(i)), servers)
  BY <1>7, <1>8, <1>9, FramesPushed
<1>. QED BY <1>1, <1>10, <1>11

-----------------------------------------------------------------------------
(* Tests of servers, and what the calls from outside returned. *)

LEMMA ResultAdded ==
  ASSUME NEW s, NoneLeft(s), NEW x, x.call = "test" => ~x.left PROVE NoneLeft(Append(s, x))
<1>1. IsSequence(s)
  BY DEF NoneLeft
<1>. DEFINE t == Append(s, x)  n == Len(s)
<1>2. IsSequence(t) /\ Len(t) = n + 1 /\ n \in Nat /\ (\A d \in 1..n : t[d] = s[d]) /\ t[n + 1] = x
  BY <1>1, Pushed
<1>3. DOMAIN s = 1..n /\ DOMAIN t = 1..Len(t)
  BY <1>1, <1>2 DEF IsSequence
<1>. HIDE DEF t, n
<1>4. \A k \in DOMAIN t : t[k].call = "test" => ~t[k].left
  <2>1. TAKE k \in DOMAIN t
  <2>2. CASE k = n + 1
    BY <2>2, <1>2
  <2>3. CASE k # n + 1
    <3>1. k \in DOMAIN s /\ t[k] = s[k]
      BY <2>3, <1>2, <1>3
    <3>. QED BY <3>1 DEF NoneLeft
  <2>. QED BY <2>2, <2>3
<1>. QED BY <1>2, <1>4 DEF NoneLeft, t

LEMMA TestBegins == ASSUME NEW addr PROVE DOMAIN FirstTest(addr) = QueryFields /\ Tidy(FirstTest(addr))
                                          /\ FirstTest(addr).state = "INITIAL"
<1>. DEFINE no == FALSE  yes == TRUE  none == Nothing  empty == {}
<1>1. FirstTest(addr) = NewQuery(addr, empty, no, yes, no, 0, 0, yes, none, none, method)
  BY DEF FirstTest
<1>. HIDE DEF no, yes, none, empty
<1>2. Fresh(FirstTest(addr))
  BY <1>1, NewIsFresh
<1>. QED BY <1>2 DEF Fresh

LEMMA TestRepeated ==
  ASSUME NEW st, DOMAIN st = QueryFields, Tidy(st)
  PROVE  DOMAIN AnotherTest(st) = QueryFields /\ Tidy(AnotherTest(st)) /\ AnotherTest(st).state = "INITIAL"
<1>. DEFINE c == Cancel(st)
<1>1. Tidy(c) /\ c.open = FALSE /\ DOMAIN c = QueryFields
  BY CanceledTidy DEF SameServer
<1>. HIDE DEF c
<1>2. c.asked = FALSE
  BY <1>1 DEF Tidy
<1>3. AnotherTest(st) = [c EXCEPT !.state = "INITIAL", !.qm = method, !.errno = "none"]
  BY DEF AnotherTest, c
<1>. QED BY <1>1, <1>2, <1>3 DEF QueryFields, Tidy, Waiting

LEMMA TestStep ==
  ASSUME Tested(probe), NoneLeft(results), StartTest \/ TestGoes \/ TestTimesOut \/ TestInterrupted
  PROVE  Tested(probe') /\ NoneLeft(results')
<1>1. ASSUME NEW rounds, NEW st, DOMAIN st = QueryFields, Tidy(st), st.state \in {"INITIAL"} \union Waiting,
             probe' = [rounds |-> rounds, st |-> st], results' = results
      PROVE  Tested(probe') /\ NoneLeft(results')
  BY <1>1 DEF Tested
<1>2. ASSUME NEW st, st.open = FALSE, st.asked = FALSE, NEW rc, TestEnds(st, rc)
      PROVE  Tested(probe') /\ NoneLeft(results')
  <2>. DEFINE left == (st.open \/ st.asked)  x == [call |-> "test", rc |-> rc, left |-> left]
  <2>1. ~left
    BY <1>2
  <2>2. results' = Append(results, x) /\ probe' = Nothing
    BY <1>2 DEF TestEnds
  <2>. HIDE DEF left
  <2>3. ~x.left
    BY <2>1
  <2>. HIDE DEF x
  <2>. QED BY <2>2, <2>3, ResultAdded DEF Tested
<1>3. CASE StartTest
  <2>1. PICK a : probe' = [rounds |-> 1, st |-> FirstTest(a)] /\ results' = results
    BY <1>3 DEF StartTest
  <2>. QED BY <1>1, <2>1, TestBegins
<1>4. ASSUME probe # Nothing
      PROVE  /\ DOMAIN probe = {"rounds", "st"} /\ DOMAIN probe.st = QueryFields
             /\ Tidy(probe.st) /\ probe.st.state \in {"INITIAL"} \union Waiting
  BY <1>4 DEF Tested
<1>5. CASE TestGoes
  <2>. DEFINE st == probe.st
  <2>1. probe # Nothing
    BY <1>5 DEF TestGoes
  <2>2. /\ DOMAIN probe = {"rounds", "st"} /\ DOMAIN st = QueryFields
        /\ Tidy(st) /\ st.state \in {"INITIAL"} \union Waiting
    BY <1>4, <2>1
  <2>. DEFINE none == Nothing
  <2>3. PICK r \in Exec(st, none, 0) :
          IF r.rv = "AGAIN" THEN probe' = [probe EXCEPT !.st = r.st] /\ results' = results
          ELSE \E rc : TestEnds(r.st, rc)
    BY <1>5 DEF TestGoes
  <2>4. IsQuery(none)
    BY DEF IsQuery
  <2>5. Sound(r, st, none)
    <3>1. Active(st)
      BY <2>2 DEF Active
    <3>. HIDE DEF st, none
    <3>. QED BY <2>2, <2>3, <2>4, <3>1, ExecSound
  <2>6. DOMAIN r.st = QueryFields /\ r.rv # "RETRY"
    BY <2>5 DEF Sound, SameServer
  <2>7. CASE r.rv = "AGAIN"
    <3>1. probe' = [rounds |-> probe.rounds, st |-> r.st]
      BY <2>2, <2>3, <2>7
    <3>2. r.st.state \in Waiting /\ Tidy(r.st)
      BY <2>5, <2>7 DEF Sound
    <3>. QED BY <1>1, <2>3, <2>6, <2>7, <3>1, <3>2
  <2>8. CASE r.rv # "AGAIN"
    <3>1. r.st.state = "DONE" /\ Tidy(r.st)
      BY <2>5, <2>6, <2>8 DEF Sound
    <3>2. r.st.open = FALSE /\ r.st.asked = FALSE
      BY <3>1 DEF Tidy, Waiting
    <3>. QED BY <1>2, <2>3, <2>8, <3>2
  <2>. QED BY <2>7, <2>8
<1>6. ASSUME NEW rc, probe # Nothing, TestEnds(Cancel(probe.st), rc) PROVE Tested(probe') /\ NoneLeft(results')
  <2>. DEFINE c == Cancel(probe.st)
  <2>1. Tidy(c) /\ c.open = FALSE
    BY <1>4, <1>6, CanceledTidy
  <2>2. c.asked = FALSE
    BY <2>1 DEF Tidy
  <2>. QED BY <1>2, <1>6, <2>1, <2>2
<1>7. CASE TestTimesOut
  <2>1. probe # Nothing
    BY <1>7 DEF TestTimesOut
  <2>2. \/ probe' = [rounds |-> probe.rounds + 1, st |-> AnotherTest(probe.st)] /\ results' = results
        \/ TestEnds(Cancel(probe.st), "down")
    BY <1>7 DEF TestTimesOut
  <2>3. /\ DOMAIN AnotherTest(probe.st) = QueryFields /\ Tidy(AnotherTest(probe.st))
        /\ AnotherTest(probe.st).state = "INITIAL"
    BY <1>4, <2>1, TestRepeated
  <2>. QED BY <1>1, <1>6, <2>1, <2>2, <2>3
<1>8. CASE TestInterrupted
  BY <1>6, <1>8 DEF TestInterrupted
<1>. QED BY <1>3, <1>5, <1>7, <1>8

-----------------------------------------------------------------------------
(* The invariant holds at the start and is kept. *)

LEMMA IInvInit == Init => IInv
<1>. SUFFICES ASSUME Init PROVE IInv
  OBVIOUS
<1>1. Nested(stack) /\ Frames(stack, servers)
  BY EmptyNested, FramesNone DEF Init
<1>2. Stored(cache)
  BY CachesAssumption DEF Init, Stored
<1>3. Configured
  BY SectionsAssumption DEF Init, Configured
<1>4. Tested(probe) /\ NoneLeft(results)
  <2>1. results = <<>> /\ probe = Nothing
    BY DEF Init
  <2>2. IsSequence(<<>>) /\ DOMAIN <<>> = {}
    BY DEF IsSequence
  <2>. QED BY <2>1, <2>2 DEF Tested, NoneLeft
<1>. QED BY <1>1, <1>2, <1>3, <1>4 DEF IInv

\* How the cache changes.
Heard ==
  \A n \in DOMAIN cache' :
    \/ Untouched(cache', cache, n)
    \/ /\ Calling(Top)
       /\ \/ Top.at # "result" /\ Top.i \in DOMAIN Top.q /\ MaySpeakFor(Top.q[Top.i], n)
          \/ Top.at = "result" /\ Answers(Top, Top.ans) /\ n = Top.name

LEMMA IInvNext == ASSUME IInv, [Next]_vars PROVE IInv' /\ Heard
<1>1. (cache' = cache) => Stored(cache') /\ Heard
  BY DEF Heard, Untouched, IInv
<1>2. UNCHANGED setup
  BY DEF Next, Step, vars, setup, Ask, Discover, StartTest, Lookup, ExecQuery, NothingPending, TimeOut, EndTimeOuts,
     JudgeAnswer, LookupNameServer, NameServersDone, Finish, StoreResult, Return, Answer, LookupRootServer, Discovered,
     PollReports, PollTimesOut, PollFails, TestGoes, TestTimesOut, TestInterrupted, TestEnds, Unchanged, Executed,
     LookedUp, AskServers
<1>3. Nested(stack') /\ Configured'
  BY <1>2, NestedStep DEF IInv, Configured, setup
<1>4. ASSUME Frames(stack', servers'), Stored(cache') /\ Heard, Tested(probe') /\ NoneLeft(results')
      PROVE  IInv' /\ Heard
  BY <1>3, <1>4 DEF IInv
<1>5. (UNCHANGED probe) /\ (UNCHANGED results) => Tested(probe') /\ NoneLeft(results')
  BY DEF IInv
<1>6. ASSUME Frames(stack', servers'), UNCHANGED cache, UNCHANGED probe, UNCHANGED results PROVE IInv' /\ Heard
  BY <1>1, <1>4, <1>5, <1>6
<1>7. CASE UNCHANGED vars
  <2>1. Frames(stack', servers') /\ (UNCHANGED cache) /\ (UNCHANGED probe) /\ UNCHANGED results
    BY <1>7 DEF vars, IInv
  <2>. QED BY <1>6, <2>1
<1>8. CASE Ask
  BY <1>6, <1>8, AskFrames DEF Ask
<1>9. CASE Discover
  BY <1>6, <1>9, DiscoverFrames DEF Discover
<1>10. CASE StartTest \/ TestGoes \/ TestTimesOut \/ TestInterrupted
  <2>1. (UNCHANGED stack) /\ UNCHANGED cache
    BY <1>10 DEF StartTest, TestGoes, TestTimesOut, TestInterrupted, TestEnds
  <2>2. Frames(stack', servers')
    BY <1>2, <2>1 DEF IInv, setup
  <2>3. Tested(probe') /\ NoneLeft(results')
    BY <1>10, TestStep DEF IInv
  <2>. QED BY <1>1, <1>4, <2>1, <2>2, <2>3
<1>11. CASE PollReports \/ PollTimesOut \/ PollFails \/ NothingPending
  <2>1. (UNCHANGED cache) /\ (UNCHANGED probe) /\ UNCHANGED results
    BY <1>11 DEF PollReports, PollTimesOut, PollFails, NothingPending, Unchanged
  <2>. QED BY <1>6, <1>11, <2>1, PollFrames
<1>12. CASE Lookup
  <2>1. (UNCHANGED cache) /\ (UNCHANGED probe) /\ UNCHANGED results
    BY <1>12 DEF Lookup, LookedUp, AskServers, Unchanged
  <2>. QED BY <1>6, <1>12, <2>1, LookupFrames
<1>13. CASE ExecQuery
  <2>1. /\ Frames(stack', servers') /\ Stored(cache') /\ Calling(Top) /\ Top.at # "result" /\ Top.i \in DOMAIN Top.q
        /\ \A n \in DOMAIN cache' : Untouched(cache', cache, n) \/ MaySpeakFor(Top.q[Top.i], n)
    BY <1>13, ExecFrames
  <2>2. Heard
    BY <2>1 DEF Heard
  <2>3. (UNCHANGED probe) /\ UNCHANGED results
    BY <1>13 DEF ExecQuery, Executed
  <2>. QED BY <1>4, <1>5, <2>1, <2>2, <2>3
<1>14. CASE TimeOut \/ EndTimeOuts
  <2>1. (UNCHANGED cache) /\ (UNCHANGED probe) /\ UNCHANGED results
    BY <1>14 DEF TimeOut, EndTimeOuts, Unchanged
  <2>. QED BY <1>6, <1>14, <2>1, TimeOutFrames
<1>15. CASE JudgeAnswer \/ NameServersDone
  <2>1. (UNCHANGED cache) /\ (UNCHANGED probe) /\ UNCHANGED results
    BY <1>15 DEF JudgeAnswer, NameServersDone, Unchanged
  <2>. QED BY <1>6, <1>15, <2>1, JudgeFrames
<1>16. CASE LookupNameServer
  <2>1. (UNCHANGED cache) /\ (UNCHANGED probe) /\ UNCHANGED results
    BY <1>16 DEF LookupNameServer, Unchanged
  <2>. QED BY <1>6, <1>16, <2>1, NameServerFrames
<1>17. CASE Finish
  <2>1. (UNCHANGED cache) /\ (UNCHANGED probe) /\ UNCHANGED results
    BY <1>17 DEF Finish
  <2>. QED BY <1>6, <1>17, <2>1, FinishFrames
<1>18. CASE StoreResult
  <2>1. /\ Frames(stack', servers') /\ Stored(cache') /\ Top.at = "result" /\ Calling(Top)
        /\ \A n \in DOMAIN cache' : Untouched(cache', cache, n) \/ (Answers(Top, Top.ans) /\ n = Top.name)
    BY <1>18, StoreFrames
  <2>2. Heard
    BY <2>1 DEF Heard
  <2>3. (UNCHANGED probe) /\ UNCHANGED results
    BY <1>18 DEF StoreResult
  <2>. QED BY <1>4, <1>5, <2>1, <2>2, <2>3
<1>19. CASE Return
  <2>1. (UNCHANGED cache) /\ (UNCHANGED probe) /\ UNCHANGED results
    BY <1>19 DEF Return
  <2>. QED BY <1>6, <1>19, <2>1, ReturnFrames
<1>20. CASE LookupRootServer
  <2>1. (UNCHANGED cache) /\ (UNCHANGED probe) /\ UNCHANGED results
    BY <1>20 DEF LookupRootServer
  <2>. QED BY <1>6, <1>20, <2>1, RootServerFrames
<1>21. ASSUME NEW x, x.call # "test", results' = Append(results, x), stack' = <<>>, UNCHANGED cache, UNCHANGED probe
       PROVE  IInv' /\ Heard
  <2>1. Frames(stack', servers')
    BY <1>21, FramesNone
  <2>2. Tested(probe') /\ NoneLeft(results')
    BY <1>21, ResultAdded DEF IInv
  <2>. QED BY <1>1, <1>4, <1>21, <2>1, <2>2
<1>22. CASE Discovered
  <2>. DEFINE found == IF Top.fails > Len(Top.serv) THEN <<>> ELSE Top.serv
              x == [call |-> "roots", found |-> found]
  <2>1. results' = Append(results, x) /\ stack' = <<>> /\ (UNCHANGED cache) /\ UNCHANGED probe
    BY <1>22 DEF Discovered
  <2>2. x.call # "test"
    OBVIOUS
  <2>. HIDE DEF x
  <2>. QED BY <1>21, <2>1, <2>2
<1>23. CASE Answer
  <2>. DEFINE rc == Wrapped(Top.res).rc
              x == [call |-> "name", rc |-> rc]
  <2>1. results' = Append(results, x) /\ stack' = <<>> /\ (UNCHANGED cache) /\ UNCHANGED probe
    BY <1>23 DEF Answer
  <2>2. x.call # "test"
    OBVIOUS
  <2>. HIDE DEF x
  <2>. QED BY <1>21, <2>1, <2>2
<1>. QED
  BY <1>7, <1>8, <1>9, <1>10, <1>11, <1>12, <1>13, <1>14, <1>15, <1>16, <1>17, <1>18, <1>19, <1>20, <1>22, <1>23
  DEF Next, Step

-----------------------------------------------------------------------------
(* What follows. *)

LEMMA TidySays ==
  ASSUME NEW st, Tidy(st) PROVE (st.open <=> st.state \in Waiting) /\ (st.asked <=> st.state \in Waiting)
<1>1. CASE st.state \in Waiting
  BY <1>1, Zenon DEF Tidy
<1>2. CASE st.state \notin Waiting
  BY <1>2, Zenon DEF Tidy
<1>. QED BY <1>1, <1>2

\* What the invariant says of a query in the stack.
LEMMA QueryKept ==
  ASSUME IInv, NEW d \in DOMAIN stack, NEW k \in DOMAIN stack[d].q
  PROVE  /\ Tidy(stack[d].q[k]) \/ (stack[d].at = "again" /\ k = stack[d].i)
         /\ stack[d].at \in {"result", "referral", "return"} => stack[d].q[k].open = FALSE
<1>. DEFINE f == stack[d]
<1>1. DOMAIN stack = 1..Len(stack)
  BY DEF IInv, Nested, IsSequence
<1>2. Framed(f, servers)
  BY <1>1 DEF IInv, Frames
<1>3. Calling(f)
  <2>1. ~Discovering(f, servers)
    BY DEF Discovering
  <2>. QED BY <1>2, <2>1 DEF Framed
<1>. HIDE DEF f
<1>4. CASE f.at = "lookup"
  <2>1. Quiet(f)
    BY <1>3, <1>4, AtLookup
  <2>. QED BY <1>4, <2>1 DEF Quiet, f
<1>5. CASE f.at \in Loops /\ Asks(f)
  BY <1>5 DEF Asks, Kept, Loops, AtOne, f
<1>6. CASE Settled(f)
  BY <1>6 DEF Settled, f
<1>. QED BY <1>3, <1>4, <1>5, <1>6 DEF Calling

LEMMA IInvNothingLeaks == ASSUME IInv PROVE NothingLeaks
<1>1. ASSUME NEW d \in DOMAIN stack, NEW k \in DOMAIN stack[d].q
      PROVE  /\ stack[d].at # "again" \/ k # stack[d].i =>
                  /\ (stack[d].q[k].open <=> stack[d].q[k].state \in Waiting)
                  /\ (stack[d].q[k].asked <=> stack[d].q[k].state \in Waiting)
             /\ stack[d].at \in {"result", "referral", "return"} => ~stack[d].q[k].open
  <2>. DEFINE st == stack[d].q[k]
  <2>1. /\ Tidy(st) \/ (stack[d].at = "again" /\ k = stack[d].i)
        /\ stack[d].at \in {"result", "referral", "return"} => st.open = FALSE
    BY QueryKept
  <2>2. Tidy(st) => (st.open <=> st.state \in Waiting) /\ (st.asked <=> st.state \in Waiting)
    BY TidySays
  <2>. HIDE DEF st
  <2>3. stack[d].at \in {"result", "referral", "return"} => ~st.open
    BY <2>1, Zenon
  <2>. QED BY <2>1, <2>2, <2>3, Zenon DEF st
<1>2. \A k \in DOMAIN results : results[k].call = "test" => ~results[k].left
  BY DEF IInv, NoneLeft
<1>. QED BY <1>1, <1>2, Zenon DEF NothingLeaks

\* NothingLeaks: a query has its message and its socket while it waits for its server and only then, and
\* none waits when its look-up is over, whatever servers and sockets do, in whatever order the batches
\* of queries go: answers, errors, timeouts, retries over TCP or UDP, and a test that is interrupted.
THEOREM QueriesNeverLeak == Spec => []NothingLeaks
<1>1. Init => IInv
  BY IInvInit
<1>2. IInv /\ [Next]_vars => IInv'
  BY IInvNext
<1>3. IInv => NothingLeaks
  BY IInvNothingLeaks
<1>. QED BY <1>1, <1>2, <1>3, PTL DEF Spec

LEMMA HeardFromOwn ==
  ASSUME Heard, NEW n \in DOMAIN cache', cache'[n] # Get(cache, n)
  PROVE  LET st == Top.q[IF Top.at = "result" THEN Top.ans.by ELSE Top.i]
         IN  Paranoid /\ st.auth_serv = 2 => Within(n, st.nsdomain.name)
<1>. DEFINE by == IF Top.at = "result" THEN Top.ans.by ELSE Top.i
            st == Top.q[by]
<1>1. ~Untouched(cache', cache, n)
  BY DEF Untouched, Get
<1>2. /\ Calling(Top)
      /\ \/ Top.at # "result" /\ Top.i \in DOMAIN Top.q /\ MaySpeakFor(Top.q[Top.i], n)
         \/ Top.at = "result" /\ Answers(Top, Top.ans) /\ n = Top.name
  BY <1>1 DEF Heard
<1>3. by \in DOMAIN Top.q /\ (MaySpeakFor(st, n) \/ n = Top.name)
  BY <1>2 DEF Answers
<1>4. Believed(Top.name, st)
  BY <1>2, <1>3 DEF Calling, Basic
<1>. HIDE DEF by, st
<1>5. Paranoid /\ st.auth_serv = 2 => Within(n, st.nsdomain.name)
  BY <1>3, <1>4 DEF Believed, MaySpeakFor, Trustworthy
<1>. QED BY <1>5 DEF st, by

\* NothingForeign: with "paranoid", nothing that a server to which others have referred says of names
\* outside the domain that it is responsible for reaches the cache, be it in an answer's sections or as
\* the answer itself after further referrals, for any tree of domains and any replies.
THEOREM ForeignersAreNotHeard == Spec => NothingForeign
<1>1. Init => IInv
  BY IInvInit
<1>2. IInv /\ [Next]_vars => IInv' /\ Heard
  BY IInvNext
<1>3. Heard => \A n \in DOMAIN cache' : cache'[n] # Get(cache, n) =>
                 LET st == Top.q[IF Top.at = "result" THEN Top.ans.by ELSE Top.i]
                 IN  Paranoid /\ st.auth_serv = 2 => Within(n, st.nsdomain.name)
  BY HeardFromOwn
<1>4. IInv /\ [Next]_vars => [\A n \in DOMAIN cache' : cache'[n] # Get(cache, n) =>
                               LET st == Top.q[IF Top.at = "result" THEN Top.ans.by ELSE Top.i]
                               IN  Paranoid /\ st.auth_serv = 2 => Within(n, st.nsdomain.name)]_vars
  BY <1>2, <1>3
<1>. QED BY <1>1, <1>2, <1>4, PTL DEF Spec, NothingForeign
=============================================================================
