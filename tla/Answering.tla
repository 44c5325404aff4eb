------------------------------ MODULE Answering ------------------------------
(***************************************************************************)
(* The threads of Admission at work: each reads the query of its client,   *)
(* has the names resolved one after the other, puts the answer together    *)
(* (Compose) and sends it. job[w] is what worker w is about: at, the       *)
(* place; request; the message m; qi and qname, the question and the name  *)
(* in its chain of aliases; hops left. Between two steps other threads     *)
(* change the cache: a look-up finds one of the entries the cache may have *)
(* for a name, or none.                                                    *)
(***************************************************************************)
EXTENDS Admission, Compose

CONSTANTS
  Requests,                  \* what clients send, by protocol
  Outcomes,                  \* what dns_cached_resolve() may return, by name: rc, and ent or soa
  CacheEntries,              \* what the cache may hold
  MAX_HOPS,
  Faults                     \* of "memory", "client"

IsQuery(q) ==
  /\ IsList(q.qs) /\ \A k \in DOMAIN q.qs : IsList(q.qs[k].name)
  /\ IsList(q.opts) /\ \A k \in DOMAIN q.opts : q.opts[k].udpsize \in Nat

ASSUME RequestsAssumption == \A s \in Servers : \A r \in Requests[s] : IsQuery(r.query)
ASSUME EntriesAssumption ==
  /\ \A ent \in CacheEntries : IsEntry(ent)
  /\ \A r \in Outcomes : r.rc = "OK" => IsEntry(r.ent)

VARIABLE job

vars == <<admission, job>>

NoJob == [at |-> "none"]

Resolved(name) == {r \in Outcomes : r.name = name}
Cached(name) == {ent \in CacheEntries : ent.qname = name}
Found(name) == Cached(name) \union {Nothing}

Job(proto, request) ==
  [at |-> IF proto = "tcp" THEN "read" ELSE "process", proto |-> proto, request |-> request, m |-> NoMessage, qi |-> 1,
   qname |-> <<>>, hops |-> MAX_HOPS, aa |-> TRUE, ent |-> Nothing, reply |-> Nothing]

Put(w, j) == job' = [job EXCEPT ![w] = j]
At(w, at) == pc[w] = "active" /\ job[w].at = at
Goes(w, j) == Put(w, j) /\ UNCHANGED admission

Query(j) == j.request.query
Question(j) == Query(j).qs[j.qi]
Udp(j) == IF j.proto = "tcp" THEN Nothing ELSE [max |-> UdpMax(Query(j))]
Edns(j) == Query(j).opts # <<>>

\* The answer goes out; what does not fit into a datagram is cut off.
Truncated(reply, udp) ==
  IF udp # Nothing /\ reply.m.sz > udp.max THEN [reply EXCEPT !.tc = TRUE, !.m.sz = udp.max] ELSE reply

Sends(j, reply) == [j EXCEPT !.at = "over", !.m = NoMessage, !.ent = Nothing, !.reply = Truncated(reply, Udp(j))]
Replies(j, rcode, aa, m) == Sends(j, [rcode |-> rcode, aa |-> aa, tc |-> FALSE, m |-> m])
Fails(j, rcode) == Sends(j, ErrorReply(rcode))
Discards(j) == [j EXCEPT !.at = "over", !.m = NoMessage, !.ent = Nothing]

\* The next question, or the rest of the message.
NextQuestion(j) ==
  IF j.qi < Len(Query(j).qs)
  THEN [j EXCEPT !.qi = @ + 1, !.qname = Query(j).qs[j.qi + 1].name, !.hops = MAX_HOPS, !.at = "resolve"]
  ELSE [j EXCEPT !.at = "sections"]

\* The error_reply of process_query(): there may be no memory for it either.
Errs(w, rcode) == Goes(w, Fails(job[w], rcode)) \/ ("memory" \in Faults /\ Goes(w, Discards(job[w])))

----------------------------------------------------------------------------
(* From the client to process_query(). *)

\* A TCP client may be slow, send nothing, or go before all is there: an error, if the id is.
Reads(w) ==
  /\ At(w, "read")
  /\ \/ job[w].request.sends = "all" /\ Goes(w, [job[w] EXCEPT !.at = "process"])
     \/ job[w].request.sends = "part" /\ Goes(w, Fails(job[w], "FORMAT"))
     \/ /\ job[w].request.sends = "nothing" \/ "client" \in Faults \/ "memory" \in Faults
        /\ Goes(w, Discards(job[w]))

StartAnswer(j) ==
  LET m == Begun(Query(j))
  IN  IF \E k \in DOMAIN Query(j).qs : ~Supported(Query(j).qs[k])
      THEN Replies(j, "NOTSUPP", FALSE, m)
      ELSE [j EXCEPT !.at = "resolve", !.m = m, !.qname = Query(j).qs[1].name]

ProcessQuery(w) ==
  /\ At(w, "process")
  /\ LET objection == Objection(Query(job[w]))
     IN  CASE objection = "discard" -> Goes(w, Discards(job[w]))
           [] objection = "none" -> Goes(w, StartAnswer(job[w]))
           [] OTHER -> Errs(w, objection)

\* Wherever memory runs out while the answer is composed, an error is sent instead.
OutOfMemory(w) ==
  /\ "memory" \in Faults
  /\ \E at \in {"resolve", "authority", "sections"} : At(w, at)
  /\ Errs(w, "SERVFAIL")

----------------------------------------------------------------------------
(* compose_answer() *)

\* Variant: the last name alone says whether the answer is authoritative.
WithEntryLast(j, ent) ==
  [j EXCEPT !.aa = "LOCAL" \in ent.flags, !.ent = ent,
            !.m = AddToResponse(@, j.qname, Question(j).type, ent, Udp(j))]

WithEntry(j, ent) ==
  [j EXCEPT !.aa = @ /\ "LOCAL" \in ent.flags, !.ent = ent,
            !.m = AddToResponse(@, j.qname, Question(j).type, ent, Udp(j))]

\* An alias is followed up to MAX_HOPS times; then there is no authority section for it.
\* Variant: it is followed as long as there is one.
FollowsEndless(j, ent) ==
  IF FollowsAlias(Query(j), Question(j).type, ent)
  THEN [WithEntry(j, ent) EXCEPT !.qname = Alias(ent), !.m = j.m]
  ELSE [WithEntry(j, ent) EXCEPT !.at = "authority"]

Follows(j, ent) ==
  IF FollowsAlias(Query(j), Question(j).type, ent)
  THEN IF j.hops > 0 THEN [WithEntry(j, ent) EXCEPT !.qname = Alias(ent), !.hops = @ - 1]
       ELSE NextQuestion(WithEntry(j, ent))
  ELSE [WithEntry(j, ent) EXCEPT !.at = "authority"]

Refuses(j, rc, soa) == Replies(j, rc, FALSE, Denied(j.m, rc, soa, Edns(j), Udp(j)))

Resolve(w) ==
  /\ At(w, "resolve")
  /\ \E r \in Resolved(job[w].qname) :
       \/ r.rc = "OK" /\ Goes(w, Follows(job[w], r.ent))
       \/ /\ r.rc # "OK"
          /\ \E soa \in IF r.soa < Len(job[w].qname) THEN Found(Upper(job[w].qname, r.soa)) ELSE {Nothing} :
               Goes(w, Refuses(job[w], r.rc, soa))

\* The name servers of the answer, or the SOA of what is not there: of the entry itself, of the
\* name it refers to, or of the nearest local owner.
LocalOwners(ent, type) ==
  IF "LOCAL" \notin ent.flags THEN {Nothing}
  ELSE {Nothing} \union UNION {{e \in Cached(Upper(ent.qname, k)) : HaveRr(e, type)} : k \in 1..Len(ent.qname) - 1}

NamesAuthority(w) ==
  /\ At(w, "authority")
  /\ LET j == job[w]
         type == AuthorityType(Question(j).type, j.ent)
     IN  \E above \in Found(HigherName(j.ent, type)), own \in LocalOwners(j.ent, type) :
           Goes(w, NextQuestion([j EXCEPT !.m = WithAuthority(@, type, Authority(j.ent, type, above, own)),
                                          !.ent = Nothing]))

Composes(w) ==
  /\ At(w, "sections")
  /\ LET j == job[w]
         m == AddAuthorities(j.m, Udp(j))
     IN  \E found \in [Hosts(m) -> UNION {Found(n) : n \in Hosts(m)}] :
           /\ \A n \in Hosts(m) : found[n] \in Found(n)
           /\ Goes(w, Replies(j, "OK", j.aa, AddAdditionals(m, found, Edns(j), Udp(j))))

----------------------------------------------------------------------------
Init == AdmissionInit /\ job = [w \in Workers |-> NoJob]

\* Any thread is as good as another. What the client has sent makes no difference before the
\* thread has its turn.
Created(s, w) ==
  /\ Create(s, w) /\ w = CHOOSE v \in Workers : pc[v] = "none"
  /\ Put(w, [at |-> "waiting", proto |-> s])

Begins(w) ==
  /\ Activate(w)
  /\ \E r \in Requests[job[w].proto] : Put(w, Job(job[w].proto, r))

Ends(w) == job[w].at = "over" /\ Finish(w) /\ Put(w, NoJob)
Quits(w) == RunAsFails(w) /\ Put(w, NoJob)

Work(w) == Reads(w) \/ ProcessQuery(w) \/ Resolve(w) \/ NamesAuthority(w) \/ Composes(w)

Thread(w) == Work(w) \/ Ends(w) \/ Begins(w) \/ (RunAs(w) /\ UNCHANGED job)

Next ==
  \/ MainStep /\ UNCHANGED job
  \/ \E s \in Servers :
       \/ (ServerRunsAs(s) \/ ServerRunAsFails(s) \/ Admit(s) \/ CreateFails(s) \/ CloseSocket(s) \/ ServerEnds(s)) /\ UNCHANGED job
       \/ \E w \in Workers : Created(s, w)
  \/ \E w \in Workers : Thread(w) \/ OutOfMemory(w) \/ Quits(w)

(***************************************************************************)
(* Threads run: WF_vars of a thread's steps, with what enables them        *)
(* written out, since ENABLED would compose every answer once more. A      *)
(* thread that waits for its turn tries again and again, and nobody says   *)
(* that it is the one to get it.                                           *)
(***************************************************************************)
Steps(w) == pc'[w] # pc[w] \/ job'[w] # job[w]
Runs(w) == []<>(pc[w] \notin {"started", "active"}) \/ []<><<Steps(w)>>_vars

Fairness == (\A w \in Workers : Runs(w)) /\ WF_vars(\E w \in Workers : Begins(w))

Spec == Init /\ [][Next]_vars /\ Fairness

----------------------------------------------------------------------------
(* Properties. *)

\* A name in a message, and whether it reads as what it stands for: what is not written out is
\* found where the pointer leads, in a name that is in the message still.
Readable(text, k) ==
  LET t == text[k]
  IN  t.to.k > 0 =>
        \E i \in 1..k - 1 :
          LET s == text[i]
              skipped == (t.to.offs - s.index) \div 2
          IN  /\ s.index <= t.to.offs /\ skipped <= s.new /\ t.to.offs = s.index + Labels(skipped)
              /\ SubSeq(s.name, skipped + 1, Len(s.name)) = Upper(t.name, t.to.k)

\* Every name of an answer reads right, also after records were taken back.
NamesReadable ==
  \A w \in Workers : pc[w] = "active" =>
    \A m \in {job[w].m} \union (IF job[w].reply = Nothing THEN {} ELSE {job[w].reply.m}) :
      \A k \in DOMAIN m.text : Readable(m.text, k)

\* No record of the last two sections comes twice, or repeats one of the answer, but for a SOA
\* that one question asks for and another needs because there is nothing of what it asks for.
Repeats(rrs, i, k) == Once(rrs[i]) = Once(rrs[k]) /\ (rrs[k].type = "SOA" => rrs[i].sect # "answer")
NoDoubles ==
  \A w \in Workers : job[w].at = "over" /\ job[w].reply # Nothing =>
    LET rrs == job[w].reply.m.rrs
    IN  \A i, k \in DOMAIN rrs : i < k /\ rrs[k].sect # "answer" /\ rrs[k].type # "OPT" => ~Repeats(rrs, i, k)

\* An answer is authoritative only if all of it is local, along the whole chain of aliases.
AuthoritativeIsLocal ==
  \A w \in Workers : job[w].at = "over" /\ job[w].reply # Nothing /\ job[w].reply.aa =>
    LET rrs == job[w].reply.m.rrs
    IN  \A k \in DOMAIN rrs : rrs[k].sect = "answer" => rrs[k].local

\* A datagram is no longer than client and configuration allow.
FitsDatagram ==
  \A w \in Workers : job[w].at = "over" /\ job[w].proto = "udp" /\ job[w].reply # Nothing =>
    LET q == Query(job[w])
    IN  \/ job[w].reply.m.sz <= UDP_BUFSIZE
        \/ q.opts # <<>> /\ job[w].reply.m.sz <= q.opts[1].udpsize /\ job[w].reply.m.sz <= udpbufsize

\* An answer can be read, repeats nothing and is no longer than it may be (add_rr, add_additional_rr,
\* compose_answer).
MessageSound == NamesReadable /\ NoDoubles /\ FitsDatagram

\* When clients stay away for long enough every thread ends.
QueueDrains == Counted # {} ~> Counted = {}
=============================================================================
