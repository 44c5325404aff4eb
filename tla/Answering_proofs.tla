-------------------------- MODULE Answering_proofs --------------------------
(***************************************************************************)
(* First: the counters of the answering threads are exact and within their *)
(* limits, and the last server ends the program, whatever the limits and   *)
(* however many threads and queries there are. However the threads work on *)
(* their answers, they are the threads of Admission, and so both hold of   *)
(* them.                                                                   *)
(*                                                                         *)
(* Then: what they send. Whatever is asked, whatever the cache holds and   *)
(* however long names, aliases and sets are, every name of an answer can   *)
(* be read, nothing is in it twice, and it is authoritative only if its    *)
(* answer is local. The argument goes from the inside out: Covered is what *)
(* compress_name() keeps true of what it remembers, Core of a message,     *)
(* Sound of an answer under way, Jobs of all threads. Each loop of the     *)
(* code is an instance of FoldFacts, with what a pass keeps as Good.       *)
(***************************************************************************)
EXTENDS Answering, FiniteSetTheorems, SequenceTheorems, TLAPS

\* A server that may still go on has a socket.
Sockets == \A s \in Servers : serv[s] \in {"starts", "recv", "create"} => open[s]

\* The main thread starts a server once.
Unstarted == \A s \in Servers : main = s => serv[s] = "none" /\ (s = "tcp" => serv["udp"] = "none")

IInv == TypeOK /\ CountersExact /\ LastServerExits /\ Sockets /\ Unstarted

-----------------------------------------------------------------------------
\* What a function says of the members of a set, counted.
Chosen(S, f, P) == {x \in S : f[x] \in P}

\* By how much a count changes.
Change(before, after) == IF after /\ ~before THEN 1 ELSE IF before /\ ~after THEN -1 ELSE 0

\* One member changes its place.
LEMMA CountMove ==
  ASSUME NEW S, IsFiniteSet(S), NEW f, NEW g, NEW P, NEW x \in S,
         \A y \in S \ {x} : g[y] = f[y]
  PROVE  /\ Cardinality(Chosen(S, f, P)) \in Nat
         /\ Cardinality(Chosen(S, g, P)) = Cardinality(Chosen(S, f, P)) + Change(f[x] \in P, g[x] \in P)
<1>1. IsFiniteSet(Chosen(S, f, P)) /\ Cardinality(Chosen(S, f, P)) \in Nat
  BY FS_Subset, FS_CardinalityType DEF Chosen
<1>2. CASE g[x] \in P /\ f[x] \notin P
  <2>1. Chosen(S, g, P) = Chosen(S, f, P) \union {x} /\ x \notin Chosen(S, f, P)
    BY <1>2 DEF Chosen
  <2>2. Cardinality(Chosen(S, g, P)) = Cardinality(Chosen(S, f, P)) + 1
    BY <2>1, <1>1, FS_AddElement
  <2>. QED BY <2>2, <1>1, <1>2 DEF Change
<1>3. CASE g[x] \notin P /\ f[x] \in P
  <2>1. Chosen(S, g, P) = Chosen(S, f, P) \ {x} /\ x \in Chosen(S, f, P)
    BY <1>3 DEF Chosen
  <2>2. Cardinality(Chosen(S, g, P)) = Cardinality(Chosen(S, f, P)) - 1
    BY <2>1, <1>1, FS_RemoveElement
  <2>. QED BY <2>2, <1>1, <1>3 DEF Change
<1>4. CASE g[x] \in P <=> f[x] \in P
  <2>1. Chosen(S, g, P) = Chosen(S, f, P)
    BY <1>4 DEF Chosen
  <2>. QED BY <2>1, <1>1, <1>4 DEF Change
<1>. QED BY <1>2, <1>3, <1>4, <1>1

LEMMA ServersFinite == IsFiniteSet(Servers)
<1>1. Servers = ({} \union {"tcp"}) \union {"udp"}
  BY DEF Servers
<1>. QED BY <1>1, FS_EmptySet, FS_AddElement

Working == {"started", "queued", "active"}

\* A worker moves: how its places before and after count.
LEMMA WorkerMoves ==
  ASSUME TypeOK, TypeOK', NEW w \in Workers,
         \A v \in Workers \ {w} : pc'[v] = pc[v]
  PROVE  /\ Cardinality(Active) \in Nat /\ Cardinality(Counted) \in Nat
         /\ Cardinality(Active)' = Cardinality(Active) + Change(pc[w] = "active", pc'[w] = "active")
         /\ Cardinality(Counted)' = Cardinality(Counted) + Change(pc[w] # "none", pc'[w] # "none")
<1>1. /\ Active = Chosen(Workers, pc, {"active"}) /\ Active' = Chosen(Workers, pc', {"active"})
      /\ Counted = Chosen(Workers, pc, Working) /\ Counted' = Chosen(Workers, pc', Working)
  BY DEF TypeOK, Active, Counted, Chosen, Working
<1>2. ASSUME NEW P
      PROVE  /\ Cardinality(Chosen(Workers, pc, P)) \in Nat
             /\ Cardinality(Chosen(Workers, pc', P)) =
                  Cardinality(Chosen(Workers, pc, P)) + Change(pc[w] \in P, pc'[w] \in P)
  BY WorkersFinite, CountMove DEF Change
<1>3. /\ Cardinality(Chosen(Workers, pc, {"active"})) \in Nat
      /\ Cardinality(Chosen(Workers, pc', {"active"})) =
           Cardinality(Chosen(Workers, pc, {"active"})) + Change(pc[w] \in {"active"}, pc'[w] \in {"active"})
      /\ Cardinality(Chosen(Workers, pc, Working)) \in Nat
      /\ Cardinality(Chosen(Workers, pc', Working)) =
           Cardinality(Chosen(Workers, pc, Working)) + Change(pc[w] \in Working, pc'[w] \in Working)
  BY <1>2, Zenon
<1>4. /\ pc[w] \in Working <=> pc[w] # "none"
      /\ pc'[w] \in Working <=> pc'[w] # "none"
  BY DEF TypeOK, Working
<1>5. /\ Change(pc[w] \in {"active"}, pc'[w] \in {"active"}) = Change(pc[w] = "active", pc'[w] = "active")
      /\ Change(pc[w] \in Working, pc'[w] \in Working) = Change(pc[w] # "none", pc'[w] # "none")
  BY <1>4 DEF Change
<1>. QED BY <1>1, <1>3, <1>5

LEMMA CardinalitiesNat ==
  ASSUME TypeOK
  PROVE  Cardinality(Active) \in Nat /\ Cardinality(Counted) \in Nat /\ Cardinality(Admitted) \in Nat
<1>1. IsFiniteSet(Active) /\ IsFiniteSet(Counted) /\ IsFiniteSet(Admitted)
  BY WorkersFinite, ServersFinite, FS_Subset DEF Active, Counted, Admitted
<1>. QED BY <1>1, FS_CardinalityType

\* A server moves.
LEMMA ServerMoves ==
  ASSUME TypeOK, TypeOK', NEW s \in Servers,
         \A t \in Servers \ {s} : serv'[t] = serv[t]
  PROVE  /\ Cardinality(Admitted) \in Nat
         /\ Cardinality(Admitted)' = Cardinality(Admitted) + Change(serv[s] = "create", serv'[s] = "create")
<1>1. Admitted = Chosen(Servers, serv, {"create"}) /\ Admitted' = Chosen(Servers, serv', {"create"})
  BY DEF TypeOK, Admitted, Chosen
<1>2. /\ Cardinality(Chosen(Servers, serv, {"create"})) \in Nat
      /\ Cardinality(Chosen(Servers, serv', {"create"})) =
           Cardinality(Chosen(Servers, serv, {"create"})) + Change(serv[s] \in {"create"}, serv'[s] \in {"create"})
  BY ServersFinite, CountMove DEF Change
<1>3. Change(serv[s] \in {"create"}, serv'[s] \in {"create"}) = Change(serv[s] = "create", serv'[s] = "create")
  BY DEF Change
<1>. QED BY <1>1, <1>2, <1>3

-----------------------------------------------------------------------------
LEMMA Initially == ASSUME AdmissionInit PROVE IInv
<1>1. TypeOK
  <2>1. serv \in [Servers -> {"none", "starts", "recv", "create", "closed", "over"}]
    BY DEF AdmissionInit
  <2>2. pc \in [Workers -> {"none", "started", "queued", "active"}]
    BY DEF AdmissionInit
  <2>3. main \in Places /\ procs \in Int /\ qprocs \in Int /\ taken \in Int
    BY DEF AdmissionInit, Places
  <2>4. open \in [Servers -> BOOLEAN] /\ exiting \in BOOLEAN
    BY Zenon DEF AdmissionInit
  <2>. QED BY <2>1, <2>2, <2>3, <2>4 DEF TypeOK
<1>2. LastServerExits /\ Sockets /\ Unstarted
  BY DEF AdmissionInit, LastServerExits, Sockets, Unstarted, Servers
<1>3. Counted = {} /\ Active = {} /\ Admitted = {}
  BY DEF AdmissionInit, Counted, Active, Admitted
<1>4. CountersExact
  BY <1>3, FS_EmptySet, LimitsNat DEF AdmissionInit, CountersExact
<1>. QED BY <1>1, <1>2, <1>4 DEF IInv

\* What no step changes: types, and that the last server to go tells the program to end.
LEMMA TypesKept == ASSUME TypeOK, AdmissionNext PROVE TypeOK'
<1>1. ASSUME NEW s \in Servers, StartServer(s) \/ StartFails(s) PROVE TypeOK'
  BY <1>1 DEF TypeOK, StartServer, StartFails, GoesOn, Servers, Places, counters
<1>2. ASSUME NEW s \in Servers, Admit(s) PROVE TypeOK'
  BY <1>2 DEF TypeOK, Admit, Takes
<1>3. ASSUME NEW s \in Servers, NEW w \in Workers, Create(s, w) PROVE TypeOK'
  BY <1>3 DEF TypeOK, Create, counters
<1>4. ASSUME NEW s \in Servers, CreateFails(s) PROVE TypeOK'
  BY <1>4 DEF TypeOK, CreateFails
<1>5. ASSUME NEW s \in Servers, CloseSocket(s) PROVE TypeOK'
  BY <1>5 DEF TypeOK, CloseSocket, counters
<1>6. ASSUME NEW s \in Servers, ServerEnds(s) PROVE TypeOK'
  <2>1. exiting' \in BOOLEAN
    BY <1>6, Zenon DEF ServerEnds
  <2>. QED BY <1>6, <2>1 DEF TypeOK, ServerEnds, counters
<1>7. ASSUME NEW w \in Workers, RunAs(w) PROVE TypeOK'
  BY <1>7 DEF TypeOK, RunAs, threads, counters
<1>8. ASSUME NEW w \in Workers, RunAsFails(w) PROVE TypeOK'
  BY <1>8 DEF TypeOK, RunAsFails, threads
<1>9. ASSUME NEW w \in Workers, Activate(w) \/ Finish(w) PROVE TypeOK'
  BY <1>9 DEF TypeOK, Activate, Finish, threads
<1>10. ASSUME NEW s \in Servers, ServerRunsAs(s) \/ ServerRunAsFails(s) PROVE TypeOK'
  BY <1>10 DEF TypeOK, ServerRunsAs, ServerRunAsFails, counters
<1>. QED BY <1>1, <1>2, <1>3, <1>4, <1>5, <1>6, <1>7, <1>8, <1>9, <1>10
         DEF AdmissionNext, MainStep, ServerStep, WorkerStep

LEMMA ExitsKept ==
  ASSUME IInv, AdmissionNext PROVE LastServerExits' /\ Sockets'
<1>. USE DEF IInv, TypeOK, LastServerExits, Sockets, Servers
<1>1. ASSUME NEW s \in Servers, StartServer(s) \/ StartFails(s) PROVE LastServerExits' /\ Sockets'
  BY <1>1 DEF StartServer, StartFails, counters
<1>2. ASSUME NEW s \in Servers, Admit(s) PROVE LastServerExits' /\ Sockets'
  BY <1>2 DEF Admit, Takes
<1>3. ASSUME NEW s \in Servers, NEW w \in Workers, Create(s, w) PROVE LastServerExits' /\ Sockets'
  BY <1>3 DEF Create, counters
<1>4. ASSUME NEW s \in Servers, CreateFails(s) PROVE LastServerExits' /\ Sockets'
  BY <1>4 DEF CreateFails
<1>5. ASSUME NEW s \in Servers, CloseSocket(s) PROVE LastServerExits' /\ Sockets'
  BY <1>5 DEF CloseSocket, counters
<1>6. ASSUME NEW s \in Servers, ServerEnds(s) PROVE LastServerExits' /\ Sockets'
  <2>1. exiting' <=> exiting \/ ~open[Other[s]]
    BY <1>6 DEF ServerEnds
  <2>2. Other[s] \in Servers /\ open' = open
    BY <1>6 DEF ServerEnds, Other
  <2>3. LastServerExits'
    BY <2>1, <2>2
  <2>. QED BY <1>6, <2>2, <2>3 DEF ServerEnds
<1>7. ASSUME NEW w \in Workers, WorkerStep(w) PROVE LastServerExits' /\ Sockets'
  BY <1>7 DEF WorkerStep, RunAs, RunAsFails, Activate, Finish, threads
<1>8. ASSUME NEW s \in Servers, ServerRunsAs(s) \/ ServerRunAsFails(s) PROVE LastServerExits' /\ Sockets'
  BY <1>8 DEF ServerRunsAs, ServerRunAsFails, counters
<1>. QED BY <1>1, <1>2, <1>3, <1>4, <1>5, <1>6, <1>7, <1>8 DEF AdmissionNext, MainStep, ServerStep

LEMMA StartsKept ==
  ASSUME IInv, AdmissionNext PROVE Unstarted'
<1>. USE DEF IInv, TypeOK, Unstarted, Servers
<1>1. ASSUME NEW s \in Servers, StartServer(s) \/ StartFails(s) PROVE Unstarted'
  BY <1>1 DEF StartServer, StartFails, GoesOn
<1>2. ASSUME NEW s \in Servers, ServerStep(s) PROVE Unstarted'
  <2>1. UNCHANGED main /\ serv[s] # "none" /\ \A t \in Servers \ {s} : serv'[t] = serv[t]
    BY <1>2 DEF ServerStep, ServerRunsAs, ServerRunAsFails, Admit, Takes, Create, CreateFails, CloseSocket, ServerEnds
  <2>. QED BY <2>1
<1>3. ASSUME NEW w \in Workers, WorkerStep(w) PROVE Unstarted'
  BY <1>3 DEF WorkerStep, RunAs, RunAsFails, Activate, Finish, threads
<1>. QED BY <1>1, <1>2, <1>3 DEF AdmissionNext, MainStep

\* Who is not moved is counted as before.
LEMMA Unmoved ==
  /\ UNCHANGED pc => Active' = Active /\ Counted' = Counted
  /\ UNCHANGED serv => Admitted' = Admitted
  BY DEF Active, Counted, Admitted

\* A server that does not go to or come from a thread's creation changes no count.
LEMMA CountersKept ==
  ASSUME IInv, AdmissionNext PROVE CountersExact'
<1>. USE LimitsNat
<1>t. TypeOK /\ TypeOK' /\ CountersExact
  BY TypesKept DEF IInv
<1>1. ASSUME NEW s \in Servers,
             StartServer(s) \/ ServerRunsAs(s) \/ ServerRunAsFails(s) \/ CloseSocket(s) \/ ServerEnds(s)
      PROVE  CountersExact'
  <2>0. UNCHANGED pc /\ \A t \in Servers : serv'[t] = "create" <=> serv[t] = "create"
    <3>1. serv \in [Servers -> {"none", "starts", "recv", "create", "closed", "over"}]
      BY <1>t DEF TypeOK
    <3>2. CASE StartServer(s)
      BY <3>1, <3>2 DEF StartServer, IInv, Unstarted
    <3>3. CASE CloseSocket(s)
      BY <3>1, <3>3 DEF CloseSocket
    <3>4. CASE ServerEnds(s)
      BY <3>1, <3>4 DEF ServerEnds
    <3>5. CASE ServerRunsAs(s) \/ ServerRunAsFails(s)
      BY <3>1, <3>5 DEF ServerRunsAs, ServerRunAsFails
    <3>. QED BY <1>1, <3>2, <3>3, <3>4, <3>5
  <2>1. Admitted' = Admitted /\ Active' = Active /\ Counted' = Counted
    BY <2>0, Unmoved DEF Admitted
  <2>2. exiting => exiting'
    BY <1>1 DEF StartServer, ServerRunsAs, ServerRunAsFails, CloseSocket, ServerEnds
  <2>3. UNCHANGED <<procs, qprocs>>
    BY <1>1 DEF StartServer, ServerRunsAs, ServerRunAsFails, CloseSocket, ServerEnds, counters
  <2>. QED BY <2>1, <2>2, <2>3, <1>t DEF CountersExact
<1>2. ASSUME NEW s \in Servers, StartFails(s) PROVE CountersExact'
  BY <1>2, <1>t, Unmoved DEF StartFails, counters, CountersExact
<1>3. ASSUME NEW s \in Servers, Admit(s) PROVE CountersExact'
  <2>. DEFINE admits == qprocs < proc_limit + procq_limit
  <2>1. UNCHANGED <<procs, exiting, pc>> /\ serv[s] = "recv" /\ \A t \in Servers \ {s} : serv'[t] = serv[t]
    BY <1>3, <1>t DEF Admit, Takes, TypeOK
  <2>2. Cardinality(Counted) \in Nat /\ Cardinality(Active) \in Nat
    BY CardinalitiesNat, <1>t
  <2>3. CASE admits
    <3>1. qprocs' = qprocs + 1 /\ serv'[s] = "create"
      BY <2>3, <1>3, <1>t DEF Admit, TypeOK
    <3>2. Cardinality(Admitted) \in Nat /\ Cardinality(Admitted)' = Cardinality(Admitted) + 1
      BY <3>1, <2>1, <1>t, ServerMoves DEF Change
    <3>. QED BY <3>1, <3>2, <2>1, <2>2, <2>3, <1>t, Unmoved DEF CountersExact, TypeOK
  <2>4. CASE ~admits
    BY <2>4, <1>3, <1>t, Unmoved DEF Admit, CountersExact
  <2>. QED BY <2>3, <2>4
<1>4. ASSUME NEW s \in Servers, NEW w \in Workers, Create(s, w) PROVE CountersExact'
  <2>1. /\ UNCHANGED <<procs, qprocs, exiting>>
        /\ serv[s] = "create" /\ serv'[s] = "recv" /\ \A t \in Servers \ {s} : serv'[t] = serv[t]
        /\ pc[w] = "none" /\ pc'[w] = "started" /\ \A v \in Workers \ {w} : pc'[v] = pc[v]
    BY <1>4, <1>t DEF Create, counters, TypeOK
  <2>2. Cardinality(Admitted) \in Nat /\ Cardinality(Admitted)' = Cardinality(Admitted) - 1
    BY <2>1, <1>t, ServerMoves DEF Change
  <2>3. /\ Cardinality(Counted) \in Nat /\ Cardinality(Counted)' = Cardinality(Counted) + 1
        /\ Cardinality(Active) \in Nat /\ Cardinality(Active)' = Cardinality(Active)
    BY <2>1, <1>t, WorkerMoves DEF Change
  <2>. QED BY <2>1, <2>2, <2>3, <1>t DEF CountersExact
<1>5. ASSUME NEW s \in Servers, CreateFails(s) PROVE CountersExact'
  <2>1. /\ UNCHANGED <<procs, exiting, pc>> /\ qprocs' = qprocs - 1
        /\ serv[s] = "create" /\ serv'[s] = "recv" /\ \A t \in Servers \ {s} : serv'[t] = serv[t]
    BY <1>5, <1>t DEF CreateFails, TypeOK
  <2>2. Cardinality(Admitted) \in Nat /\ Cardinality(Admitted)' = Cardinality(Admitted) - 1
    BY <2>1, <1>t, ServerMoves DEF Change
  <2>3. Cardinality(Counted) \in Nat
    BY CardinalitiesNat, <1>t
  <2>. QED BY <2>1, <2>2, <2>3, <1>t, Unmoved DEF CountersExact, TypeOK
<1>6. ASSUME NEW w \in Workers, WorkerStep(w) PROVE CountersExact'
  <2>1. UNCHANGED serv /\ \A v \in Workers \ {w} : pc'[v] = pc[v]
    BY <1>6, <1>t DEF WorkerStep, RunAs, RunAsFails, Activate, Finish, threads, TypeOK
  <2>2. /\ Cardinality(Counted) \in Nat
        /\ Cardinality(Counted)' = Cardinality(Counted) + Change(pc[w] # "none", pc'[w] # "none")
        /\ Cardinality(Active) \in Nat
        /\ Cardinality(Active)' = Cardinality(Active) + Change(pc[w] = "active", pc'[w] = "active")
    BY <2>1, <1>t, WorkerMoves
  <2>3. Cardinality(Admitted) \in Nat /\ Admitted' = Admitted
    BY <2>1, CardinalitiesNat, <1>t, Unmoved
  <2>4. CASE RunAs(w)
    <3>1. pc[w] = "started" /\ pc'[w] = "queued" /\ UNCHANGED <<procs, qprocs, exiting>>
      BY <2>4, <1>t DEF RunAs, counters, TypeOK
    <3>. QED BY <3>1, <2>2, <2>3, <1>t DEF CountersExact, Change
  <2>5. CASE RunAsFails(w)
    <3>1. pc[w] = "started" /\ pc'[w] = "none" /\ qprocs' = qprocs - 1 /\ exiting'
      BY <2>5, <1>t DEF RunAsFails, TypeOK
    <3>. QED BY <3>1, <2>2, <2>3, <1>t DEF CountersExact, Change, TypeOK
  <2>6. CASE Activate(w)
    <3>1. /\ pc[w] = "queued" /\ pc'[w] = "active" /\ UNCHANGED <<qprocs, exiting>>
          /\ procs < proc_limit /\ procs' = procs + 1
      BY <2>6, <1>t DEF Activate, TypeOK
    <3>. QED BY <3>1, <2>2, <2>3, <1>t DEF CountersExact, Change, TypeOK
  <2>7. CASE Finish(w)
    <3>1. /\ pc[w] = "active" /\ pc'[w] = "none" /\ UNCHANGED exiting
          /\ procs' = procs - 1 /\ qprocs' = qprocs - 1
      BY <2>7, <1>t DEF Finish, TypeOK
    <3>. QED BY <3>1, <2>2, <2>3, <1>t DEF CountersExact, Change, TypeOK
  <2>. QED BY <1>6, <2>4, <2>5, <2>6, <2>7 DEF WorkerStep
<1>. QED BY <1>1, <1>2, <1>3, <1>4, <1>5, <1>6 DEF AdmissionNext, MainStep, ServerStep

LEMMA Stutters == ASSUME IInv, UNCHANGED admission PROVE IInv'
<1>1. UNCHANGED <<main, serv, open, pc, procs, qprocs, taken, exiting>>
  BY DEF admission, threads, counters
<1>. QED BY <1>1 DEF IInv, TypeOK, CountersExact, Counted, Active, Admitted, LastServerExits, Sockets, Unstarted

-----------------------------------------------------------------------------
LEMMA Inductive == AdmissionSpec => []IInv
<1>1. AdmissionInit => IInv
  BY Initially
<1>2. IInv /\ [AdmissionNext]_admission => IInv'
  BY TypesKept, ExitsKept, StartsKept, CountersKept, Stutters DEF IInv
<1>. QED BY <1>1, <1>2, PTL DEF AdmissionSpec

\* procs and qprocs (dns_answer.c) are always what they count, whatever fails on the way, and
\* keep within proc_limit and procq_limit, unless the program has been told to end.
THEOREM Counters == AdmissionSpec => []CountersExact
<1>1. IInv => CountersExact
  BY DEF IInv
<1>. QED BY <1>1, Inductive, PTL

\* Whichever server is the last to close its socket, it calls pdnsd_exit(), also when both
\* close theirs at the same time.
THEOREM Exits == AdmissionSpec => []LastServerExits
<1>1. IInv => LastServerExits
  BY DEF IInv
<1>. QED BY <1>1, Inductive, PTL

\* Every variable keeps its type.
THEOREM Types == AdmissionSpec => []TypeOK
<1>1. IInv => TypeOK
  BY DEF IInv
<1>. QED BY <1>1, Inductive, PTL

-----------------------------------------------------------------------------
\* The work of a thread does not touch what admission is about.
LEMMA WorkApart ==
  ASSUME NEW w \in Workers, Work(w) \/ OutOfMemory(w)
  PROVE  UNCHANGED admission
  BY DEF Work, OutOfMemory, Reads, ProcessQuery, Resolve, NamesAuthority, Composes, Errs, Goes

\* Every step of the threads that answer is one of Admission, or none.
LEMMA StepAdmits ==
  ASSUME [Next]_vars
  PROVE  [AdmissionNext]_admission
<1>1. CASE MainStep
  BY <1>1 DEF AdmissionNext
<1>2. ASSUME NEW s \in Servers,
             \/ ServerRunsAs(s) \/ ServerRunAsFails(s)
             \/ Admit(s) \/ CreateFails(s) \/ CloseSocket(s) \/ ServerEnds(s)
      PROVE  AdmissionNext
  BY <1>2 DEF AdmissionNext, ServerStep
<1>3. ASSUME NEW s \in Servers, NEW w \in Workers, Created(s, w)
      PROVE  AdmissionNext
  BY <1>3 DEF AdmissionNext, ServerStep, Created
<1>4. ASSUME NEW w \in Workers, Thread(w) \/ OutOfMemory(w) \/ Quits(w)
      PROVE  [AdmissionNext]_admission
  <2>1. CASE Work(w) \/ OutOfMemory(w)
    BY <2>1, WorkApart
  <2>2. CASE Ends(w) \/ Begins(w) \/ RunAs(w) \/ Quits(w)
    BY <2>2 DEF Ends, Begins, Quits, AdmissionNext, WorkerStep
  <2>. QED BY <1>4, <2>1, <2>2 DEF Thread
<1>5. CASE UNCHANGED vars
  BY <1>5 DEF vars
<1>. QED BY <1>1, <1>2, <1>3, <1>4, <1>5 DEF Next

\* The threads that answer (dns_answer.c) implement Admission, whatever they are asked, whatever
\* the cache holds and whatever fails: no answer is begun beyond proc_limit or goes uncounted.
THEOREM Implements == Spec => AdmissionSpec
<1>1. Init => AdmissionInit
  BY DEF Init
<1>2. [Next]_vars => [AdmissionNext]_admission
  BY StepAdmits
<1>. QED BY <1>1, <1>2, PTL DEF Spec, AdmissionSpec

\* So the counters are exact at every step of every answer.
THEOREM CountersThroughout == Spec => []CountersExact
  BY Implements, Counters, PTL

\* And the last server ends the program, whatever the threads are about.
THEOREM ExitsThroughout == Spec => []LastServerExits
  BY Implements, Exits, PTL

-----------------------------------------------------------------------------
(* Lists and names. *)

LEMMA Lists ==
  ASSUME NEW s, IsList(s)
  PROVE  /\ Len(s) \in Nat /\ DOMAIN s = 1..Len(s)
         /\ s \in Seq({s[k] : k \in DOMAIN s})
         /\ s # <<>> => 1 \in 1..Len(s) /\ Len(s) \in 1..Len(s)
<1>. DEFINE R == {s[k] : k \in DOMAIN s}
<1>1. s \in Seq(R)
  BY DEF IsList
<1>. HIDE DEF R
<1>2. Len(s) \in Nat /\ DOMAIN s = 1..Len(s)
  BY <1>1, LenProperties
<1>3. s # <<>> => Len(s) \in Nat \ {0}
  BY <1>1, EmptySeq
<1>. QED BY <1>1, <1>2, <1>3 DEF R

LEMMA ListsFrom == ASSUME NEW S, NEW s \in Seq(S) PROVE IsList(s)
<1>1. Len(s) \in Nat /\ DOMAIN s = 1..Len(s) /\ s \in [1..Len(s) -> S]
  BY LenProperties
<1>. DEFINE R == {s[k] : k \in DOMAIN s}
<1>2. s \in [1..Len(s) -> R]
  BY <1>1
<1>. HIDE DEF R
<1>3. s \in Seq(R)
  BY <1>1, <1>2
<1>. QED BY <1>3 DEF R, IsList

LEMMA NoList == IsList(<<>>) /\ Len(<<>>) = 0
BY ListsFrom, EmptySeq

LEMMA Appended ==
  ASSUME NEW s, IsList(s), NEW e
  PROVE  /\ IsList(Append(s, e)) /\ Len(Append(s, e)) = Len(s) + 1
         /\ \A k \in 1..Len(s) : Append(s, e)[k] = s[k]
         /\ Append(s, e)[Len(s) + 1] = e
<1>. DEFINE R == {s[k] : k \in DOMAIN s}  T == R \union {e}
<1>1. s \in Seq(R) /\ R \subseteq T /\ e \in T
  BY DEF IsList
<1>. HIDE DEF R, T
<1>2. s \in Seq(T)
  BY <1>1, SeqMonotonic
<1>3. /\ Append(s, e) \in Seq(T) /\ Len(Append(s, e)) = Len(s) + 1
      /\ \A k \in 1..Len(s) : Append(s, e)[k] = s[k]
      /\ Append(s, e)[Len(s) + 1] = e
  BY <1>1, <1>2
<1>. QED BY <1>3, ListsFrom

\* The end of a name.
LEMMA Uppers ==
  ASSUME NEW n, IsList(n), NEW k \in 0..Len(n)
  PROVE  /\ IsList(Upper(n, k)) /\ Len(Upper(n, k)) = k
         /\ \A i \in 1..k : Upper(n, k)[i] = n[Len(n) - k + i]
<1>. DEFINE R == {n[i] : i \in DOMAIN n}
<1>1. n \in Seq(R) /\ Len(n) \in Nat /\ DOMAIN n = 1..Len(n)
  BY Lists
<1>2. \A i \in Len(n) - k + 1..Len(n) : n[i] \in R
  BY <1>1
<1>. HIDE DEF R
<1>. DEFINE u == SubSeq(n, Len(n) - k + 1, Len(n))
<1>3. /\ u \in Seq(R)
      /\ Len(u) = IF Len(n) - k + 1 <= Len(n) THEN Len(n) - (Len(n) - k + 1) + 1 ELSE 0
      /\ \A i \in 1..Len(n) - (Len(n) - k + 1) + 1 : u[i] = n[Len(n) - k + 1 + i - 1]
  <2>1. Len(n) - k + 1 \in Int /\ Len(n) \in Int
    BY <1>1
  <2>. QED BY <2>1, <1>2, SubSeqProperties
<1>. HIDE DEF u
<1>4. Len(u) = k /\ \A i \in 1..k : u[i] = n[Len(n) - k + i]
  BY <1>1, <1>3
<1>. QED BY <1>3, <1>4, ListsFrom DEF Upper, u

LEMMA SameList ==
  ASSUME NEW s, NEW t, IsList(s), IsList(t), Len(s) = Len(t), \A i \in 1..Len(s) : s[i] = t[i]
  PROVE  s = t
<1>. DEFINE R == {s[k] : k \in DOMAIN s}  T == {t[k] : k \in DOMAIN t}  U == R \union T
<1>1. s \in Seq(R) /\ t \in Seq(T) /\ R \subseteq U /\ T \subseteq U
  BY DEF IsList
<1>. HIDE DEF R, T, U
<1>2. s \in Seq(U) /\ t \in Seq(U)
  BY <1>1, SeqMonotonic
<1>. QED BY <1>2, SeqEqual

LEMMA UpperAll == ASSUME NEW n, IsList(n) PROVE Upper(n, Len(n)) = n
<1>1. Len(n) \in Nat
  BY Lists
<1>2. /\ IsList(Upper(n, Len(n))) /\ Len(Upper(n, Len(n))) = Len(n)
      /\ \A i \in 1..Len(n) : Upper(n, Len(n))[i] = n[Len(n) - Len(n) + i]
  BY <1>1, Uppers
<1>. QED BY <1>1, <1>2, SameList

\* Names that end alike end alike in less.
LEMMA UpperLess ==
  ASSUME NEW a, NEW b, IsList(a), IsList(b), NEW j \in Nat, NEW k \in 0..j,
         j <= Len(a), j <= Len(b), Upper(a, j) = Upper(b, j)
  PROVE  Upper(a, k) = Upper(b, k)
<1>1. Len(a) \in Nat /\ Len(b) \in Nat
  BY Lists
<1>2. /\ \A i \in 1..j : Upper(a, j)[i] = a[Len(a) - j + i]
      /\ \A i \in 1..j : Upper(b, j)[i] = b[Len(b) - j + i]
  BY <1>1, Uppers
<1>3. /\ IsList(Upper(a, k)) /\ Len(Upper(a, k)) = k /\ \A i \in 1..k : Upper(a, k)[i] = a[Len(a) - k + i]
      /\ IsList(Upper(b, k)) /\ Len(Upper(b, k)) = k /\ \A i \in 1..k : Upper(b, k)[i] = b[Len(b) - k + i]
  BY <1>1, Uppers
<1>4. ASSUME NEW i \in 1..k PROVE Upper(a, k)[i] = Upper(b, k)[i]
  <2>1. j - k + i \in 1..j
    OBVIOUS
  <2>2. a[Len(a) - j + (j - k + i)] = b[Len(b) - j + (j - k + i)]
    BY <2>1, <1>2
  <2>3. Len(a) - j + (j - k + i) = Len(a) - k + i /\ Len(b) - j + (j - k + i) = Len(b) - k + i
    BY <1>1
  <2>. QED BY <2>2, <2>3, <1>3
<1>. QED BY <1>3, <1>4, SameList

LEMMA Minimum == ASSUME NEW a \in Int, NEW b \in Int PROVE Min({a, b}) = IF a <= b THEN a ELSE b
<1>. DEFINE c == IF a <= b THEN a ELSE b
<1>1. c \in {a, b} /\ \A y \in {a, b} : c <= y
  OBVIOUS
<1>2. \A x \in {a, b} : (\A y \in {a, b} : x <= y) => x = c
  OBVIOUS
<1>. HIDE DEF c
<1>3. (CHOOSE x \in {a, b} : \A y \in {a, b} : x <= y) = c
  BY <1>1, <1>2
<1>. QED BY <1>3 DEF Min, c

-----------------------------------------------------------------------------
(* compress_name(): what is remembered is in the message. *)

\* A remembered name of which the last k labels are written out in the message.
Written(text, el, k) ==
  \E i \in 1..Len(text) :
    text[i].index = el.index /\ text[i].name = el.name /\ Len(el.name) - k <= text[i].new

Remembered(cb) == IsList(cb) /\ \A c \in 1..Len(cb) : IsList(cb[c].name) /\ cb[c].index \in Nat

\* Of the names with the same end the first has it written out, if a pointer can reach one of
\* them at all ("the first occurence can't be compressed").
Place(text, cb, c, k, d) ==
  /\ k <= Len(cb[d].name) /\ Upper(cb[d].name, k) = Upper(cb[c].name, k)
  /\ Offset(cb[d], k) <= Offset(cb[c], k) /\ Written(text, cb[d], k)

Covered(text, cb) ==
  \A c \in 1..Len(cb) : \A k \in 1..Len(cb[c].name) :
    Offset(cb[c], k) <= FarthestPointer => \E d \in 1..c : Place(text, cb, c, k, d)

\* What the search has found after the first n.
Candidate(text, cb, name, best, c) ==
  /\ best.k <= Len(name) /\ best.k <= Len(cb[c].name) /\ Upper(cb[c].name, best.k) = Upper(name, best.k)
  /\ best.offs = Offset(cb[c], best.k) /\ best.offs <= FarthestPointer
  /\ Written(text, cb[c], best.k)

Search(text, cb, name, n, best) ==
  /\ best.k \in Nat /\ best.offs \in Nat
  /\ best.k > 0 => \E c \in 1..n : Candidate(text, cb, name, best, c)
  /\ \A c \in 1..n : Offset(cb[c], Match(name, cb[c].name)) <= FarthestPointer => Match(name, cb[c].name) <= best.k

LongerOp(name, text, cb, best, el) == Longer(best, el, name)
LongerGood(name, text, cb, base, n, best) == Search(text, cb, name, n, best)
Looking == INSTANCE FoldFacts WITH Op <- LongerOp, Good <- LongerGood

\* The longest end that two names have in common.
Common(a, b) == {k \in 0..Min({Len(a), Len(b)}) : Upper(a, k) = Upper(b, k)}

LEMMA Greatest ==
  ASSUME NEW S, NEW m \in Nat, S \subseteq 0..m, 0 \in S
  PROVE  Max(S) \in S /\ \A y \in S : y <= Max(S)
<1>1. \E x \in S : \A y \in S : x >= y
  <2>. DEFINE T == S \ {0}
  <2>1. T \subseteq 1..m
    OBVIOUS
  <2>2. CASE T = {}
    BY <2>2
  <2>3. CASE T # {}
    <3>. HIDE DEF T
    <3>1. Max(T) \in T /\ \A y \in T : y <= Max(T)
      BY <2>3, <2>1, Looking!MaxExists DEF Looking!Max, Max
    <3>. DEFINE x == Max(T)
    <3>2. x \in T /\ \A y \in T : y <= x
      BY <3>1
    <3>. HIDE DEF x
    <3>3. x \in 1..m /\ x \in S
      BY <3>2, <2>1 DEF T
    <3>4. ASSUME NEW y \in S PROVE x >= y
      <4>1. CASE y = 0
        BY <4>1, <3>3
      <4>2. CASE y # 0
        <5>1. y \in T
          BY <4>2 DEF T
        <5>2. y \in 1..m
          BY <5>1, <2>1
        <5>. QED BY <5>1, <5>2, <3>2, <3>3
      <4>. QED BY <4>1, <4>2
    <3>. QED BY <3>3, <3>4
  <2>. QED BY <2>2, <2>3
<1>. DEFINE x == CHOOSE x \in S : \A y \in S : x >= y
<1>2. x \in S /\ \A y \in S : x >= y
  BY <1>1
<1>3. Max(S) = x
  BY DEF Max
<1>. HIDE DEF x
<1>4. \A y \in S : y \in Int
  OBVIOUS
<1>. QED BY <1>2, <1>3, <1>4

LEMMA Matches ==
  ASSUME NEW a, NEW b, IsList(a), IsList(b)
  PROVE  /\ Match(a, b) \in Nat /\ Match(a, b) <= Len(a) /\ Match(a, b) <= Len(b)
         /\ Upper(a, Match(a, b)) = Upper(b, Match(a, b))
         /\ \A k \in Nat : k <= Len(a) /\ k <= Len(b) /\ Upper(a, k) = Upper(b, k) => k <= Match(a, b)
<1>. DEFINE m == Min({Len(a), Len(b)})  S == Common(a, b)
<1>1. Len(a) \in Nat /\ Len(b) \in Nat
  BY Lists
<1>2. m = IF Len(a) <= Len(b) THEN Len(a) ELSE Len(b)
  BY <1>1, Minimum
<1>3. S = {k \in 0..m : Upper(a, k) = Upper(b, k)}
  BY DEF Common
<1>4. Match(a, b) = Max(S)
  BY DEF Match, Common
<1>. HIDE DEF m, S
<1>5. m \in Nat /\ m <= Len(a) /\ m <= Len(b) /\ \A k \in Nat : k <= Len(a) /\ k <= Len(b) => k <= m
  BY <1>1, <1>2
<1>6. Upper(a, 0) = Upper(b, 0)
  <2>1. IsList(Upper(a, 0)) /\ Len(Upper(a, 0)) = 0 /\ IsList(Upper(b, 0)) /\ Len(Upper(b, 0)) = 0
    BY <1>1, Uppers
  <2>. QED BY <2>1, SameList
<1>7. 0 \in S /\ S \subseteq 0..m
  BY <1>3, <1>5, <1>6
<1>8. Max(S) \in S /\ \A y \in S : y <= Max(S)
  BY <1>5, <1>7, Greatest
<1>9. Max(S) \in 0..m /\ Upper(a, Max(S)) = Upper(b, Max(S))
  BY <1>8, <1>3
<1>10. \A k \in Nat : k <= Len(a) /\ k <= Len(b) /\ Upper(a, k) = Upper(b, k) => k \in S
  BY <1>3, <1>5
<1>. QED BY <1>1, <1>4, <1>5, <1>8, <1>9, <1>10

LEMMA Offsets ==
  ASSUME NEW el, IsList(el.name), el.index \in Nat, NEW k \in Nat, k <= Len(el.name)
  PROVE  /\ Offset(el, k) \in Nat /\ Offset(el, k) = el.index + 2 * (Len(el.name) - k)
         /\ el.index <= Offset(el, k)
         /\ \A j \in Nat : j <= k => Offset(el, k) <= Offset(el, j)
<1>1. Len(el.name) \in Nat
  BY Lists
<1>. QED BY <1>1 DEF Offset, Labels

LEMMA SearchStep ==
  ASSUME NEW text, NEW cb, Remembered(cb), Covered(text, cb), NEW name, IsList(name),
         NEW n \in 1..Len(cb), NEW best, Search(text, cb, name, n - 1, best)
  PROVE  Search(text, cb, name, n, Longer(best, cb[n], name))
<1>. DEFINE el == cb[n]  m == Match(name, el.name)
<1>1. IsList(el.name) /\ el.index \in Nat /\ Len(cb) \in Nat
  BY Lists DEF Remembered
<1>2. m \in Nat /\ m <= Len(name) /\ m <= Len(el.name) /\ Upper(name, m) = Upper(el.name, m)
  BY <1>1, Matches
<1>3. Offset(el, m) \in Nat
  BY <1>1, <1>2, Offsets
<1>4. best.k \in Nat /\ best.offs \in Nat
  BY DEF Search
<1>5. \A c \in 1..n : c = n \/ c \in 1..n - 1
  BY <1>1
<1>6. n \in 1..n /\ \A c \in 1..n - 1 : c \in 1..n
  BY <1>1
<1>. HIDE DEF m
<1>7. CASE m > best.k /\ Offset(el, m) <= FarthestPointer
  <2>. DEFINE new == [k |-> m, offs |-> Offset(el, m)]
  <2>1. Longer(best, el, name) = new
    BY <1>7 DEF Longer, m
  <2>2. new.k = m /\ new.offs = Offset(el, m)
    OBVIOUS
  <2>. HIDE DEF new
  <2>3. m \in 1..Len(el.name) /\ Len(el.name) \in Nat
    BY <1>2, <1>4, <1>7, <1>1, Lists
  <2>4. PICK d \in 1..n : Place(text, cb, n, m, d)
    BY <2>3, <1>7 DEF Covered
  <2>5. d = n
    <3>1. SUFFICES ASSUME d \in 1..n - 1 PROVE FALSE
      BY <1>5
    <3>2. IsList(cb[d].name) /\ cb[d].index \in Nat /\ d \in 1..Len(cb)
      BY <1>1 DEF Remembered
    <3>3. m <= Len(cb[d].name) /\ Upper(cb[d].name, m) = Upper(name, m) /\ Offset(cb[d], m) <= Offset(el, m)
      BY <2>4, <1>2 DEF Place
    <3>. DEFINE mm == Match(name, cb[d].name)
    <3>4. mm \in Nat /\ mm <= Len(cb[d].name) /\ m <= mm
      BY <3>2, <3>3, <1>2, Matches
    <3>5. Offset(cb[d], mm) <= Offset(cb[d], m) /\ Offset(cb[d], mm) \in Nat /\ Offset(cb[d], m) \in Nat
      <4>. HIDE DEF mm
      <4>. QED BY <3>2, <3>3, <3>4, <1>2, Offsets
    <3>. HIDE DEF mm
    <3>6. Offset(cb[d], mm) <= FarthestPointer
      BY <3>5, <3>3, <1>3, <1>7, SizesAssumption
    <3>7. mm <= best.k
      BY <3>1, <3>6 DEF Search, mm
    <3>. QED BY <3>7, <3>4, <1>7, <1>2, <1>4
  <2>6. Candidate(text, cb, name, new, n)
    BY <2>2, <2>4, <2>5, <1>2, <1>7 DEF Candidate, Place
  <2>7. ASSUME NEW c \in 1..n, Offset(cb[c], Match(name, cb[c].name)) <= FarthestPointer
        PROVE  Match(name, cb[c].name) <= new.k
    <3>1. CASE c = n
      BY <3>1, <2>2, <1>2 DEF m
    <3>2. CASE c \in 1..n - 1
      <4>1. Match(name, cb[c].name) <= best.k
        BY <2>7, <3>2 DEF Search
      <4>2. Match(name, cb[c].name) \in Nat
        <5>1. IsList(cb[c].name)
          BY <3>2, <1>1 DEF Remembered
        <5>. QED BY <5>1, Matches
      <4>. QED BY <4>1, <4>2, <1>7, <1>2, <1>4, <2>2
    <3>. QED BY <3>1, <3>2, <1>5
  <2>. QED BY <2>1, <2>2, <2>6, <2>7, <1>2, <1>3, <1>6 DEF Search
<1>8. CASE ~(m > best.k /\ Offset(el, m) <= FarthestPointer)
  <2>1. Longer(best, el, name) = best
    BY <1>8 DEF Longer, m
  <2>2. best.k > 0 => \E c \in 1..n : Candidate(text, cb, name, best, c)
    BY <1>6 DEF Search
  <2>3. ASSUME NEW c \in 1..n, Offset(cb[c], Match(name, cb[c].name)) <= FarthestPointer
        PROVE  Match(name, cb[c].name) <= best.k
    <3>1. CASE c = n
      BY <3>1, <2>3, <1>8, <1>2, <1>4 DEF m
    <3>2. CASE c \in 1..n - 1
      BY <2>3, <3>2 DEF Search
    <3>. QED BY <3>1, <3>2, <1>5
  <2>. QED BY <2>1, <2>2, <2>3, <1>4 DEF Search
<1>. QED BY <1>7, <1>8

LEMMA Searches ==
  ASSUME NEW text, NEW cb, Remembered(cb), Covered(text, cb), NEW name, IsList(name)
  PROVE  Search(text, cb, name, Len(cb), Longest(cb, name))
<1>. DEFINE base == [k |-> 0, offs |-> 0]
<1>1. Len(cb) \in Nat /\ DOMAIN cb = 1..Len(cb)
  BY Lists DEF Remembered
<1>2. Longest(cb, name) = Looking!Folded(name, text, cb, base, cb)
  BY DEF Longest, Looking!Folded, LongerOp, FoldLeft, MapThenFoldSet,
         Looking!FoldLeft, Looking!MapThenFoldSet, Max, Looking!Max
<1>3. LongerGood(name, text, cb, base, 0, base)
  <2>1. base.k = 0 /\ base.offs = 0
    OBVIOUS
  <2>. HIDE DEF base
  <2>. QED BY <2>1 DEF LongerGood, Search
<1>. HIDE DEF base
<1>4. ASSUME NEW n \in 1..Len(cb), NEW best, LongerGood(name, text, cb, base, n - 1, best)
      PROVE  LongerGood(name, text, cb, base, n, LongerOp(name, text, cb, best, cb[n]))
  <2>1. Search(text, cb, name, n - 1, best)
    BY <1>4 DEF LongerGood
  <2>2. Search(text, cb, name, n, Longer(best, cb[n], name))
    BY <2>1, SearchStep
  <2>. QED BY <2>2 DEF LongerGood, LongerOp
<1>5. LongerGood(name, text, cb, base, Len(cb), Looking!Folded(name, text, cb, base, cb))
  BY <1>1, <1>3, <1>4, Looking!FoldKeeps
<1>. QED BY <1>2, <1>5 DEF LongerGood

-----------------------------------------------------------------------------
(* The message. *)

Texts(text, sz) ==
  \A i \in 1..Len(text) :
    /\ IsList(text[i].name) /\ text[i].index \in Nat /\ text[i].new \in Nat
    /\ text[i].index + 2 * text[i].new < sz
    /\ Readable(text, i)

Shape(m) ==
  /\ DOMAIN m = {"sz", "rrs", "text", "cb", "sva", "ar"}
  /\ m.sz \in Nat /\ IsList(m.rrs) /\ IsList(m.text) /\ IsList(m.sva) /\ IsList(m.ar)

Core(m) == Shape(m) /\ Remembered(m.cb) /\ Covered(m.text, m.cb) /\ Texts(m.text, m.sz)

\* A name that a later one can be compressed with.
InCb(m, name) ==
  /\ IsList(name)
  /\ \E c \in 1..Len(m.cb) :
       /\ Len(name) <= Len(m.cb[c].name) /\ Upper(m.cb[c].name, Len(name)) = name
       /\ Offset(m.cb[c], Len(name)) < m.sz

Prefix(s, t) == Len(s) <= Len(t) /\ \A k \in 1..Len(s) : t[k] = s[k]

\* n is m with more text behind it.
Extends(m, n) == m.sz <= n.sz /\ Prefix(m.cb, n.cb) /\ n.rrs = m.rrs /\ n.sva = m.sva /\ n.ar = m.ar

LEMMA WrittenStays ==
  ASSUME NEW s, NEW t, IsList(s), IsList(t), Prefix(s, t), NEW el, NEW k, Written(s, el, k)
  PROVE  Written(t, el, k)
<1>1. Len(s) \in Nat /\ Len(t) \in Nat
  BY Lists
<1>2. PICK i \in 1..Len(s) :
        s[i].index = el.index /\ s[i].name = el.name /\ Len(el.name) - k <= s[i].new
  BY DEF Written
<1>3. i \in 1..Len(t) /\ t[i] = s[i]
  BY <1>1 DEF Prefix
<1>. QED BY <1>2, <1>3 DEF Written

LEMMA CoverStays ==
  ASSUME NEW s, NEW t, IsList(s), IsList(t), Prefix(s, t), NEW cb, Covered(s, cb)
  PROVE  Covered(t, cb)
<1>1. ASSUME NEW c, NEW k, NEW d, Place(s, cb, c, k, d) PROVE Place(t, cb, c, k, d)
  <2>1. Written(t, cb[d], k)
    BY <1>1, WrittenStays DEF Place
  <2>. QED BY <1>1, <2>1 DEF Place
<1>. QED BY <1>1 DEF Covered

LEMMA ReadableStays ==
  ASSUME NEW s, NEW t, IsList(s), IsList(t), Prefix(s, t), NEW k \in 1..Len(s), Readable(s, k)
  PROVE  Readable(t, k)
<1>1. Len(s) \in Nat /\ Len(t) \in Nat
  BY Lists
<1>2. t[k] = s[k] /\ \A i \in 1..k - 1 : t[i] = s[i]
  BY <1>1 DEF Prefix
<1>. QED BY <1>2 DEF Readable

LEMMA TextsStay ==
  ASSUME NEW s, IsList(s), NEW e, NEW sz \in Nat, NEW more \in Nat, sz <= more, Texts(s, sz),
         IsList(e.name), e.index \in Nat, e.new \in Nat, e.index + 2 * e.new < more,
         Readable(Append(s, e), Len(s) + 1)
  PROVE  Texts(Append(s, e), more)
<1>. DEFINE t == Append(s, e)
<1>1. IsList(t) /\ Len(t) = Len(s) + 1 /\ (\A k \in 1..Len(s) : t[k] = s[k]) /\ t[Len(s) + 1] = e /\ Len(s) \in Nat
  BY Appended, Lists
<1>. HIDE DEF t
<1>2. Prefix(s, t)
  BY <1>1 DEF Prefix
<1>3. ASSUME NEW i \in 1..Len(s)
      PROVE  /\ IsList(t[i].name) /\ t[i].index \in Nat /\ t[i].new \in Nat
             /\ t[i].index + 2 * t[i].new < more
             /\ Readable(t, i)
  <2>1. Readable(t, i)
    BY <1>1, <1>2, ReadableStays DEF Texts
  <2>2. t[i] = s[i]
    BY <1>1
  <2>. QED BY <2>1, <2>2 DEF Texts
<1>4. \A i \in 1..Len(t) : i \in 1..Len(s) \/ i = Len(s) + 1
  BY <1>1
<1>5. Readable(t, Len(s) + 1)
  BY DEF t
<1>6. ASSUME NEW i \in 1..Len(t)
      PROVE  /\ IsList(t[i].name) /\ t[i].index \in Nat /\ t[i].new \in Nat
             /\ t[i].index + 2 * t[i].new < more
             /\ Readable(t, i)
  <2>1. CASE i \in 1..Len(s)
    BY <2>1, <1>3
  <2>2. CASE i = Len(s) + 1
    BY <2>2, <1>1, <1>5
  <2>. QED BY <2>1, <2>2, <1>4
<1>7. Texts(t, more)
  BY <1>6 DEF Texts
<1>. QED BY <1>7 DEF t

\* A pointer leads to where the name it stands for is written.
LEMMA NewReads ==
  ASSUME NEW text, IsList(text), NEW cb, Remembered(cb), NEW name, IsList(name), NEW best,
         Search(text, cb, name, Len(cb), best), NEW e, e.name = name, e.to = best,
         \A i \in 1..Len(text) : text[i].index \in Nat
  PROVE  Readable(Append(text, e), Len(text) + 1)
<1>. DEFINE t == Append(text, e)
<1>1. /\ Len(t) = Len(text) + 1 /\ (\A k \in 1..Len(text) : t[k] = text[k]) /\ t[Len(text) + 1] = e
      /\ Len(text) \in Nat
  BY Appended, Lists
<1>. HIDE DEF t
<1>2. CASE best.k > 0
  <2>1. PICK c \in 1..Len(cb) : Candidate(text, cb, name, best, c)
    BY <1>2 DEF Search
  <2>2. PICK i \in 1..Len(text) :
          text[i].index = cb[c].index /\ text[i].name = cb[c].name /\ Len(cb[c].name) - best.k <= text[i].new
    BY <2>1 DEF Candidate, Written
  <2>. DEFINE s == text[i]  L == Len(s.name)  k == best.k
  <2>3. IsList(s.name) /\ L \in Nat /\ k \in Nat /\ k <= L /\ s.index \in Nat
    BY <2>1, <2>2, Lists DEF Remembered, Candidate, Search
  <2>4. best.offs = s.index + 2 * (L - k) /\ L - k <= s.new /\ Upper(s.name, k) = Upper(name, k)
    BY <2>1, <2>2 DEF Candidate, Offset, Labels
  <2>5. t[i] = s /\ i \in 1..(Len(text) + 1) - 1
    BY <1>1
  <2>. HIDE DEF s, L, k
  <2>6. (best.offs - s.index) \div 2 = L - k
    <3>. DEFINE d == L - k
    <3>1. d \in Nat /\ best.offs - s.index = 2 * d
      BY <2>3, <2>4
    <3>. HIDE DEF d
    <3>2. (2 * d) \div 2 = d
      BY <3>1
    <3>. QED BY <3>1, <3>2 DEF d
  <2>7. SubSeq(s.name, (L - k) + 1, Len(s.name)) = Upper(name, k)
    <3>1. (L - k) + 1 = Len(s.name) - k + 1
      BY DEF L
    <3>. QED BY <3>1, <2>4 DEF Upper
  <2>8. s.index <= best.offs
    BY <2>3, <2>4
  <2>9. /\ s.index <= e.to.offs /\ (e.to.offs - s.index) \div 2 <= s.new
        /\ e.to.offs = s.index + Labels((e.to.offs - s.index) \div 2)
        /\ SubSeq(s.name, ((e.to.offs - s.index) \div 2) + 1, Len(s.name)) = Upper(e.name, e.to.k)
    BY <2>4, <2>6, <2>7, <2>8 DEF Labels, k
  <2>10. Readable(t, Len(text) + 1)
    BY <2>5, <2>9, <1>1 DEF Readable
  <2>. QED BY <2>10 DEF t
<1>3. CASE ~(best.k > 0)
  <2>1. Readable(t, Len(text) + 1)
    BY <1>3, <1>1 DEF Readable
  <2>. QED BY <2>1 DEF t
<1>. QED BY <1>2, <1>3

\* What compress_name() does.
NewText(m, name) ==
  LET best == Longest(m.cb, name)
  IN  [index |-> m.sz, name |-> name, new |-> Len(name) - best.k, to |-> best]
NewEl(m, name) == [index |-> m.sz, name |-> name]

LEMMA Names ==
  ASSUME NEW m, Shape(m), NEW name
  PROVE  LET n == WriteName(m, name)
             best == Longest(m.cb, name)
             new == Len(name) - best.k
         IN  /\ DOMAIN n = DOMAIN m
             /\ n.rrs = m.rrs /\ n.sva = m.sva /\ n.ar = m.ar
             /\ n.text = Append(m.text, NewText(m, name))
             /\ n.sz = m.sz + Labels(new) + (IF best.k > 0 THEN 2 ELSE 1)
             /\ n.cb = IF best.k > 0 /\ new = 0 THEN m.cb ELSE Append(m.cb, NewEl(m, name))
BY DEF WriteName, Shape, NewText, NewEl

LEMMA Ahead ==
  ASSUME NEW i \in Nat, NEW n \in Nat, NEW e \in Nat, NEW d \in Int, i + 2 * n < e, d <= n
  PROVE  i + 2 * d < e
OBVIOUS

LEMMA Behind ==
  ASSUME NEW p \in Nat, NEW l \in Nat, NEW b \in Nat, NEW k \in Nat, NEW e \in Nat, NEW L \in Nat,
         k < b, b <= l, b <= L, p + 2 * (l - b) < e
  PROVE  p + 2 * (l - k) \in Nat /\ p + 2 * (l - k) <= e + 2 * (L - k)
OBVIOUS

LEMMA CoverGrows ==
  ASSUME NEW text, IsList(text), NEW cb, Remembered(cb), Covered(text, cb), NEW el, IsList(el.name), el.index \in Nat,
         NEW best, Search(text, cb, el.name, Len(cb), best),
         \A i \in 1..Len(text) : text[i].index \in Nat /\ text[i].new \in Nat /\ text[i].index + 2 * text[i].new < el.index,
         NEW t, IsList(t), Prefix(text, t),
         \E i \in 1..Len(t) : t[i].index = el.index /\ t[i].name = el.name /\ t[i].new = Len(el.name) - best.k
  PROVE  Covered(t, Append(cb, el))
<1>. DEFINE new == Append(cb, el)  N == Len(cb) + 1  L == Len(el.name)
<1>1. /\ IsList(new) /\ Len(new) = N /\ (\A k \in 1..Len(cb) : new[k] = cb[k]) /\ new[N] = el
      /\ Len(cb) \in Nat /\ L \in Nat
  BY Appended, Lists DEF Remembered
<1>. HIDE DEF new, L
<1>2. Covered(t, cb)
  BY CoverStays
<1>3. best.k \in Nat /\ best.offs \in Nat
  BY DEF Search
<1>4. ASSUME NEW c \in 1..Len(cb), NEW k \in 1..Len(new[c].name), Offset(new[c], k) <= FarthestPointer
      PROVE  \E d \in 1..c : Place(t, new, c, k, d)
  <2>1. PICK d \in 1..c : Place(t, cb, c, k, d)
    BY <1>4, <1>2, <1>1 DEF Covered
  <2>2. new[c] = cb[c] /\ new[d] = cb[d]
    BY <1>1
  <2>3. Place(t, new, c, k, d)
    BY <2>1, <2>2 DEF Place
  <2>. QED BY <2>3
<1>5. ASSUME NEW k \in 1..L, Offset(el, k) <= FarthestPointer
      PROVE  \E d \in 1..N : Place(t, new, N, k, d)
  <2>1. N \in 1..N /\ \A d \in 1..Len(cb) : d \in 1..N
    BY <1>1
  <2>2. Offset(el, k) = el.index + 2 * (L - k) /\ Offset(el, k) \in Nat
    BY <1>1, Offsets DEF L
  <2>3. CASE k >= best.k
    <3>1. Written(t, el, k)
      <4>1. PICK i \in 1..Len(t) : t[i].index = el.index /\ t[i].name = el.name /\ t[i].new = L - best.k
        BY DEF L
      <4>2. L - k <= t[i].new
        BY <4>1, <2>3, <1>1, <1>3
      <4>. QED BY <4>1, <4>2 DEF Written, L
    <3>2. Place(t, new, N, k, N)
      BY <3>1, <2>2, <1>1 DEF Place, L
    <3>. QED BY <3>2, <2>1
  <2>4. CASE k < best.k
    <3>1. PICK c \in 1..Len(cb) : Candidate(text, cb, el.name, best, c)
      BY <2>4, <1>3 DEF Search
    <3>2. IsList(cb[c].name) /\ cb[c].index \in Nat /\ Len(cb[c].name) \in Nat
      BY Lists DEF Remembered
    <3>3. /\ best.k <= L /\ best.k <= Len(cb[c].name) /\ Upper(cb[c].name, best.k) = Upper(el.name, best.k)
          /\ best.offs = Offset(cb[c], best.k)
      BY <3>1 DEF Candidate, L
    <3>4. Upper(cb[c].name, k) = Upper(el.name, k)
      BY <3>2, <3>3, <2>4, <1>3, <1>1, UpperLess DEF L
    <3>5. Offset(cb[c], best.k) < el.index
      <4>1. PICK i \in 1..Len(text) :
              text[i].index = cb[c].index /\ text[i].name = cb[c].name /\ Len(cb[c].name) - best.k <= text[i].new
        BY <3>1 DEF Candidate, Written
      <4>2. text[i].new \in Nat /\ text[i].index + 2 * text[i].new < el.index
        OBVIOUS
      <4>. DEFINE d == Len(cb[c].name) - best.k
      <4>3. Offset(cb[c], best.k) = cb[c].index + 2 * d /\ d \in Int
        BY <3>2, <1>3 DEF Offset, Labels
      <4>4. d <= text[i].new /\ text[i].index = cb[c].index
        BY <4>1
      <4>. HIDE DEF d
      <4>. DEFINE p == cb[c].index  w == text[i].new  e == el.index
      <4>5. p \in Nat /\ w \in Nat /\ e \in Nat /\ d \in Int /\ p + 2 * w < e /\ d <= w
        BY <4>2, <4>3, <4>4, <3>2
      <4>. HIDE DEF p, w, e
      <4>6. p + 2 * d < e
        BY <4>5, Ahead
      <4>. QED BY <4>3, <4>6 DEF p, e
    <3>6. Offset(cb[c], k) \in Nat /\ Offset(cb[c], k) <= Offset(el, k)
      <4>. DEFINE l == Len(cb[c].name)  b == best.k  p == cb[c].index
      <4>1. Offset(cb[c], k) = p + 2 * (l - k) /\ Offset(cb[c], b) = p + 2 * (l - b)
        BY DEF Offset, Labels
      <4>2. l \in Nat /\ b \in Nat /\ p \in Nat /\ k \in Nat /\ k < b /\ b <= l /\ b <= L
        BY <3>2, <3>3, <2>4, <1>3, <1>1
      <4>3. Offset(cb[c], b) < el.index
        BY <3>5
      <4>. HIDE DEF l, b, p
      <4>4. p + 2 * (l - b) < el.index
        BY <4>1, <4>3
      <4>5. p + 2 * (l - k) \in Nat /\ p + 2 * (l - k) <= el.index + 2 * (L - k)
        BY <4>2, <4>4, <1>1, Behind
      <4>. QED BY <4>1, <4>5, <2>2
    <3>7. Offset(cb[c], k) <= FarthestPointer
      BY <3>6, <2>2, <1>5, SizesAssumption
    <3>8. k \in 1..Len(cb[c].name)
      BY <3>3, <3>2, <2>4, <1>3
    <3>9. PICK d \in 1..c : Place(t, cb, c, k, d)
      BY <3>7, <3>8, <1>2 DEF Covered
    <3>10. d \in 1..Len(cb) /\ IsList(cb[d].name) /\ cb[d].index \in Nat /\ new[d] = cb[d]
      BY <1>1 DEF Remembered
    <3>11. Offset(cb[d], k) \in Nat /\ Offset(cb[d], k) <= Offset(cb[c], k)
      <4>1. k \in Nat /\ k <= Len(cb[d].name) /\ Offset(cb[d], k) <= Offset(cb[c], k)
        BY <3>9, <1>1 DEF Place
      <4>. QED BY <4>1, <3>10, Offsets
    <3>12. Place(t, new, N, k, d)
      BY <3>9, <3>10, <3>11, <3>6, <3>4, <2>2, <1>1 DEF Place
    <3>. QED BY <3>12, <3>10, <2>1
  <2>. QED BY <2>3, <2>4, <1>3
<1>6. \A c \in 1..Len(new) : c \in 1..Len(cb) \/ c = N
  BY <1>1
<1>7. Covered(t, new)
  <2>1. ASSUME NEW c \in 1..Len(new), NEW k \in 1..Len(new[c].name), Offset(new[c], k) <= FarthestPointer
        PROVE  \E d \in 1..c : Place(t, new, c, k, d)
    <3>1. CASE c \in 1..Len(cb)
      BY <3>1, <2>1, <1>4
    <3>2. CASE c = N
      BY <3>2, <2>1, <1>5, <1>1 DEF L
    <3>. QED BY <3>1, <3>2, <1>6
  <2>. QED BY <2>1 DEF Covered
<1>. QED BY <1>7 DEF new

\* A name that is written reads right, is remembered, and disturbs nothing.
LEMMA NameWritten ==
  ASSUME NEW m, Core(m), NEW name, IsList(name)
  PROVE  Core(WriteName(m, name)) /\ Extends(m, WriteName(m, name)) /\ InCb(WriteName(m, name), name)
<1>. DEFINE n == WriteName(m, name)  best == Longest(m.cb, name)  new == Len(name) - best.k  e == NewText(m, name)
            el == NewEl(m, name)
<1>1. /\ Shape(m) /\ Remembered(m.cb) /\ Covered(m.text, m.cb) /\ Texts(m.text, m.sz)
      /\ IsList(m.text) /\ IsList(m.cb) /\ m.sz \in Nat
  BY DEF Core, Shape, Remembered
<1>2. /\ DOMAIN n = DOMAIN m
      /\ n.rrs = m.rrs /\ n.sva = m.sva /\ n.ar = m.ar
      /\ n.text = Append(m.text, e)
      /\ n.sz = m.sz + Labels(new) + (IF best.k > 0 THEN 2 ELSE 1)
      /\ n.cb = IF best.k > 0 /\ new = 0 THEN m.cb ELSE Append(m.cb, el)
  BY <1>1, Names
<1>3. e.index = m.sz /\ e.name = name /\ e.new = new /\ e.to = best /\ el.index = m.sz /\ el.name = name
  BY DEF NewText, NewEl
<1>4. Search(m.text, m.cb, name, Len(m.cb), best)
  BY <1>1, Searches
<1>5. Len(name) \in Nat /\ Len(m.cb) \in Nat /\ Len(m.text) \in Nat
  BY <1>1, Lists
<1>6. best.k \in Nat /\ best.k <= Len(name)
  <2>1. CASE best.k > 0
    BY <2>1, <1>4 DEF Search, Candidate
  <2>2. CASE ~(best.k > 0)
    BY <2>2, <1>4, <1>5 DEF Search
  <2>. QED BY <2>1, <2>2
<1>7. new \in Nat /\ new <= Len(name)
  BY <1>5, <1>6
<1>. HIDE DEF n, best, e, el
<1>8. n.sz \in Nat /\ m.sz < n.sz /\ m.sz + 2 * new < n.sz
  BY <1>1, <1>2, <1>7 DEF Labels
<1>9. \A i \in 1..Len(m.text) : m.text[i].index \in Nat /\ m.text[i].new \in Nat /\ m.text[i].index + 2 * m.text[i].new < m.sz
  BY <1>1 DEF Texts
<1>10. Readable(Append(m.text, e), Len(m.text) + 1)
  BY <1>1, <1>3, <1>4, <1>9, NewReads
<1>11. Texts(n.text, n.sz)
  <2>1. /\ IsList(m.text) /\ m.sz \in Nat /\ n.sz \in Nat /\ m.sz <= n.sz /\ Texts(m.text, m.sz)
        /\ IsList(e.name) /\ e.index \in Nat /\ e.new \in Nat
    BY <1>1, <1>3, <1>7, <1>8
  <2>2. e.index + 2 * e.new < n.sz
    BY <1>3, <1>8
  <2>3. Texts(Append(m.text, e), n.sz)
    BY <2>1, <2>2, <1>10, TextsStay
  <2>. QED BY <2>3, <1>2
<1>12. IsList(n.text) /\ Len(n.text) = Len(m.text) + 1 /\ n.text[Len(m.text) + 1] = e /\ Prefix(m.text, n.text)
  BY <1>1, <1>2, <1>5, Appended DEF Prefix
<1>13. CASE best.k > 0 /\ new = 0
  <2>1. n.cb = m.cb /\ best.k = Len(name)
    BY <1>13, <1>2, <1>5, <1>6
  <2>2. Covered(n.text, n.cb)
    BY <2>1, <1>1, <1>12, CoverStays
  <2>3. PICK c \in 1..Len(m.cb) : Candidate(m.text, m.cb, name, best, c)
    BY <1>13, <1>4 DEF Search
  <2>4. Offset(m.cb[c], Len(name)) < n.sz
    <3>1. PICK i \in 1..Len(m.text) :
            /\ m.text[i].index = m.cb[c].index /\ m.text[i].name = m.cb[c].name
            /\ Len(m.cb[c].name) - best.k <= m.text[i].new
      BY <2>3 DEF Candidate, Written
    <3>2. IsList(m.cb[c].name) /\ m.cb[c].index \in Nat /\ Len(m.cb[c].name) \in Nat
      BY <1>1, Lists DEF Remembered
    <3>. DEFINE d == Len(m.cb[c].name) - best.k  p == m.cb[c].index  w == m.text[i].new  s == m.sz
    <3>3. p \in Nat /\ w \in Nat /\ s \in Nat /\ d \in Int /\ p + 2 * w < s /\ d <= w
      BY <3>1, <3>2, <1>9, <1>6, <1>1
    <3>4. Offset(m.cb[c], Len(name)) = p + 2 * d
      BY <2>1 DEF Offset, Labels
    <3>. HIDE DEF p, w, d, s
    <3>5. p + 2 * d < s
      BY <3>3, Ahead
    <3>. QED BY <3>3, <3>4, <3>5, <1>8 DEF s
  <2>5. InCb(n, name)
    <3>1. Len(name) <= Len(m.cb[c].name) /\ Upper(m.cb[c].name, Len(name)) = name
      BY <2>1, <2>3, UpperAll DEF Candidate
    <3>. QED BY <3>1, <2>1, <2>4 DEF InCb
  <2>6. Extends(m, n)
    BY <2>1, <1>1, <1>2, <1>5, <1>8 DEF Extends, Prefix
  <2>7. Core(n)
    BY <2>1, <2>2, <1>1, <1>2, <1>8, <1>11, <1>12 DEF Core, Shape
  <2>. QED BY <2>5, <2>6, <2>7 DEF n
<1>14. CASE ~(best.k > 0 /\ new = 0)
  <2>1. n.cb = Append(m.cb, el)
    BY <1>14, <1>2
  <2>2. /\ IsList(n.cb) /\ Len(n.cb) = Len(m.cb) + 1 /\ (\A k \in 1..Len(m.cb) : n.cb[k] = m.cb[k])
        /\ n.cb[Len(m.cb) + 1] = el
    BY <2>1, <1>1, Appended
  <2>3. Remembered(n.cb)
    <3>1. ASSUME NEW c \in 1..Len(n.cb) PROVE IsList(n.cb[c].name) /\ n.cb[c].index \in Nat
      <4>1. c \in 1..Len(m.cb) \/ c = Len(m.cb) + 1
        BY <2>2, <1>5
      <4>2. CASE c \in 1..Len(m.cb)
        BY <4>2, <2>2, <1>1 DEF Remembered
      <4>3. CASE c = Len(m.cb) + 1
        BY <4>3, <2>2, <1>3, <1>1
      <4>. QED BY <4>1, <4>2, <4>3
    <3>. QED BY <3>1, <2>2 DEF Remembered
  <2>4. Covered(n.text, n.cb)
    <3>1. \E i \in 1..Len(n.text) :
            n.text[i].index = el.index /\ n.text[i].name = el.name /\ n.text[i].new = Len(el.name) - best.k
      <4>1. Len(m.text) + 1 \in 1..Len(n.text)
        BY <1>5, <1>12
      <4>. QED BY <4>1, <1>12, <1>3
    <3>2. Search(m.text, m.cb, el.name, Len(m.cb), best) /\ IsList(el.name) /\ el.index \in Nat
      BY <1>3, <1>4, <1>1
    <3>3. \A i \in 1..Len(m.text) :
            /\ m.text[i].index \in Nat /\ m.text[i].new \in Nat
            /\ m.text[i].index + 2 * m.text[i].new < el.index
      BY <1>3, <1>9
    <3>4. Covered(n.text, Append(m.cb, el))
      BY <1>1, <1>12, <3>1, <3>2, <3>3, CoverGrows
    <3>. QED BY <3>4, <2>1
  <2>5. InCb(n, name)
    <3>1. Len(m.cb) + 1 \in 1..Len(n.cb)
      BY <1>5, <2>2
    <3>2. Len(name) <= Len(el.name) /\ Upper(el.name, Len(name)) = name
      BY <1>3, <1>5, UpperAll
    <3>3. Offset(el, Len(name)) = m.sz
      <4>1. Len(name) - Len(name) = 0
        BY <1>5
      <4>. QED BY <4>1, <1>3, <1>1 DEF Offset, Labels
    <3>. QED BY <3>1, <3>2, <3>3, <2>2, <1>8 DEF InCb
  <2>6. Extends(m, n)
    BY <2>2, <1>1, <1>2, <1>5, <1>8 DEF Extends, Prefix
  <2>7. Core(n)
    BY <2>3, <2>4, <1>1, <1>2, <1>8, <1>11, <1>12 DEF Core, Shape
  <2>. QED BY <2>5, <2>6, <2>7 DEF n
<1>. QED BY <1>13, <1>14

\* A name that is remembered leaves nothing new to remember but what no pointer can reach: so
\* it may be taken back.
LEMMA NameTakenBack ==
  ASSUME NEW m, Core(m), NEW name, IsList(name), InCb(m, name)
  PROVE  LET cb == WriteName(m, name).cb
         IN  Remembered(cb) /\ Covered(m.text, cb) /\ Prefix(m.cb, cb)
<1>. DEFINE n == WriteName(m, name)  best == Longest(m.cb, name)  new == Len(name) - best.k  el == NewEl(m, name)
<1>1. /\ Shape(m) /\ Remembered(m.cb) /\ Covered(m.text, m.cb)
      /\ IsList(m.text) /\ IsList(m.cb) /\ m.sz \in Nat
  BY DEF Core, Shape, Remembered
<1>2. n.cb = IF best.k > 0 /\ new = 0 THEN m.cb ELSE Append(m.cb, el)
  BY <1>1, Names
<1>3. el.index = m.sz /\ el.name = name
  BY DEF NewEl
<1>4. Search(m.text, m.cb, name, Len(m.cb), best)
  BY <1>1, Searches
<1>5. Len(name) \in Nat /\ Len(m.cb) \in Nat
  BY <1>1, Lists
<1>6. PICK c \in 1..Len(m.cb) :
        /\ Len(name) <= Len(m.cb[c].name) /\ Upper(m.cb[c].name, Len(name)) = name
        /\ Offset(m.cb[c], Len(name)) < m.sz
  BY DEF InCb
<1>7. CASE n.cb = m.cb
  <2>1. Prefix(m.cb, n.cb)
    BY <1>7, <1>5 DEF Prefix
  <2>. QED BY <2>1, <1>7, <1>1
<1>8. CASE n.cb # m.cb
  <2>. HIDE DEF n, el, best
  <2>1. n.cb = Append(m.cb, el)
    BY <1>8, <1>2
  <2>2. /\ IsList(n.cb) /\ Len(n.cb) = Len(m.cb) + 1 /\ (\A k \in 1..Len(m.cb) : n.cb[k] = m.cb[k])
        /\ n.cb[Len(m.cb) + 1] = el
    BY <2>1, <1>1, Appended
  <2>3. Prefix(m.cb, n.cb)
    BY <2>2, <1>5 DEF Prefix
  <2>4. ASSUME NEW k \in 1..Len(name) PROVE ~(Offset(el, k) <= FarthestPointer)
    <3>1. Len(name) \in 1..Len(name) /\ Len(name) > 0
      BY <1>5
    <3>. DEFINE mm == Match(name, m.cb[c].name)
    <3>2. IsList(m.cb[c].name) /\ m.cb[c].index \in Nat
      BY <1>1 DEF Remembered
    <3>3. mm = Len(name)
      <4>1. /\ mm \in Nat /\ mm <= Len(name)
            /\ \A j \in Nat : j <= Len(name) /\ j <= Len(m.cb[c].name) /\ Upper(name, j) = Upper(m.cb[c].name, j) => j <= mm
        BY <3>2, Matches
      <4>2. Upper(name, Len(name)) = name
        BY UpperAll
      <4>. HIDE DEF mm
      <4>3. Len(name) <= mm
        BY <4>1, <4>2, <1>5, <1>6
      <4>. QED BY <4>1, <4>3, <1>5
    <3>4. ~(best.k >= Len(name))
      <4>1. SUFFICES ASSUME best.k >= Len(name) PROVE FALSE
        OBVIOUS
      <4>2. best.k \in Nat /\ best.k > 0
        BY <4>1, <1>4, <3>1, <1>5 DEF Search
      <4>3. best.k <= Len(name)
        BY <4>2, <1>4 DEF Search, Candidate
      <4>4. new = 0
        BY <4>1, <4>2, <4>3, <1>5
      <4>. QED BY <4>2, <4>4, <1>2, <1>8
    <3>5. ~(Offset(m.cb[c], Len(name)) <= FarthestPointer)
      <4>1. SUFFICES ASSUME Offset(m.cb[c], mm) <= FarthestPointer PROVE FALSE
        BY <3>3
      <4>2. mm <= best.k
        BY <4>1, <1>4 DEF Search
      <4>. QED BY <4>2, <3>3, <3>4, <1>4, <1>5 DEF Search
    <3>6. Offset(m.cb[c], Len(name)) \in Nat
      BY <3>2, <1>5, <1>6, Offsets
    <3>7. Offset(el, k) \in Nat /\ m.sz <= Offset(el, k)
      <4>1. k \in Nat /\ k <= Len(el.name) /\ IsList(el.name) /\ el.index \in Nat /\ el.index = m.sz
        BY <1>3, <1>5, <1>1
      <4>. QED BY <4>1, Offsets
    <3>. QED BY <3>5, <3>6, <3>7, <1>6, <1>1, SizesAssumption
  <2>5. \A d \in 1..Len(n.cb) : d \in 1..Len(m.cb) \/ d = Len(m.cb) + 1
    BY <2>2, <1>5
  <2>6. Remembered(n.cb)
    <3>1. ASSUME NEW d \in 1..Len(n.cb) PROVE IsList(n.cb[d].name) /\ n.cb[d].index \in Nat
      <4>1. CASE d \in 1..Len(m.cb)
        BY <4>1, <2>2, <1>1 DEF Remembered
      <4>2. CASE d = Len(m.cb) + 1
        BY <4>2, <2>2, <1>3, <1>1
      <4>. QED BY <4>1, <4>2, <2>5
    <3>. QED BY <3>1, <2>2 DEF Remembered
  <2>7. Covered(m.text, n.cb)
    <3>1. ASSUME NEW a \in 1..Len(n.cb), NEW k \in 1..Len(n.cb[a].name), Offset(n.cb[a], k) <= FarthestPointer
          PROVE  \E d \in 1..a : Place(m.text, n.cb, a, k, d)
      <4>1. CASE a = Len(m.cb) + 1
        BY <4>1, <3>1, <2>2, <2>4, <1>3
      <4>2. CASE a \in 1..Len(m.cb)
        <5>1. PICK d \in 1..a : Place(m.text, m.cb, a, k, d)
          BY <4>2, <3>1, <2>2, <1>1 DEF Covered
        <5>2. n.cb[a] = m.cb[a] /\ n.cb[d] = m.cb[d]
          BY <4>2, <2>2, <1>5
        <5>3. Place(m.text, n.cb, a, k, d)
          BY <5>1, <5>2 DEF Place
        <5>. QED BY <5>3
      <4>. QED BY <4>1, <4>2, <2>5
    <3>. QED BY <3>1 DEF Covered
  <2>8. Remembered(n.cb) /\ Covered(m.text, n.cb) /\ Prefix(m.cb, n.cb)
    BY <2>3, <2>6, <2>7
  <2>. QED BY <2>8 DEF n
<1>. QED BY <1>7, <1>8

-----------------------------------------------------------------------------
(* Records. *)

Grows(m, n) == m.sz <= n.sz /\ Prefix(m.cb, n.cb)

LEMMA PrefixTwice ==
  ASSUME NEW r, NEW s, NEW t, IsList(r), IsList(s), IsList(t), Prefix(r, s), Prefix(s, t)
  PROVE  Prefix(r, t)
<1>1. Len(r) \in Nat /\ Len(s) \in Nat /\ Len(t) \in Nat
  BY Lists
<1>. QED BY <1>1 DEF Prefix

LEMMA PrefixSame == ASSUME NEW s, IsList(s) PROVE Prefix(s, s)
BY Lists DEF Prefix

LEMMA GrowsTwice ==
  ASSUME NEW m, NEW n, NEW o, Core(m), Core(n), Core(o), Grows(m, n), Grows(n, o)
  PROVE  Grows(m, o)
<1>1. /\ IsList(m.cb) /\ IsList(n.cb) /\ IsList(o.cb) /\ m.sz \in Nat /\ n.sz \in Nat /\ o.sz \in Nat
  BY DEF Core, Shape, Remembered
<1>2. Prefix(m.cb, o.cb)
  BY <1>1, PrefixTwice DEF Grows
<1>. QED BY <1>1, <1>2 DEF Grows

LEMMA GrowsNot == ASSUME NEW m, Core(m) PROVE Grows(m, m) /\ Extends(m, m)
BY PrefixSame DEF Grows, Extends, Core, Shape, Remembered

LEMMA ExtendsTwice ==
  ASSUME NEW m, NEW n, NEW o, Core(m), Core(n), Core(o), Extends(m, n), Extends(n, o)
  PROVE  Extends(m, o)
<1>1. Grows(m, o)
  BY GrowsTwice DEF Extends, Grows
<1>. QED BY <1>1 DEF Extends, Grows

LEMMA RememberedStays ==
  ASSUME NEW m, NEW n, Core(m), Core(n), Grows(m, n), NEW name, InCb(m, name)
  PROVE  InCb(n, name)
<1>1. PICK c \in 1..Len(m.cb) :
        /\ Len(name) <= Len(m.cb[c].name) /\ Upper(m.cb[c].name, Len(name)) = name
        /\ Offset(m.cb[c], Len(name)) < m.sz
  BY DEF InCb
<1>2. IsList(m.cb) /\ IsList(n.cb) /\ m.sz \in Nat /\ n.sz \in Nat /\ m.cb[c].index \in Nat /\ IsList(m.cb[c].name)
  BY DEF Core, Shape, Remembered
<1>3. Len(m.cb) \in Nat /\ Len(n.cb) \in Nat
  BY <1>2, Lists
<1>4. c \in 1..Len(n.cb) /\ n.cb[c] = m.cb[c]
  BY <1>3 DEF Grows, Prefix
<1>5. Offset(m.cb[c], Len(name)) \in Nat
  <2>1. Len(name) \in Nat
    BY Lists DEF InCb
  <2>. QED BY <2>1, <1>1, <1>2, Offsets
<1>6. Offset(m.cb[c], Len(name)) < n.sz
  BY <1>1, <1>2, <1>5 DEF Grows
<1>7. IsList(name)
  BY DEF InCb
<1>. QED BY <1>1, <1>4, <1>6, <1>7 DEF InCb

LEMMA Wider ==
  ASSUME NEW m, Core(m), NEW d \in Nat
  PROVE  Core([m EXCEPT !.sz = @ + d]) /\ Extends(m, [m EXCEPT !.sz = @ + d])
<1>. DEFINE n == [m EXCEPT !.sz = @ + d]
<1>1. /\ DOMAIN n = DOMAIN m /\ n.sz = m.sz + d
      /\ n.rrs = m.rrs /\ n.text = m.text /\ n.cb = m.cb /\ n.sva = m.sva /\ n.ar = m.ar
  BY DEF Core, Shape
<1>2. m.sz \in Nat /\ Shape(m) /\ Texts(m.text, m.sz) /\ IsList(m.cb)
  BY DEF Core, Shape, Remembered
<1>. HIDE DEF n
<1>3. n.sz \in Nat /\ m.sz <= n.sz
  BY <1>1, <1>2
<1>4. Texts(n.text, n.sz)
  BY <1>1, <1>2, <1>3 DEF Texts
<1>5. Core(n)
  BY <1>1, <1>3, <1>4 DEF Core, Shape
<1>6. Extends(m, n)
  BY <1>1, <1>2, <1>3, PrefixSame DEF Extends
<1>. QED BY <1>5, <1>6 DEF n

LEMMA PartWritten ==
  ASSUME NEW m, Core(m), NEW part, IsPart(part), NEW type
  PROVE  LET n == WritePart(m, part, type)
         IN  /\ Core(n) /\ Extends(m, n)
             /\ type \in COMPRESSED /\ part.kind = "n" => InCb(n, part.v)
             /\ type \notin COMPRESSED => n.cb = m.cb
<1>1. CASE part.kind = "b" /\ part.len \in Nat
  <2>1. WritePart(m, part, type) = [m EXCEPT !.sz = @ + part.len]
    BY <1>1 DEF WritePart
  <2>2. [m EXCEPT !.sz = @ + part.len].cb = m.cb
    BY DEF Core, Shape
  <2>. QED BY <1>1, <2>1, <2>2, Wider
<1>2. CASE part.kind = "n" /\ IsList(part.v) /\ type \in COMPRESSED
  <2>1. WritePart(m, part, type) = WriteName(m, part.v)
    BY <1>2 DEF WritePart
  <2>. QED BY <1>2, <2>1, NameWritten
<1>3. CASE part.kind = "n" /\ IsList(part.v) /\ type \notin COMPRESSED
  <2>. DEFINE d == Labels(Len(part.v)) + 1
  <2>1. d \in Nat
    BY <1>3, Lists DEF Labels
  <2>2. WritePart(m, part, type) = [m EXCEPT !.sz = @ + Labels(Len(part.v)) + 1]
    BY <1>3 DEF WritePart
  <2>3. m.sz + Labels(Len(part.v)) + 1 = m.sz + d
    BY <1>3, Lists DEF Labels, Core, Shape
  <2>4. WritePart(m, part, type) = [m EXCEPT !.sz = @ + d]
    BY <2>2, <2>3
  <2>. HIDE DEF d
  <2>5. [m EXCEPT !.sz = @ + d].cb = m.cb
    BY DEF Core, Shape
  <2>. QED BY <1>3, <2>1, <2>4, <2>5, Wider
<1>. QED BY <1>1, <1>2, <1>3 DEF IsPart

NamesKnown(m, type, data, k) ==
  type \in COMPRESSED => \A i \in 1..k : data[i].kind = "n" => InCb(m, data[i].v)

PartOp(type, data, first, a, part) == WritePart(a, part, type)
PartGood(type, data, first, base, k, a) ==
  /\ Core(a) /\ Extends(first, a) /\ NamesKnown(a, type, data, k)
  /\ type \notin COMPRESSED => a.cb = first.cb
Parts == INSTANCE FoldFacts WITH Op <- PartOp, Good <- PartGood

LEMMA PartStep ==
  ASSUME NEW type, NEW data, IsList(data), NEW first, Core(first), NEW k \in 1..Len(data), IsPart(data[k]), NEW a,
         PartGood(type, data, first, first, k - 1, a)
  PROVE  PartGood(type, data, first, first, k, WritePart(a, data[k], type))
<1>. DEFINE n == WritePart(a, data[k], type)
<1>1. Core(a) /\ Extends(first, a) /\ NamesKnown(a, type, data, k - 1) /\ (type \notin COMPRESSED => a.cb = first.cb)
  BY DEF PartGood
<1>2. /\ Core(n) /\ Extends(a, n)
      /\ type \in COMPRESSED /\ data[k].kind = "n" => InCb(n, data[k].v)
      /\ type \notin COMPRESSED => n.cb = a.cb
  BY <1>1, PartWritten
<1>. HIDE DEF n
<1>3. Extends(first, n)
  BY <1>1, <1>2, ExtendsTwice
<1>4. NamesKnown(n, type, data, k)
  <2>1. SUFFICES ASSUME type \in COMPRESSED, NEW i \in 1..k, data[i].kind = "n" PROVE InCb(n, data[i].v)
    BY DEF NamesKnown
  <2>2. CASE i = k
    BY <2>1, <2>2, <1>2
  <2>3. CASE i # k
    <3>1. i \in 1..k - 1
      BY <2>3, Lists
    <3>2. InCb(a, data[i].v)
      BY <2>1, <3>1, <1>1 DEF NamesKnown
    <3>3. Grows(a, n)
      BY <1>2 DEF Extends, Grows
    <3>. QED BY <3>2, <3>3, <1>1, <1>2, RememberedStays
  <2>. QED BY <2>2, <2>3
<1>5. type \notin COMPRESSED => n.cb = first.cb
  BY <1>1, <1>2
<1>6. PartGood(type, data, first, first, k, n)
  BY <1>2, <1>3, <1>4, <1>5 DEF PartGood
<1>. QED BY <1>6 DEF n

\* What add_rr() writes, and what it leaves to remember if it takes the record back.
LEMMA RrWritten ==
  ASSUME NEW m, Core(m), NEW rr, IsList(rr.name), IsData(rr.type, rr.data)
  PROVE  LET n == WriteRr(m, rr)
         IN  /\ Core(n) /\ Extends(m, n) /\ NamesKnown(n, rr.type, rr.data, Len(rr.data))
             /\ rr.type \notin COMPRESSED => n.cb = WriteName(m, rr.name).cb
<1>. DEFINE named == WriteName(m, rr.name)  first == [named EXCEPT !.sz = @ + 10]  n == WriteRr(m, rr)
            type == rr.type  data == rr.data
<1>1. Core(named) /\ Extends(m, named)
  BY NameWritten
<1>. HIDE DEF named
<1>2. Core(first) /\ Extends(named, first) /\ first.cb = named.cb
  <2>1. first.cb = named.cb
    BY <1>1 DEF Core, Shape
  <2>. QED BY <1>1, <2>1, Wider
<1>3. Extends(m, first)
  BY <1>1, <1>2, ExtendsTwice
<1>4. n = Parts!Folded(type, data, first, first, data)
  BY DEF WriteRr, named, Parts!Folded, PartOp, FoldLeft, MapThenFoldSet,
         Parts!FoldLeft, Parts!MapThenFoldSet, Max, Parts!Max
<1>5. Len(data) \in Nat /\ DOMAIN data = 1..Len(data) /\ IsList(data) /\ \A k \in 1..Len(data) : IsPart(data[k])
  BY Lists DEF IsData
<1>. HIDE DEF first, n, type, data
<1>6. PartGood(type, data, first, first, 0, first)
  BY <1>2, GrowsNot DEF PartGood, NamesKnown
<1>7. ASSUME NEW k \in 1..Len(data), NEW a, PartGood(type, data, first, first, k - 1, a)
      PROVE  PartGood(type, data, first, first, k, PartOp(type, data, first, a, data[k]))
  <2>1. PartGood(type, data, first, first, k, WritePart(a, data[k], type))
    BY <1>7, <1>2, <1>5, PartStep
  <2>. QED BY <2>1 DEF PartOp
<1>8. PartGood(type, data, first, first, Len(data), n)
  BY <1>4, <1>5, <1>6, <1>7, Parts!FoldKeeps
<1>9. Core(n) /\ Extends(first, n) /\ NamesKnown(n, type, data, Len(data)) /\ (type \notin COMPRESSED => n.cb = first.cb)
  BY <1>8 DEF PartGood
<1>10. Extends(m, n)
  BY <1>2, <1>3, <1>9, ExtendsTwice
<1>. QED BY <1>2, <1>9, <1>10 DEF n, type, data, named

\* What add_rr() leaves: the record is there, or it is taken back.
LEMMA TakenBack ==
  ASSUME NEW m, Core(m), NEW cb, Remembered(cb), Covered(m.text, cb), Prefix(m.cb, cb)
  PROVE  LET n == [m EXCEPT !.cb = cb]
         IN  Core(n) /\ Grows(m, n) /\ n.sva = m.sva /\ n.ar = m.ar /\ n.rrs = m.rrs
<1>. DEFINE n == [m EXCEPT !.cb = cb]
<1>1. /\ DOMAIN n = DOMAIN m /\ n.sz = m.sz /\ n.rrs = m.rrs /\ n.text = m.text /\ n.cb = cb
      /\ n.sva = m.sva /\ n.ar = m.ar
  BY DEF Core, Shape
<1>. HIDE DEF n
<1>2. Core(n) /\ Grows(m, n)
  BY <1>1 DEF Core, Shape, Grows
<1>. QED BY <1>1, <1>2 DEF n

LEMMA PutIn ==
  ASSUME NEW m, Core(m), NEW rr
  PROVE  LET n == [m EXCEPT !.rrs = Append(@, rr)]
         IN  Core(n) /\ Grows(m, n) /\ n.sva = m.sva /\ n.ar = m.ar /\ n.rrs = Append(m.rrs, rr) /\ n.cb = m.cb /\ n.sz = m.sz
<1>. DEFINE n == [m EXCEPT !.rrs = Append(@, rr)]
<1>1. /\ DOMAIN n = DOMAIN m /\ n.sz = m.sz /\ n.rrs = Append(m.rrs, rr) /\ n.text = m.text /\ n.cb = m.cb
      /\ n.sva = m.sva /\ n.ar = m.ar
  BY DEF Core, Shape
<1>. HIDE DEF n
<1>2. IsList(n.rrs)
  BY <1>1, Appended DEF Core, Shape
<1>3. Prefix(m.cb, n.cb)
  BY <1>1, PrefixSame DEF Core, Remembered
<1>4. Core(n) /\ Grows(m, n)
  BY <1>1, <1>2, <1>3 DEF Core, Shape, Grows
<1>. QED BY <1>1, <1>4 DEF n

LEMMA SameInCb ==
  ASSUME NEW m, NEW n, n.cb = m.cb, n.sz = m.sz, NEW name, InCb(m, name)
  PROVE  InCb(n, name)
BY DEF InCb

LEMMA RrAdded ==
  ASSUME NEW m, Core(m), NEW rr, IsList(rr.name), IsData(rr.type, rr.data), NEW udp,
         rr.sect = "additional" => rr.type \notin COMPRESSED /\ InCb(m, rr.name)
  PROVE  LET n == AddRr(m, rr, udp)
         IN  /\ Core(n) /\ Grows(m, n) /\ n.sva = m.sva /\ n.ar = m.ar
             /\ n.rrs = Append(m.rrs, rr) \/ (n.rrs = m.rrs /\ rr.sect = "additional")
             /\ rr.sect # "additional" => NamesKnown(n, rr.type, rr.data, Len(rr.data))
<1>. DEFINE w == WriteRr(m, rr)  back == udp # Nothing /\ w.sz > udp.max /\ rr.sect = "additional"
<1>1. /\ Core(w) /\ Extends(m, w) /\ NamesKnown(w, rr.type, rr.data, Len(rr.data))
      /\ rr.type \notin COMPRESSED => w.cb = WriteName(m, rr.name).cb
  BY RrWritten
<1>2. AddRr(m, rr, udp) = IF back THEN [m EXCEPT !.cb = w.cb] ELSE [w EXCEPT !.rrs = Append(@, rr)]
  BY DEF AddRr
<1>. HIDE DEF w
<1>3. CASE back
  <2>1. Remembered(w.cb) /\ Covered(m.text, w.cb) /\ Prefix(m.cb, w.cb)
    BY <1>1, <1>3, NameTakenBack
  <2>2. LET n == [m EXCEPT !.cb = w.cb]
        IN  Core(n) /\ Grows(m, n) /\ n.sva = m.sva /\ n.ar = m.ar /\ n.rrs = m.rrs
    BY <2>1, TakenBack
  <2>. QED BY <1>2, <1>3, <2>2
<1>4. CASE ~back
  <2>. DEFINE n == [w EXCEPT !.rrs = Append(@, rr)]
  <2>1. Core(n) /\ Grows(w, n) /\ n.sva = w.sva /\ n.ar = w.ar /\ n.rrs = Append(w.rrs, rr) /\ n.cb = w.cb /\ n.sz = w.sz
    BY <1>1, PutIn
  <2>. HIDE DEF n
  <2>2. Grows(m, w) /\ w.sva = m.sva /\ w.ar = m.ar /\ w.rrs = m.rrs
    BY <1>1 DEF Extends, Grows
  <2>3. Grows(m, n)
    BY <2>1, <2>2, <1>1, GrowsTwice
  <2>4. NamesKnown(n, rr.type, rr.data, Len(rr.data))
    <3>1. ASSUME NEW name, InCb(w, name) PROVE InCb(n, name)
      BY <3>1, <2>1, SameInCb
    <3>. QED BY <3>1, <1>1 DEF NamesKnown
  <2>5. AddRr(m, rr, udp) = n
    BY <1>2, <1>4 DEF n
  <2>. QED BY <2>1, <2>2, <2>3, <2>4, <2>5
<1>. QED BY <1>3, <1>4

-----------------------------------------------------------------------------
(* What compose_answer() keeps in mind of the records. *)

NoRepeats(rrs) ==
  \A i, k \in 1..Len(rrs) : i < k /\ rrs[k].sect # "answer" /\ rrs[k].type # "OPT" => ~Repeats(rrs, i, k)

TAKEN == {"NS", "A", "AAAA"}
Added(rr) == rr.sect # "answer" /\ rr.type # "OPT"

\* sva holds what must not come twice.
Recorded(m) ==
  \A i \in 1..Len(m.rrs) : Added(m.rrs[i]) \/ m.rrs[i].type \in TAKEN => Contains(m.sva, Once(m.rrs[i]))

\* The name of a server that is in the message can be pointed to.
ServersKnown(m) == \A k \in 1..Len(m.sva) : m.sva[k][2] = "NS" => InCb(m, m.sva[k][3][1].v)

\* What the last two sections are made from.
Planned(m, re) ==
  /\ re.tp \in {"ADD", "NS", "SOA"}
  /\ re.tp = "ADD" => InCb(m, re.name)
  /\ re.tp # "ADD" => IsList(re.owner) /\ IsData(re.tp, re.data) /\ re.name = re.data[1].v

Sound(m) ==
  /\ Core(m) /\ NoRepeats(m.rrs) /\ Recorded(m) /\ ServersKnown(m)
  /\ \A k \in 1..Len(m.ar) : Planned(m, m.ar[k])

LEMMA PlannedStays ==
  ASSUME NEW m, NEW n, Core(m), Core(n), Grows(m, n), NEW re, Planned(m, re)
  PROVE  Planned(n, re)
BY RememberedStays DEF Planned

LEMMA ContainsMore ==
  ASSUME NEW s, IsList(s), NEW e
  PROVE  /\ Contains(Append(s, e), e)
         /\ \A x : Contains(s, x) => Contains(Append(s, e), x)
<1>1. /\ Len(Append(s, e)) = Len(s) + 1 /\ Len(s) \in Nat
      /\ \A k \in 1..Len(s) : Append(s, e)[k] = s[k]
      /\ Append(s, e)[Len(s) + 1] = e
  BY Appended, Lists
<1>2. Len(s) + 1 \in 1..Len(Append(s, e)) /\ \A k \in 1..Len(s) : k \in 1..Len(Append(s, e))
  BY <1>1
<1>. QED BY <1>1, <1>2 DEF Contains

\* A record is added.
AddedRr(m, n, rr) ==
  /\ n.rrs = Append(m.rrs, rr) \/ n.rrs = m.rrs
  /\ n.sva = Append(m.sva, Once(rr)) \/ (n.sva = m.sva /\ ~Added(rr) /\ rr.type \notin TAKEN)
  /\ Added(rr) => ~Contains(m.sva, Once(rr)) /\ rr.type \in TAKEN \union {"SOA"}
  /\ rr.type = "NS" => InCb(n, rr.data[1].v)

LEMMA RecordsKept ==
  ASSUME NEW m, Sound(m), NEW n, Core(n), Grows(m, n), NEW rr, AddedRr(m, n, rr)
  PROVE  NoRepeats(n.rrs) /\ Recorded(n) /\ ServersKnown(n)
<1>1. /\ Core(m) /\ NoRepeats(m.rrs) /\ Recorded(m) /\ ServersKnown(m)
      /\ IsList(m.rrs) /\ IsList(m.sva) /\ IsList(n.rrs) /\ IsList(n.sva)
  BY DEF Sound, Core, Shape
<1>2. Len(m.rrs) \in Nat /\ Len(m.sva) \in Nat
  BY <1>1, Lists
<1>. DEFINE L == Len(m.rrs)
<1>3. /\ Len(Append(m.rrs, rr)) = L + 1 /\ (\A k \in 1..L : Append(m.rrs, rr)[k] = m.rrs[k])
      /\ Append(m.rrs, rr)[L + 1] = rr
  BY <1>1, Appended
<1>4. \A x : Contains(m.sva, x) => Contains(n.sva, x)
  BY <1>1, ContainsMore DEF AddedRr
<1>5. Added(rr) \/ rr.type \in TAKEN => Contains(n.sva, Once(rr))
  BY <1>1, ContainsMore DEF AddedRr
<1>6. NoRepeats(n.rrs)
  <2>1. CASE n.rrs = Append(m.rrs, rr)
    <3>1. SUFFICES ASSUME NEW i \in 1..Len(n.rrs), NEW k \in 1..Len(n.rrs), i < k, Added(n.rrs[k]), Repeats(n.rrs, i, k)
                   PROVE  FALSE
      BY DEF NoRepeats, Added
    <3>2. i \in 1..L /\ n.rrs[i] = m.rrs[i] /\ (k \in 1..L \/ k = L + 1)
      BY <2>1, <3>1, <1>2, <1>3
    <3>3. CASE k \in 1..L
      BY <2>1, <3>1, <3>2, <3>3, <1>1, <1>3 DEF NoRepeats, Repeats, Added
    <3>4. CASE k = L + 1
      <4>1. n.rrs[k] = rr /\ Once(m.rrs[i]) = Once(rr) /\ (rr.type = "SOA" => m.rrs[i].sect # "answer")
        BY <2>1, <3>1, <3>2, <3>4, <1>3 DEF Repeats
      <4>2. m.rrs[i].type = rr.type
        BY <4>1 DEF Once
      <4>3. Added(rr) /\ ~Contains(m.sva, Once(rr)) /\ rr.type \in TAKEN \union {"SOA"}
        BY <3>1, <4>1 DEF AddedRr
      <4>4. Added(m.rrs[i]) \/ m.rrs[i].type \in TAKEN
        BY <4>1, <4>2, <4>3 DEF Added
      <4>5. Contains(m.sva, Once(rr))
        BY <4>4, <4>1, <3>2, <1>1 DEF Recorded
      <4>. QED BY <4>3, <4>5
    <3>. QED BY <3>2, <3>3, <3>4
  <2>. QED BY <2>1, <1>1 DEF AddedRr
<1>7. Recorded(n)
  <2>1. ASSUME NEW i \in 1..L, Added(m.rrs[i]) \/ m.rrs[i].type \in TAKEN PROVE Contains(n.sva, Once(m.rrs[i]))
    BY <2>1, <1>1, <1>4 DEF Recorded
  <2>2. CASE n.rrs = m.rrs
    BY <2>1, <2>2 DEF Recorded
  <2>3. CASE n.rrs = Append(m.rrs, rr)
    <3>1. ASSUME NEW i \in 1..Len(n.rrs), Added(n.rrs[i]) \/ n.rrs[i].type \in TAKEN PROVE Contains(n.sva, Once(n.rrs[i]))
      <4>1. i \in 1..L \/ i = L + 1
        BY <2>3, <1>2, <1>3
      <4>2. CASE i \in 1..L
        BY <4>2, <3>1, <2>1, <2>3, <1>3
      <4>3. CASE i = L + 1
        BY <4>3, <3>1, <2>3, <1>3, <1>5
      <4>. QED BY <4>1, <4>2, <4>3
    <3>. QED BY <3>1 DEF Recorded
  <2>. QED BY <2>2, <2>3 DEF AddedRr
<1>8. ServersKnown(n)
  <2>1. ASSUME NEW k \in 1..Len(m.sva), m.sva[k][2] = "NS" PROVE InCb(n, m.sva[k][3][1].v)
    BY <2>1, <1>1, RememberedStays DEF ServersKnown
  <2>2. CASE n.sva = m.sva
    BY <2>1, <2>2 DEF ServersKnown
  <2>3. CASE n.sva = Append(m.sva, Once(rr))
    <3>. DEFINE S == Len(m.sva)
    <3>1. Len(n.sva) = S + 1 /\ (\A k \in 1..S : n.sva[k] = m.sva[k]) /\ n.sva[S + 1] = Once(rr)
      BY <2>3, <1>1, Appended
    <3>2. ASSUME NEW k \in 1..Len(n.sva), n.sva[k][2] = "NS" PROVE InCb(n, n.sva[k][3][1].v)
      <4>1. k \in 1..S \/ k = S + 1
        BY <3>1, <1>2
      <4>2. CASE k \in 1..S
        BY <4>2, <3>2, <2>1, <3>1
      <4>3. CASE k = S + 1
        <5>1. Once(rr)[2] = rr.type /\ Once(rr)[3] = rr.data
          BY DEF Once
        <5>. QED BY <4>3, <5>1, <3>2, <3>1 DEF AddedRr
      <4>. QED BY <4>1, <4>2, <4>3
    <3>. QED BY <3>2 DEF ServersKnown
  <2>. QED BY <2>2, <2>3 DEF AddedRr
<1>. QED BY <1>6, <1>7, <1>8

LEMMA SoundStays ==
  ASSUME NEW m, Sound(m), NEW n, Core(n), Grows(m, n), NEW rr, AddedRr(m, n, rr),
         n.ar = m.ar \/ \E re : n.ar = Append(m.ar, re) /\ Planned(n, re)
  PROVE  Sound(n)
<1>1. NoRepeats(n.rrs) /\ Recorded(n) /\ ServersKnown(n) /\ Core(m) /\ IsList(m.ar)
  BY RecordsKept DEF Sound, Core, Shape
<1>2. ASSUME NEW k \in 1..Len(m.ar) PROVE Planned(n, m.ar[k])
  BY <1>1, PlannedStays DEF Sound
<1>3. CASE n.ar = m.ar
  BY <1>1, <1>2, <1>3 DEF Sound
<1>4. ASSUME NEW re, n.ar = Append(m.ar, re), Planned(n, re) PROVE Sound(n)
  <2>1. Len(n.ar) = Len(m.ar) + 1 /\ (\A k \in 1..Len(m.ar) : n.ar[k] = m.ar[k]) /\ n.ar[Len(m.ar) + 1] = re
        /\ Len(m.ar) \in Nat
    BY <1>4, <1>1, Appended, Lists
  <2>2. \A k \in 1..Len(n.ar) : k \in 1..Len(m.ar) \/ k = Len(m.ar) + 1
    BY <2>1
  <2>3. \A k \in 1..Len(n.ar) : Planned(n, n.ar[k])
    BY <2>1, <2>2, <1>2, <1>4
  <2>. QED BY <2>3, <1>1 DEF Sound
<1>. QED BY <1>3, <1>4

-----------------------------------------------------------------------------
(* The answer section. *)

AllAnswers(m) == \A k \in 1..Len(m.rrs) : m.rrs[k].sect = "answer"
AnswersLocal(m) == \A k \in 1..Len(m.rrs) : m.rrs[k].sect = "answer" => m.rrs[k].local

Answers(local, base, m) == Sound(m) /\ AllAnswers(m) /\ (local /\ AnswersLocal(base) => AnswersLocal(m))

LEMMA AnswersAdded ==
  ASSUME NEW m, Sound(m), AllAnswers(m), NEW n, Sound(n), NEW rr, n.rrs = Append(m.rrs, rr), rr.sect = "answer"
  PROVE  AllAnswers(n) /\ (rr.local /\ AnswersLocal(m) => AnswersLocal(n))
<1>1. IsList(m.rrs) /\ Len(m.rrs) \in Nat
  BY Lists DEF Sound, Core, Shape
<1>2. /\ Len(n.rrs) = Len(m.rrs) + 1 /\ (\A k \in 1..Len(m.rrs) : n.rrs[k] = m.rrs[k])
      /\ n.rrs[Len(m.rrs) + 1] = rr
  BY <1>1, Appended
<1>3. \A k \in 1..Len(n.rrs) : k \in 1..Len(m.rrs) \/ k = Len(m.rrs) + 1
  BY <1>1, <1>2
<1>4. AllAnswers(n)
  BY <1>2, <1>3 DEF AllAnswers
<1>5. rr.local /\ AnswersLocal(m) => AnswersLocal(n)
  BY <1>2, <1>3 DEF AnswersLocal
<1>. QED BY <1>4, <1>5

\* The last part of a record that refers to a host is the host's name, and it is remembered.
LEMMA HostKnown ==
  ASSUME NEW m, NEW type \in ADDRESSED, NEW data, IsData(type, data), NamesKnown(m, type, data, Len(data))
  PROVE  InCb(m, Last(data).v) /\ (type = "NS" => InCb(m, data[1].v))
<1>1. IsList(data) /\ data # <<>> /\ Last(data).kind = "n" /\ type \in COMPRESSED
  BY DEF IsData, ADDRESSED, COMPRESSED
<1>2. Len(data) \in 1..Len(data)
  BY <1>1, Lists
<1>3. InCb(m, Last(data).v)
  BY <1>1, <1>2 DEF NamesKnown, Last
<1>4. type = "NS" => Len(data) = 1
  BY DEF IsData
<1>. QED BY <1>3, <1>4 DEF Last

LEMMA AnswerAdded ==
  ASSUME NEW m, Sound(m), AllAnswers(m), NEW rr, IsList(rr.name), IsData(rr.type, rr.data), rr.sect = "answer", NEW udp
  PROVE  LET n == AddAnswer(m, rr, udp)
         IN  Sound(n) /\ AllAnswers(n) /\ (rr.local /\ AnswersLocal(m) => AnswersLocal(n))
<1>. DEFINE a == AddRr(m, rr, udp)  n == AddAnswer(m, rr, udp)  host == rr.type \in ADDRESSED  once == rr.type \in TAKEN
<1>1. /\ Core(a) /\ Grows(m, a) /\ a.sva = m.sva /\ a.ar = m.ar /\ a.rrs = Append(m.rrs, rr)
      /\ NamesKnown(a, rr.type, rr.data, Len(rr.data))
  <2>1. Core(m)
    BY DEF Sound
  <2>. QED BY <2>1, RrAdded
<1>. HIDE DEF a
<1>2. /\ n.rrs = a.rrs /\ n.text = a.text /\ n.cb = a.cb /\ n.sz = a.sz /\ DOMAIN n = DOMAIN a
      /\ n.sva = (IF once THEN Append(a.sva, Once(rr)) ELSE a.sva)
      /\ n.ar = (IF host THEN Append(a.ar, Wanted(rr)) ELSE a.ar)
  BY <1>1 DEF AddAnswer, a, TAKEN, Core, Shape
<1>. HIDE DEF n
<1>3. IsList(n.sva) /\ IsList(n.ar)
  <2>1. IsList(a.sva) /\ IsList(a.ar)
    BY <1>1 DEF Core, Shape
  <2>. QED BY <2>1, <1>2, Appended
<1>4. Core(n) /\ Grows(m, n)
  BY <1>1, <1>2, <1>3 DEF Core, Shape, Grows
<1>5. ASSUME NEW name, InCb(a, name) PROVE InCb(n, name)
  BY <1>5, <1>2, SameInCb
<1>6. host => InCb(n, Last(rr.data).v) /\ (rr.type = "NS" => InCb(n, rr.data[1].v))
  BY <1>1, <1>5, HostKnown
<1>7. AddedRr(m, n, rr)
  <2>1. rr.type = "NS" => InCb(n, rr.data[1].v)
    BY <1>6 DEF ADDRESSED
  <2>. QED BY <2>1, <1>1, <1>2 DEF AddedRr, Added
<1>8. n.ar = m.ar \/ \E re : n.ar = Append(m.ar, re) /\ Planned(n, re)
  <2>1. CASE host
    <3>1. Planned(n, Wanted(rr))
      BY <2>1, <1>6 DEF Planned, Wanted
    <3>. QED BY <3>1, <2>1, <1>1, <1>2
  <2>2. CASE ~host
    BY <2>2, <1>1, <1>2
  <2>. QED BY <2>1, <2>2
<1>9. Sound(n)
  BY <1>4, <1>7, <1>8, SoundStays
<1>10. AllAnswers(n) /\ (rr.local /\ AnswersLocal(m) => AnswersLocal(n))
  BY <1>1, <1>2, <1>9, AnswersAdded
<1>. QED BY <1>9, <1>10 DEF n

AnswerOp(udp, local, z, acc, rr) == AddAnswer(acc, rr, udp)
AnswerGood(udp, local, z, base, k, acc) == Answers(local, base, acc)
AnswerFold == INSTANCE FoldFacts WITH Op <- AnswerOp, Good <- AnswerGood

\* All records of a set.
LEMMA RrsetAdded ==
  ASSUME NEW m, Sound(m), AllAnswers(m), NEW name, IsList(name), NEW type, NEW ent, IsEntry(ent), NEW udp
  PROVE  Answers("LOCAL" \in ent.flags, m, AddRrset(m, name, type, ent, udp))
<1>. DEFINE local == "LOCAL" \in ent.flags
<1>1. CASE ~HaveRr(ent, type)
  BY <1>1 DEF AddRrset, Answers
<1>2. CASE HaveRr(ent, type)
  <2>. DEFINE rrs == ent.sets[type].rrs  s == [k \in DOMAIN rrs |-> Rr("answer", name, type, rrs[k], ent)]
  <2>1. IsList(rrs) /\ \A k \in DOMAIN rrs : IsData(type, rrs[k])
    BY <1>2 DEF IsEntry, HaveRr, Has
  <2>2. Len(rrs) \in Nat /\ DOMAIN rrs = 1..Len(rrs)
    BY <2>1, Lists
  <2>3. DOMAIN s = 1..Len(rrs)
    BY <2>2
  <2>4. AddRrset(m, name, type, ent, udp) = AnswerFold!Folded(udp, local, 0, m, s)
    BY <1>2 DEF AddRrset, AnswerFold!Folded, AnswerOp, FoldLeft, MapThenFoldSet,
         AnswerFold!FoldLeft, AnswerFold!MapThenFoldSet, Max, AnswerFold!Max
  <2>5. \A k \in 1..Len(rrs) :
          s[k].name = name /\ s[k].type = type /\ s[k].sect = "answer" /\ s[k].data = rrs[k] /\ s[k].local = local
    BY <2>2 DEF Rr
  <2>. HIDE DEF s, rrs, local
  <2>6. AnswerGood(udp, local, 0, m, 0, m)
    BY DEF AnswerGood, Answers
  <2>7. ASSUME NEW k \in 1..Len(rrs), NEW a, AnswerGood(udp, local, 0, m, k - 1, a)
        PROVE  AnswerGood(udp, local, 0, m, k, AnswerOp(udp, local, 0, a, s[k]))
    <3>1. Sound(a) /\ AllAnswers(a) /\ (local /\ AnswersLocal(m) => AnswersLocal(a))
      BY <2>7 DEF AnswerGood, Answers
    <3>2. IsList(s[k].name) /\ IsData(s[k].type, s[k].data) /\ s[k].sect = "answer" /\ s[k].local = local
      BY <2>1, <2>2, <2>5
    <3>. DEFINE n == AddAnswer(a, s[k], udp)
    <3>3. Sound(n) /\ AllAnswers(n) /\ (s[k].local /\ AnswersLocal(a) => AnswersLocal(n))
      BY <3>1, <3>2, AnswerAdded
    <3>. HIDE DEF n
    <3>4. Answers(local, m, n)
      BY <3>1, <3>2, <3>3 DEF Answers
    <3>. QED BY <3>4 DEF n, AnswerGood, AnswerOp
  <2>8. AnswerGood(udp, local, 0, m, Len(rrs), AnswerFold!Folded(udp, local, 0, m, s))
    BY <2>2, <2>3, <2>6, <2>7, AnswerFold!FoldKeeps
  <2>. QED BY <2>4, <2>8 DEF AnswerGood, local
<1>. QED BY <1>1, <1>2

LEMMA AskedIsList ==
  ASSUME NEW ent, IsEntry(ent), NEW qtype
  PROVE  \E n \in Nat : DOMAIN Asked(qtype, ent) = 1..n
<1>1. CASE qtype = "ALL"
  <2>. DEFINE S == DOMAIN ent.sets  C == Cardinality(S)
  <2>1. IsFiniteSet(S)
    BY DEF IsEntry
  <2>. HIDE DEF S
  <2>2. C \in Nat /\ ExistsBijection(1..C, S)
    BY <2>1, FS_CardinalityType
  <2>3. PICK f \in Bijection(1..C, S) : TRUE
    BY <2>2 DEF ExistsBijection
  <2>4. f \in [1..C -> S] /\ IsInjective(f)
    BY <2>3 DEF Bijection, Injection
  <2>5. SetToSeq(S) \in [1..C -> S]
    BY <2>4 DEF SetToSeq
  <2>6. Asked(qtype, ent) = SetToSeq(S)
    BY <1>1 DEF Asked, S
  <2>7. DOMAIN Asked(qtype, ent) = 1..C
    BY <2>5, <2>6
  <2>. QED BY <2>2, <2>7
<1>2. CASE qtype # "ALL"
  <2>1. Asked(qtype, ent) \in {<<"MB", "MG", "MR">>, <<"MD", "MF">>, <<qtype>>}
    BY <1>2 DEF Asked
  <2>2. DOMAIN <<"MB", "MG", "MR">> = 1..3 /\ DOMAIN <<"MD", "MF">> = 1..2 /\ DOMAIN <<qtype>> = 1..1
    OBVIOUS
  <2>. QED BY <2>1, <2>2
<1>. QED BY <1>1, <1>2

ResponseOp(name, ent, udp, acc, type) == AddRrset(acc, name, type, ent, udp)
ResponseGood(name, ent, udp, base, k, acc) == Answers("LOCAL" \in ent.flags, base, acc)
ResponseFold == INSTANCE FoldFacts WITH Op <- ResponseOp, Good <- ResponseGood

\* What an entry contributes to the answer: it is authoritative if the entry is local.
LEMMA ResponseAdded ==
  ASSUME NEW m, Sound(m), AllAnswers(m), NEW name, IsList(name), NEW qtype, NEW ent, IsEntry(ent), NEW udp
  PROVE  Answers("LOCAL" \in ent.flags, m, AddToResponse(m, name, qtype, ent, udp))
<1>. DEFINE local == "LOCAL" \in ent.flags
            base == IF OnlyAlias(qtype, ent) THEN AddRrset(m, name, "CNAME", ent, udp) ELSE m
            s == Asked(qtype, ent)
<1>1. Answers(local, m, base)
  <2>1. CASE OnlyAlias(qtype, ent)
    BY <2>1, RrsetAdded
  <2>2. CASE ~OnlyAlias(qtype, ent)
    BY <2>2 DEF Answers
  <2>. QED BY <2>1, <2>2
<1>2. PICK n \in Nat : DOMAIN s = 1..n
  BY AskedIsList
<1>3. AddToResponse(m, name, qtype, ent, udp) = ResponseFold!Folded(name, ent, udp, base, s)
  BY DEF AddToResponse, ResponseFold!Folded, ResponseOp, FoldLeft, MapThenFoldSet,
         ResponseFold!FoldLeft, ResponseFold!MapThenFoldSet, Max, ResponseFold!Max
<1>. HIDE DEF base, s, local
<1>4. Sound(base) /\ AllAnswers(base)
  BY <1>1 DEF Answers
<1>5. ResponseGood(name, ent, udp, base, 0, base)
  BY <1>4 DEF ResponseGood, Answers
<1>6. ASSUME NEW k \in 1..n, NEW a, ResponseGood(name, ent, udp, base, k - 1, a)
      PROVE  ResponseGood(name, ent, udp, base, k, ResponseOp(name, ent, udp, a, s[k]))
  <2>1. Sound(a) /\ AllAnswers(a) /\ (local /\ AnswersLocal(base) => AnswersLocal(a))
    BY <1>6 DEF ResponseGood, Answers, local
  <2>. DEFINE b == AddRrset(a, name, s[k], ent, udp)
  <2>2. Answers(local, a, b)
    BY <2>1, RrsetAdded DEF local
  <2>. HIDE DEF b
  <2>3. Answers(local, base, b)
    BY <2>1, <2>2 DEF Answers
  <2>. QED BY <2>3 DEF ResponseGood, ResponseOp, b, local
<1>7. ResponseGood(name, ent, udp, base, n, ResponseFold!Folded(name, ent, udp, base, s))
  BY <1>2, <1>5, <1>6, ResponseFold!FoldKeeps
<1>8. Answers(local, base, AddToResponse(m, name, qtype, ent, udp))
  BY <1>3, <1>7 DEF ResponseGood, local
<1>9. Answers(local, m, AddToResponse(m, name, qtype, ent, udp))
  BY <1>1, <1>8 DEF Answers
<1>. QED BY <1>9 DEF local

\* The questions stand at the beginning.
BegunOp(x, y, z, m, qe) == WriteQuestion(m, qe)
BegunGood(x, y, z, base, k, m) == Core(m) /\ m.rrs = <<>> /\ m.sva = <<>> /\ m.ar = <<>>
BegunFold == INSTANCE FoldFacts WITH Op <- BegunOp, Good <- BegunGood

LEMMA EmptyIsSound ==
  ASSUME NEW m, Core(m), m.rrs = <<>>, m.sva = <<>>, m.ar = <<>>
  PROVE  Sound(m) /\ AllAnswers(m) /\ AnswersLocal(m)
<1>1. 1..Len(m.rrs) = {} /\ 1..Len(m.sva) = {} /\ 1..Len(m.ar) = {}
  BY NoList
<1>. QED BY <1>1 DEF Sound, NoRepeats, Recorded, ServersKnown, AllAnswers, AnswersLocal

LEMMA NoMessageIsSound == Core(NoMessage) /\ NoMessage.rrs = <<>> /\ NoMessage.sva = <<>> /\ NoMessage.ar = <<>>
<1>1. /\ DOMAIN NoMessage = {"sz", "rrs", "text", "cb", "sva", "ar"} /\ NoMessage.sz = 12 /\ NoMessage.rrs = <<>>
      /\ NoMessage.text = <<>> /\ NoMessage.cb = <<>> /\ NoMessage.sva = <<>> /\ NoMessage.ar = <<>>
  BY DEF NoMessage
<1>2. IsList(<<>>) /\ 1..Len(<<>>) = {}
  BY NoList
<1>. QED BY <1>1, <1>2 DEF Core, Shape, Remembered, Covered, Texts

LEMMA BegunIsSound ==
  ASSUME NEW q, IsQuery(q)
  PROVE  Sound(Begun(q)) /\ AllAnswers(Begun(q)) /\ AnswersLocal(Begun(q))
<1>. DEFINE s == q.qs
<1>1. Len(s) \in Nat /\ DOMAIN s = 1..Len(s) /\ \A k \in 1..Len(s) : IsList(s[k].name)
  BY Lists DEF IsQuery
<1>2. Begun(q) = BegunFold!Folded(0, 0, 0, NoMessage, s)
  BY DEF Begun, BegunFold!Folded, BegunOp, FoldLeft, MapThenFoldSet,
         BegunFold!FoldLeft, BegunFold!MapThenFoldSet, Max, BegunFold!Max
<1>3. BegunGood(0, 0, 0, NoMessage, 0, NoMessage)
  BY NoMessageIsSound DEF BegunGood
<1>. HIDE DEF s
<1>4. ASSUME NEW k \in 1..Len(s), NEW a, BegunGood(0, 0, 0, NoMessage, k - 1, a)
      PROVE  BegunGood(0, 0, 0, NoMessage, k, BegunOp(0, 0, 0, a, s[k]))
  <2>1. Core(a) /\ a.rrs = <<>> /\ a.sva = <<>> /\ a.ar = <<>>
    BY <1>4 DEF BegunGood
  <2>. DEFINE n == WriteName(a, s[k].name)
  <2>2. Core(n) /\ Extends(a, n)
    BY <2>1, <1>1, NameWritten
  <2>3. WriteQuestion(a, s[k]) = [n EXCEPT !.sz = @ + 4]
    BY DEF WriteQuestion
  <2>. HIDE DEF n
  <2>4. Core([n EXCEPT !.sz = @ + 4]) /\ Extends(n, [n EXCEPT !.sz = @ + 4])
    BY <2>2, Wider
  <2>5. BegunGood(0, 0, 0, NoMessage, k, WriteQuestion(a, s[k]))
    BY <2>1, <2>2, <2>3, <2>4 DEF BegunGood, Extends
  <2>. QED BY <2>5 DEF BegunOp
<1>5. BegunGood(0, 0, 0, NoMessage, Len(s), Begun(q))
  BY <1>1, <1>2, <1>3, <1>4, BegunFold!FoldKeeps
<1>6. Core(Begun(q)) /\ Begun(q).rrs = <<>> /\ Begun(q).sva = <<>> /\ Begun(q).ar = <<>>
  BY <1>5 DEF BegunGood
<1>. QED BY <1>6, EmptyIsSound

-----------------------------------------------------------------------------
(* The authority section, as it is planned. *)

LEMMA Joined ==
  ASSUME NEW s, NEW t, IsList(s), IsList(t)
  PROVE  /\ IsList(s \o t) /\ Len(s \o t) = Len(s) + Len(t)
         /\ \A k \in 1..Len(s) : (s \o t)[k] = s[k]
         /\ \A k \in 1..Len(t) : (s \o t)[Len(s) + k] = t[k]
<1>. DEFINE R == {s[k] : k \in DOMAIN s}  T == {t[k] : k \in DOMAIN t}  U == R \union T
<1>1. s \in Seq(R) /\ t \in Seq(T) /\ R \subseteq U /\ T \subseteq U
  BY DEF IsList
<1>. HIDE DEF R, T, U
<1>2. s \in Seq(U) /\ t \in Seq(U)
  BY <1>1, SeqMonotonic
<1>3. s \o t \in Seq(U) /\ Len(s \o t) = Len(s) + Len(t)
  BY <1>2, ConcatProperties
<1>4. \A k \in 1..Len(s) + Len(t) : (s \o t)[k] = IF k <= Len(s) THEN s[k] ELSE t[k - Len(s)]
  BY <1>2, ConcatProperties
<1>5. Len(s) \in Nat /\ Len(t) \in Nat
  BY Lists
<1>6. \A k \in 1..Len(s) : (s \o t)[k] = s[k]
  BY <1>4, <1>5
<1>7. ASSUME NEW k \in 1..Len(t) PROVE (s \o t)[Len(s) + k] = t[k]
  <2>1. Len(s) + k \in 1..Len(s) + Len(t) /\ ~(Len(s) + k <= Len(s)) /\ (Len(s) + k) - Len(s) = k
    BY <1>5
  <2>. QED BY <2>1, <1>4
<1>. QED BY <1>3, <1>6, <1>7, ListsFrom

LEMMA AuthorityNamed ==
  ASSUME NEW ent, IsEntry(ent), NEW type, NEW above, above = Nothing \/ IsEntry(above), NEW own, own = Nothing \/ IsEntry(own)
  PROVE  LET a == Authority(ent, type, above, own)
         IN  a = Nothing \/ (IsEntry(a) /\ Has(a, type))
<1>1. CASE Positive(ent, type)
  BY <1>1 DEF Authority, Positive
<1>2. CASE ~Positive(ent, type) /\ Positive(above, type)
  BY <1>2 DEF Authority, Positive
<1>3. CASE ~Positive(ent, type) /\ ~Positive(above, type)
  <2>1. Authority(ent, type, above, own) = IF "LOCAL" \in ent.flags /\ own # Nothing /\ Has(own, type) THEN own ELSE Nothing
    BY <1>3 DEF Authority
  <2>. QED BY <2>1
<1>. QED BY <1>1, <1>2, <1>3

LEMMA AuthorityPlanned ==
  ASSUME NEW m, Sound(m), AllAnswers(m), NEW type \in {"NS", "SOA"}, NEW ent, ent = Nothing \/ (IsEntry(ent) /\ Has(ent, type))
  PROVE  LET n == WithAuthority(m, type, ent)
         IN  Sound(n) /\ AllAnswers(n) /\ n.rrs = m.rrs
<1>1. CASE ent = Nothing
  BY <1>1 DEF WithAuthority
<1>2. CASE ent # Nothing
  <2>. DEFINE rrs == ent.sets[type].rrs
              t == [k \in DOMAIN rrs |-> [tp |-> type, owner |-> ent.qname, data |-> rrs[k], ent |-> ent, name |-> rrs[k][1].v]]
              n == [m EXCEPT !.ar = @ \o t]
              T == {t[k] : k \in DOMAIN rrs}
  <2>1. IsList(rrs) /\ IsList(ent.qname) /\ \A k \in DOMAIN rrs : IsData(type, rrs[k])
    BY <1>2 DEF IsEntry, Has
  <2>2. Len(rrs) \in Nat /\ DOMAIN rrs = 1..Len(rrs)
    BY <2>1, Lists
  <2>3. DOMAIN t = 1..Len(rrs) /\ t \in [1..Len(rrs) -> T]
    BY <2>2
  <2>4. \A k \in 1..Len(rrs) : t[k].tp = type /\ t[k].owner = ent.qname /\ t[k].data = rrs[k] /\ t[k].name = rrs[k][1].v
    BY <2>2
  <2>5. WithAuthority(m, type, ent) = n
    BY <1>2 DEF WithAuthority
  <2>6. /\ DOMAIN n = DOMAIN m /\ n.sz = m.sz /\ n.rrs = m.rrs /\ n.text = m.text /\ n.cb = m.cb
        /\ n.sva = m.sva /\ n.ar = m.ar \o t
    BY DEF Sound, Core, Shape
  <2>. HIDE DEF t, T, n, rrs
  <2>7. /\ IsList(n.ar) /\ Len(n.ar) = Len(m.ar) + Len(rrs) /\ Len(m.ar) \in Nat
        /\ \A k \in 1..Len(m.ar) : n.ar[k] = m.ar[k]
        /\ \A k \in 1..Len(rrs) : n.ar[Len(m.ar) + k] = t[k]
    <3>1. IsList(m.ar)
      BY DEF Sound, Core, Shape
    <3>2. IsList(t) /\ Len(t) = Len(rrs)
      <4>1. t \in Seq(T) /\ Len(t) = Len(rrs)
        BY <2>2, <2>3
      <4>. QED BY <4>1, ListsFrom
    <3>3. /\ IsList(m.ar \o t) /\ Len(m.ar \o t) = Len(m.ar) + Len(t)
          /\ \A k \in 1..Len(m.ar) : (m.ar \o t)[k] = m.ar[k]
          /\ \A k \in 1..Len(t) : (m.ar \o t)[Len(m.ar) + k] = t[k]
      BY <3>1, <3>2, Joined
    <3>4. Len(m.ar) \in Nat
      BY <3>1, Lists
    <3>. QED BY <3>2, <3>3, <3>4, <2>6
  <2>8. Core(n)
    BY <2>6, <2>7 DEF Sound, Core, Shape
  <2>9. ASSUME NEW name, InCb(m, name) PROVE InCb(n, name)
    BY <2>9, <2>6, SameInCb
  <2>10. ASSUME NEW k \in 1..Len(n.ar) PROVE Planned(n, n.ar[k])
    <3>1. CASE k \in 1..Len(m.ar)
      <4>1. Planned(m, m.ar[k])
        BY <3>1 DEF Sound
      <4>. QED BY <4>1, <3>1, <2>7, <2>9 DEF Planned
    <3>2. CASE k \notin 1..Len(m.ar)
      <4>. DEFINE j == k - Len(m.ar)
      <4>1. j \in 1..Len(rrs) /\ k = Len(m.ar) + j
        BY <3>2, <2>7, <2>2
      <4>. HIDE DEF j
      <4>2. n.ar[k] = t[j]
        BY <4>1, <2>7
      <4>. QED BY <4>1, <4>2, <2>1, <2>2, <2>4 DEF Planned
    <3>. QED BY <3>1, <3>2
  <2>11. NoRepeats(n.rrs) /\ Recorded(n)
    BY <2>6 DEF Sound, Recorded
  <2>12. ServersKnown(n)
    BY <2>6, <2>9 DEF Sound, ServersKnown
  <2>13. Sound(n) /\ AllAnswers(n)
    BY <2>6, <2>8, <2>10, <2>11, <2>12 DEF Sound, AllAnswers
  <2>. QED BY <2>5, <2>6, <2>13
<1>. QED BY <1>1, <1>2

-----------------------------------------------------------------------------
(* The last two sections. *)

\* What else is added stays in its section.
Adds(m, n) == Sound(n) /\ Grows(m, n) /\ (AnswersLocal(m) => AnswersLocal(n))

LEMMA AddsTwice ==
  ASSUME NEW m, NEW n, NEW o, Sound(m), Adds(m, n), Adds(n, o)
  PROVE  Adds(m, o)
<1>1. Grows(m, o)
  BY GrowsTwice DEF Adds, Sound
<1>. QED BY <1>1 DEF Adds

LEMMA AddsNot == ASSUME NEW m, Sound(m) PROVE Adds(m, m)
BY GrowsNot DEF Adds, Sound

LEMMA LocalStays ==
  ASSUME NEW m, IsList(m.rrs), NEW n, NEW rr, rr.sect # "answer", n.rrs = Append(m.rrs, rr) \/ n.rrs = m.rrs, AnswersLocal(m)
  PROVE  AnswersLocal(n)
<1>1. CASE n.rrs = m.rrs
  BY <1>1 DEF AnswersLocal
<1>2. CASE n.rrs = Append(m.rrs, rr)
  <2>1. Len(m.rrs) \in Nat /\ Len(n.rrs) = Len(m.rrs) + 1 /\ (\A k \in 1..Len(m.rrs) : n.rrs[k] = m.rrs[k])
        /\ n.rrs[Len(m.rrs) + 1] = rr
    BY <1>2, Appended, Lists
  <2>2. \A k \in 1..Len(n.rrs) : k \in 1..Len(m.rrs) \/ k = Len(m.rrs) + 1
    BY <2>1
  <2>. QED BY <2>1, <2>2 DEF AnswersLocal
<1>. QED BY <1>1, <1>2

\* A record that must not come twice.
LEMMA RecordAdded ==
  ASSUME NEW m, Sound(m), NEW rr, IsList(rr.name), IsData(rr.type, rr.data), NEW udp,
         \/ rr.sect = "authority" /\ rr.type \in {"NS", "SOA"}
         \/ rr.sect = "additional" /\ rr.type \in {"A", "AAAA"} /\ InCb(m, rr.name)
  PROVE  LET n == AddAdditionalRr(m, rr, udp)
         IN  /\ Adds(m, n) /\ n.ar = m.ar
             /\ rr.type = "NS" => InCb(n, rr.data[1].v)
<1>1. CASE Contains(m.sva, Once(rr))
  <2>1. PICK i \in 1..Len(m.sva) : m.sva[i] = Once(rr)
    BY <1>1 DEF Contains
  <2>2. Once(rr)[2] = rr.type /\ Once(rr)[3] = rr.data
    BY DEF Once
  <2>3. rr.type = "NS" => InCb(m, rr.data[1].v)
    BY <2>1, <2>2 DEF Sound, ServersKnown
  <2>. QED BY <1>1, <2>3, AddsNot DEF AddAdditionalRr
<1>2. CASE ~Contains(m.sva, Once(rr))
  <2>. DEFINE a == AddRr(m, rr, udp)  n == [a EXCEPT !.sva = Append(@, Once(rr))]
  <2>1. /\ Core(a) /\ Grows(m, a) /\ a.sva = m.sva /\ a.ar = m.ar
        /\ a.rrs = Append(m.rrs, rr) \/ a.rrs = m.rrs
        /\ rr.sect # "additional" => NamesKnown(a, rr.type, rr.data, Len(rr.data))
    <3>1. Core(m)
      BY DEF Sound
    <3>2. rr.sect = "additional" => rr.type \notin COMPRESSED /\ InCb(m, rr.name)
      BY DEF COMPRESSED
    <3>. QED BY <3>1, <3>2, RrAdded
  <2>2. AddAdditionalRr(m, rr, udp) = n
    BY <1>2 DEF AddAdditionalRr
  <2>. HIDE DEF a
  <2>3. /\ n.rrs = a.rrs /\ n.text = a.text /\ n.cb = a.cb /\ n.sz = a.sz /\ DOMAIN n = DOMAIN a
        /\ n.sva = Append(a.sva, Once(rr)) /\ n.ar = a.ar
    BY <2>1 DEF Core, Shape
  <2>. HIDE DEF n
  <2>4. IsList(n.sva)
    BY <2>1, <2>3, Appended DEF Core, Shape
  <2>5. Core(n) /\ Grows(m, n)
    BY <2>1, <2>3, <2>4 DEF Core, Shape, Grows
  <2>6. rr.type = "NS" => InCb(n, rr.data[1].v)
    <3>1. SUFFICES ASSUME rr.type = "NS" PROVE InCb(n, rr.data[1].v)
      OBVIOUS
    <3>2. rr.type \in ADDRESSED /\ NamesKnown(a, rr.type, rr.data, Len(rr.data))
      BY <3>1, <2>1 DEF ADDRESSED
    <3>3. InCb(a, rr.data[1].v)
      BY <3>1, <3>2, HostKnown
    <3>. QED BY <3>3, <2>3, SameInCb
  <2>7. AddedRr(m, n, rr)
    BY <1>2, <2>1, <2>3, <2>6 DEF AddedRr, Added, TAKEN
  <2>8. Sound(n)
    BY <2>1, <2>3, <2>5, <2>7, SoundStays
  <2>9. AnswersLocal(m) => AnswersLocal(n)
    <3>1. IsList(m.rrs) /\ rr.sect # "answer"
      BY DEF Sound, Core, Shape
    <3>. QED BY <3>1, <2>1, <2>3, LocalStays
  <2>10. Adds(m, n)
    BY <2>5, <2>8, <2>9 DEF Adds
  <2>. QED BY <2>1, <2>2, <2>3, <2>6, <2>10
<1>. QED BY <1>1, <1>2

AuthorityOp(udp, y, z, acc, re) == AddAuthority(acc, re, udp)
AuthorityGood(udp, y, z, base, k, acc) ==
  /\ Adds(base, acc) /\ acc.ar = base.ar
  /\ \A i \in 1..k : base.ar[i].tp = "NS" => InCb(acc, base.ar[i].name)
AuthorityFold == INSTANCE FoldFacts WITH Op <- AuthorityOp, Good <- AuthorityGood

LEMMA AuthorityStep ==
  ASSUME NEW m, Sound(m), NEW udp, NEW k \in 1..Len(m.ar), NEW a, AuthorityGood(udp, 0, 0, m, k - 1, a)
  PROVE  AuthorityGood(udp, 0, 0, m, k, AddAuthority(a, m.ar[k], udp))
<1>. DEFINE re == m.ar[k]  n == AddAuthority(a, re, udp)
<1>1. /\ Adds(m, a) /\ Sound(a) /\ a.ar = m.ar
      /\ \A i \in 1..k - 1 : m.ar[i].tp = "NS" => InCb(a, m.ar[i].name)
  BY DEF AuthorityGood, Adds
<1>2. Planned(a, re)
  BY <1>1 DEF Sound
<1>. HIDE DEF n, re
<1>3. Adds(a, n) /\ n.ar = a.ar /\ (re.tp = "NS" => InCb(n, re.name))
  <2>1. CASE re.tp = "ADD"
    BY <2>1, <1>1, AddsNot DEF AddAuthority, n
  <2>2. CASE re.tp # "ADD"
    <3>. DEFINE rr == Rr("authority", re.owner, re.tp, re.data, re.ent)
    <3>1. rr.sect = "authority" /\ rr.name = re.owner /\ rr.type = re.tp /\ rr.data = re.data
      BY DEF Rr
    <3>2. n = AddAdditionalRr(a, rr, udp)
      BY <2>2 DEF AddAuthority, n
    <3>. HIDE DEF rr
    <3>3. IsList(rr.name) /\ IsData(rr.type, rr.data) /\ rr.type \in {"NS", "SOA"} /\ re.name = rr.data[1].v
      BY <2>2, <3>1, <1>2 DEF Planned
    <3>. QED BY <3>1, <3>2, <3>3, <1>1, RecordAdded
  <2>. QED BY <2>1, <2>2
<1>4. Adds(m, n) /\ n.ar = m.ar
  BY <1>1, <1>3, AddsTwice
<1>5. ASSUME NEW i \in 1..k, m.ar[i].tp = "NS" PROVE InCb(n, m.ar[i].name)
  <2>1. CASE i = k
    BY <2>1, <1>5, <1>3 DEF re
  <2>2. CASE i # k
    <3>1. i \in 1..k - 1
      <4>1. k \in Int
        BY Lists DEF Sound, Core, Shape
      <4>. QED BY <2>2, <4>1
    <3>2. InCb(a, m.ar[i].name)
      BY <3>1, <1>5, <1>1
    <3>3. Core(a) /\ Core(n) /\ Grows(a, n)
      BY <1>1, <1>3 DEF Adds, Sound
    <3>. QED BY <3>2, <3>3, RememberedStays
  <2>. QED BY <2>1, <2>2
<1>6. AuthorityGood(udp, 0, 0, m, k, n)
  BY <1>4, <1>5 DEF AuthorityGood
<1>. QED BY <1>6 DEF n, re

\* Every host that the additional section may tell the addresses of is named before.
HostsKnown(m) == \A i \in 1..Len(m.ar) : m.ar[i].tp # "SOA" => InCb(m, m.ar[i].name)

LEMMA AuthoritiesAdded ==
  ASSUME NEW m, Sound(m), NEW udp
  PROVE  LET n == AddAuthorities(m, udp)
         IN  Adds(m, n) /\ HostsKnown(n)
<1>. DEFINE n == AddAuthorities(m, udp)  s == m.ar
<1>1. Len(s) \in Nat /\ DOMAIN s = 1..Len(s)
  BY Lists DEF Sound, Core, Shape
<1>2. n = AuthorityFold!Folded(udp, 0, 0, m, s)
  BY DEF AddAuthorities, AuthorityFold!Folded, AuthorityOp, FoldLeft, MapThenFoldSet,
         AuthorityFold!FoldLeft, AuthorityFold!MapThenFoldSet, Max, AuthorityFold!Max
<1>. HIDE DEF n
<1>3. AuthorityGood(udp, 0, 0, m, 0, m)
  BY AddsNot DEF AuthorityGood
<1>4. ASSUME NEW k \in 1..Len(s), NEW a, AuthorityGood(udp, 0, 0, m, k - 1, a)
      PROVE  AuthorityGood(udp, 0, 0, m, k, AuthorityOp(udp, 0, 0, a, s[k]))
  BY <1>4, AuthorityStep DEF AuthorityOp
<1>. HIDE DEF s
<1>5. AuthorityGood(udp, 0, 0, m, Len(s), n)
  BY <1>1, <1>2, <1>3, <1>4, AuthorityFold!FoldKeeps
<1>6. Adds(m, n) /\ Sound(n) /\ n.ar = s /\ \A i \in 1..Len(s) : s[i].tp = "NS" => InCb(n, s[i].name)
  BY <1>5 DEF AuthorityGood, Adds, s
<1>7. HostsKnown(n)
  <2>1. ASSUME NEW i \in 1..Len(n.ar), n.ar[i].tp # "SOA" PROVE InCb(n, n.ar[i].name)
    <3>1. Planned(n, n.ar[i])
      BY <1>6 DEF Sound
    <3>. QED BY <3>1, <2>1, <1>6 DEF Planned
  <2>. QED BY <2>1 DEF HostsKnown
<1>. QED BY <1>6, <1>7 DEF n

AddressOp(ent, type, udp, acc, data) == AddAdditionalRr(acc, Rr("additional", ent.qname, type, data, ent), udp)
AddressGood(ent, type, udp, base, k, acc) == Adds(base, acc)
AddressFold == INSTANCE FoldFacts WITH Op <- AddressOp, Good <- AddressGood

LEMMA AddressesAdded ==
  ASSUME NEW m, Sound(m), NEW type \in {"A", "AAAA"}, NEW ent, IsEntry(ent), InCb(m, ent.qname), NEW udp
  PROVE  Adds(m, AddAddresses(m, type, ent, udp))
<1>1. CASE ~HaveRr(ent, type)
  BY <1>1, AddsNot DEF AddAddresses
<1>2. CASE HaveRr(ent, type)
  <2>. DEFINE s == ent.sets[type].rrs
  <2>1. IsList(s) /\ \A k \in DOMAIN s : IsData(type, s[k])
    BY <1>2 DEF IsEntry, HaveRr, Has
  <2>2. Len(s) \in Nat /\ DOMAIN s = 1..Len(s)
    BY <2>1, Lists
  <2>3. AddAddresses(m, type, ent, udp) = AddressFold!Folded(ent, type, udp, m, s)
    BY <1>2 DEF AddAddresses, AddressFold!Folded, AddressOp, FoldLeft, MapThenFoldSet,
         AddressFold!FoldLeft, AddressFold!MapThenFoldSet, Max, AddressFold!Max
  <2>. HIDE DEF s
  <2>4. AddressGood(ent, type, udp, m, 0, m)
    BY AddsNot DEF AddressGood
  <2>5. ASSUME NEW k \in 1..Len(s), NEW a, AddressGood(ent, type, udp, m, k - 1, a)
        PROVE  AddressGood(ent, type, udp, m, k, AddressOp(ent, type, udp, a, s[k]))
    <3>. DEFINE rr == Rr("additional", ent.qname, type, s[k], ent)  n == AddAdditionalRr(a, rr, udp)
    <3>1. rr.sect = "additional" /\ rr.name = ent.qname /\ rr.type = type /\ rr.data = s[k]
      BY DEF Rr
    <3>2. Adds(m, a) /\ Sound(a)
      BY <2>5 DEF AddressGood, Adds
    <3>3. IsList(ent.qname) /\ IsData(type, s[k])
      BY <2>1, <2>2 DEF InCb
    <3>4. InCb(a, ent.qname)
      BY <3>2, RememberedStays DEF Adds, Sound
    <3>. HIDE DEF rr
    <3>5. Adds(a, n)
      BY <3>1, <3>2, <3>3, <3>4, RecordAdded
    <3>. HIDE DEF n
    <3>6. Adds(m, n)
      BY <3>2, <3>5, AddsTwice
    <3>. QED BY <3>6 DEF AddressGood, AddressOp, n, rr
  <2>6. AddressGood(ent, type, udp, m, Len(s), AddressFold!Folded(ent, type, udp, m, s))
    BY <2>2, <2>4, <2>5, AddressFold!FoldKeeps
  <2>. QED BY <2>3, <2>6 DEF AddressGood
<1>. QED BY <1>1, <1>2

\* The OPT record has no name that is written.
LEMMA OptAdded ==
  ASSUME NEW m, Sound(m), NEW rcode
  PROVE  LET n == AddOpt(m, rcode)
         IN  Adds(m, n) /\ n.ar = m.ar
<1>. DEFINE rr == [sect |-> "additional", name |-> <<>>, type |-> "OPT", data |-> rcode, local |-> FALSE]
            w == [m EXCEPT !.sz = @ + 11]  n == AddOpt(m, rcode)
<1>1. Core(m) /\ DOMAIN m = {"sz", "rrs", "text", "cb", "sva", "ar"} /\ m.sz \in Nat
  BY DEF Sound, Core, Shape
<1>2. Core(w) /\ Extends(m, w)
  BY <1>1, Wider
<1>3. /\ w.sz = m.sz + 11 /\ w.rrs = m.rrs /\ w.text = m.text /\ w.cb = m.cb /\ w.sva = m.sva /\ w.ar = m.ar
      /\ DOMAIN w = DOMAIN m
  BY <1>1
<1>4. rr.sect = "additional" /\ rr.type = "OPT"
  OBVIOUS
<1>5. /\ n.sz = m.sz + 11 /\ n.rrs = Append(m.rrs, rr) /\ n.text = m.text /\ n.cb = m.cb /\ n.sva = m.sva /\ n.ar = m.ar
      /\ DOMAIN n = DOMAIN m
  BY <1>1 DEF AddOpt, OptSize
<1>. HIDE DEF rr, w, n
<1>6. IsList(n.rrs) /\ IsList(m.rrs)
  BY <1>1, <1>5, Appended DEF Core, Shape
<1>7. Core(n) /\ Grows(m, n)
  BY <1>2, <1>3, <1>5, <1>6 DEF Core, Shape, Extends, Grows
<1>8. AddedRr(m, n, rr)
  BY <1>4, <1>5 DEF AddedRr, Added, TAKEN
<1>9. Sound(n)
  BY <1>5, <1>7, <1>8, SoundStays
<1>10. AnswersLocal(m) => AnswersLocal(n)
  BY <1>4, <1>5, <1>6, LocalStays
<1>. QED BY <1>5, <1>7, <1>9, <1>10 DEF Adds, n

HostOp(found, udp, z, acc, re) == AddHost(acc, re, found, udp)
HostGood(found, udp, z, base, k, acc) == Adds(base, acc)
HostFold == INSTANCE FoldFacts WITH Op <- HostOp, Good <- HostGood

LEMMA AdditionalsAdded ==
  ASSUME NEW m, Sound(m), HostsKnown(m), NEW found, NEW edns, NEW udp,
         \A n \in Hosts(m) : found[n] = Nothing \/ (IsEntry(found[n]) /\ found[n].qname = n)
  PROVE  Adds(m, AddAdditionals(m, found, edns, udp))
<1>. DEFINE base == IF edns THEN AddOpt(m, "OK") ELSE m  s == m.ar
<1>1. CASE udp # Nothing /\ m.sz + OptSize > udp.max
  BY <1>1, AddsNot DEF AddAdditionals
<1>2. CASE ~(udp # Nothing /\ m.sz + OptSize > udp.max)
  <2>1. Adds(m, base)
    BY OptAdded, AddsNot
  <2>2. Len(s) \in Nat /\ DOMAIN s = 1..Len(s)
    BY Lists DEF Sound, Core, Shape
  <2>3. AddAdditionals(m, found, edns, udp) = HostFold!Folded(found, udp, 0, base, s)
    BY <1>2 DEF AddAdditionals, HostFold!Folded, HostOp, FoldLeft, MapThenFoldSet,
         HostFold!FoldLeft, HostFold!MapThenFoldSet, Max, HostFold!Max
  <2>4. \A k \in 1..Len(s) : s[k].tp # "SOA" =>
          /\ InCb(m, s[k].name)
          /\ found[s[k].name] = Nothing \/ (IsEntry(found[s[k].name]) /\ found[s[k].name].qname = s[k].name)
    BY <2>2 DEF HostsKnown, Hosts
  <2>. HIDE DEF base, s
  <2>5. HostGood(found, udp, 0, base, 0, base)
    BY <2>1, AddsNot DEF HostGood, Adds
  <2>6. ASSUME NEW k \in 1..Len(s), NEW a, HostGood(found, udp, 0, base, k - 1, a)
        PROVE  HostGood(found, udp, 0, base, k, HostOp(found, udp, 0, a, s[k]))
    <3>. DEFINE ent == found[s[k].name]  n == AddHost(a, s[k], found, udp)
    <3>1. Adds(base, a) /\ Sound(a) /\ Sound(base)
      BY <2>1, <2>6 DEF HostGood, Adds
    <3>2. Adds(a, n)
      <4>1. CASE s[k].tp = "SOA" \/ ent = Nothing
        BY <4>1, <3>1, AddsNot DEF AddHost, AddAdditionalA
      <4>2. CASE s[k].tp # "SOA" /\ ent # Nothing
        <5>. DEFINE b == AddAddresses(a, "A", ent, udp)
        <5>1. n = AddAddresses(b, "AAAA", ent, udp)
          BY <4>2 DEF AddHost, AddAdditionalA
        <5>2. InCb(m, ent.qname) /\ IsEntry(ent)
          BY <4>2, <2>4
        <5>. HIDE DEF n, ent
        <5>3. Adds(m, a)
          BY <2>1, <3>1, AddsTwice
        <5>4. InCb(a, ent.qname)
          BY <5>2, <5>3, <3>1, RememberedStays DEF Adds, Sound
        <5>5. Adds(a, b)
          BY <5>2, <5>4, <3>1, AddressesAdded
        <5>. HIDE DEF b
        <5>6. Sound(b) /\ InCb(b, ent.qname)
          BY <5>4, <5>5, <3>1, RememberedStays DEF Adds, Sound
        <5>7. Adds(b, n)
          BY <5>1, <5>2, <5>6, AddressesAdded
        <5>. QED BY <5>5, <5>7, <3>1, AddsTwice
      <4>. QED BY <4>1, <4>2
    <3>. HIDE DEF n
    <3>3. Adds(base, n)
      BY <3>1, <3>2, AddsTwice
    <3>. QED BY <3>3 DEF HostGood, HostOp, n
  <2>7. HostGood(found, udp, 0, base, Len(s), HostFold!Folded(found, udp, 0, base, s))
    BY <2>2, <2>5, <2>6, HostFold!FoldKeeps
  <2>8. Adds(base, AddAdditionals(m, found, edns, udp))
    BY <2>3, <2>7 DEF HostGood
  <2>. QED BY <2>1, <2>8, AddsTwice
<1>. QED BY <1>1, <1>2

-----------------------------------------------------------------------------
(* An answer that denies what it is asked for. *)

\* A message that can be sent.
Fine(m) == Core(m) /\ NoRepeats(m.rrs)

LEMMA OptIsFine ==
  ASSUME NEW m, Fine(m), NEW rcode
  PROVE  Fine(AddOpt(m, rcode))
<1>. DEFINE rr == [sect |-> "additional", name |-> <<>>, type |-> "OPT", data |-> rcode, local |-> FALSE]
            w == [m EXCEPT !.sz = @ + 11]  n == AddOpt(m, rcode)
<1>1. Core(m) /\ DOMAIN m = {"sz", "rrs", "text", "cb", "sva", "ar"} /\ m.sz \in Nat /\ IsList(m.rrs)
  BY DEF Fine, Core, Shape
<1>2. Core(w)
  BY <1>1, Wider
<1>3. /\ w.sz = m.sz + 11 /\ w.rrs = m.rrs /\ w.text = m.text /\ w.cb = m.cb /\ w.sva = m.sva /\ w.ar = m.ar
      /\ DOMAIN w = DOMAIN m
  BY <1>1
<1>4. rr.type = "OPT"
  OBVIOUS
<1>5. /\ n.sz = m.sz + 11 /\ n.rrs = Append(m.rrs, rr) /\ n.text = m.text /\ n.cb = m.cb /\ n.sva = m.sva /\ n.ar = m.ar
      /\ DOMAIN n = DOMAIN m
  BY <1>1 DEF AddOpt, OptSize
<1>. HIDE DEF rr, w, n
<1>6. IsList(n.rrs) /\ Len(n.rrs) = Len(m.rrs) + 1 /\ (\A k \in 1..Len(m.rrs) : n.rrs[k] = m.rrs[k])
      /\ n.rrs[Len(m.rrs) + 1] = rr /\ Len(m.rrs) \in Nat
  BY <1>1, <1>5, Appended, Lists
<1>7. Core(n)
  BY <1>2, <1>3, <1>5, <1>6 DEF Core, Shape
<1>8. NoRepeats(n.rrs)
  <2>1. ASSUME NEW i \in 1..Len(n.rrs), NEW k \in 1..Len(n.rrs), i < k, n.rrs[k].sect # "answer", n.rrs[k].type # "OPT"
        PROVE  ~Repeats(n.rrs, i, k)
    <3>1. k # Len(m.rrs) + 1
      BY <2>1, <1>4, <1>6
    <3>2. k \in 1..Len(m.rrs) /\ i \in 1..Len(m.rrs)
      BY <3>1, <2>1, <1>6
    <3>3. n.rrs[k] = m.rrs[k] /\ n.rrs[i] = m.rrs[i]
      BY <3>2, <1>6
    <3>4. ~Repeats(m.rrs, i, k)
      BY <2>1, <3>2, <3>3 DEF Fine, NoRepeats
    <3>. QED BY <3>3, <3>4 DEF Repeats
  <2>. QED BY <2>1 DEF NoRepeats
<1>. QED BY <1>7, <1>8 DEF Fine, n

SoaOp(soa, udp, z, acc, data) == AddRr(acc, Rr("authority", soa.qname, "SOA", data, soa), udp)
SoaGood(soa, udp, z, base, k, acc) ==
  /\ Core(acc) /\ Len(acc.rrs) = Len(base.rrs) + k
  /\ \A i \in 1..Len(base.rrs) : acc.rrs[i] = base.rrs[i]
  /\ \A i \in 1..k : acc.rrs[Len(base.rrs) + i] = Rr("authority", soa.qname, "SOA", soa.sets["SOA"].rrs[i], soa)
SoaFold == INSTANCE FoldFacts WITH Op <- SoaOp, Good <- SoaGood

LEMMA SoaStep ==
  ASSUME NEW m, Core(m), NEW soa, IsEntry(soa), Has(soa, "SOA"), NEW udp,
         NEW k \in 1..Len(soa.sets["SOA"].rrs), NEW a, SoaGood(soa, udp, 0, m, k - 1, a)
  PROVE  SoaGood(soa, udp, 0, m, k, SoaOp(soa, udp, 0, a, soa.sets["SOA"].rrs[k]))
<1>. DEFINE s == soa.sets["SOA"].rrs  rr == Rr("authority", soa.qname, "SOA", s[k], soa)  n == AddRr(a, rr, udp)
            L == Len(m.rrs)
<1>1. IsList(s) /\ Len(s) \in Nat /\ DOMAIN s = 1..Len(s) /\ IsData("SOA", s[k]) /\ IsList(soa.qname)
  BY Lists DEF IsEntry, Has
<1>2. k \in Nat /\ L \in Nat /\ k - 1 \in Nat
  BY <1>1, Lists DEF Core, Shape
<1>3. /\ Core(a) /\ Len(a.rrs) = L + (k - 1) /\ (\A i \in 1..L : a.rrs[i] = m.rrs[i])
      /\ \A i \in 1..k - 1 : a.rrs[L + i] = Rr("authority", soa.qname, "SOA", s[i], soa)
  BY DEF SoaGood
<1>4. rr.sect = "authority" /\ rr.name = soa.qname /\ rr.type = "SOA" /\ rr.data = s[k]
  BY DEF Rr
<1>. HIDE DEF rr, s
<1>5. Core(n) /\ n.rrs = Append(a.rrs, rr)
  BY <1>1, <1>3, <1>4, RrAdded
<1>. HIDE DEF n
<1>6. IsList(a.rrs)
  BY <1>3 DEF Core, Shape
<1>7. /\ Len(n.rrs) = Len(a.rrs) + 1 /\ (\A i \in 1..Len(a.rrs) : n.rrs[i] = a.rrs[i]) /\ n.rrs[Len(a.rrs) + 1] = rr
  BY <1>5, <1>6, Appended
<1>. HIDE DEF L
<1>8. Len(n.rrs) = L + k
  BY <1>2, <1>3, <1>7
<1>9. \A i \in 1..L : n.rrs[i] = m.rrs[i]
  BY <1>2, <1>3, <1>7
<1>10. ASSUME NEW i \in 1..k PROVE n.rrs[L + i] = Rr("authority", soa.qname, "SOA", s[i], soa)
  <2>1. CASE i = k
    <3>1. L + i = Len(a.rrs) + 1
      BY <2>1, <1>2, <1>3
    <3>. QED BY <2>1, <3>1, <1>7 DEF rr
  <2>2. CASE i # k
    <3>1. i \in 1..k - 1 /\ L + i \in 1..Len(a.rrs)
      BY <2>2, <1>2, <1>3
    <3>. QED BY <3>1, <1>3, <1>7
  <2>. QED BY <2>1, <2>2
<1>11. SoaGood(soa, udp, 0, m, k, n)
  BY <1>5, <1>8, <1>9, <1>10 DEF SoaGood, L, s
<1>. QED BY <1>11 DEF SoaOp, n, rr, s

\* Nothing but answers before it: the SOA records of the zone that denies the name are not repeated.
LEMMA SoaIsFine ==
  ASSUME NEW m, Sound(m), AllAnswers(m), NEW soa, soa = Nothing \/ IsEntry(soa), NEW udp
  PROVE  Fine(AddSoa(m, soa, udp))
<1>1. CASE ~Positive(soa, "SOA")
  BY <1>1 DEF AddSoa, Fine, Sound
<1>2. CASE Positive(soa, "SOA")
  <2>. DEFINE s == soa.sets["SOA"].rrs  n == AddSoa(m, soa, udp)  L == Len(m.rrs)
  <2>1. IsEntry(soa) /\ Has(soa, "SOA") /\ Core(m)
    BY <1>2 DEF Positive, Sound
  <2>2. /\ IsList(s) /\ Len(s) \in Nat /\ DOMAIN s = 1..Len(s) /\ \A i, k \in DOMAIN s : i # k => s[i] # s[k]
    BY <2>1, Lists DEF IsEntry, Has
  <2>3. n = SoaFold!Folded(soa, udp, 0, m, s)
    BY <1>2 DEF AddSoa, SoaFold!Folded, SoaOp, FoldLeft, MapThenFoldSet,
         SoaFold!FoldLeft, SoaFold!MapThenFoldSet, Max, SoaFold!Max
  <2>. HIDE DEF n
  <2>4. L \in Nat
    BY <2>1, Lists DEF Core, Shape
  <2>5. SoaGood(soa, udp, 0, m, 0, m)
    BY <2>1, <2>4 DEF SoaGood
  <2>6. ASSUME NEW k \in 1..Len(s), NEW a, SoaGood(soa, udp, 0, m, k - 1, a)
        PROVE  SoaGood(soa, udp, 0, m, k, SoaOp(soa, udp, 0, a, s[k]))
    BY <2>6, <2>1, SoaStep
  <2>. HIDE DEF s
  <2>7. SoaGood(soa, udp, 0, m, Len(s), n)
    BY <2>2, <2>3, <2>5, <2>6, SoaFold!FoldKeeps
  <2>8. /\ Core(n) /\ Len(n.rrs) = L + Len(s) /\ (\A i \in 1..L : n.rrs[i] = m.rrs[i])
        /\ \A i \in 1..Len(s) : n.rrs[L + i] = Rr("authority", soa.qname, "SOA", s[i], soa)
    BY <2>7 DEF SoaGood, s
  <2>. HIDE DEF L
  <2>9. ASSUME NEW i \in 1..Len(n.rrs), NEW k \in 1..Len(n.rrs), i < k, n.rrs[k].sect # "answer", Repeats(n.rrs, i, k)
        PROVE  FALSE
    <3>1. k \notin 1..L
      BY <2>8, <2>9 DEF AllAnswers, L
    <3>2. k - L \in 1..Len(s) /\ L + (k - L) = k
      BY <3>1, <2>8, <2>4, <2>2
    <3>3. n.rrs[k] = Rr("authority", soa.qname, "SOA", s[k - L], soa)
      <4>1. n.rrs[L + (k - L)] = Rr("authority", soa.qname, "SOA", s[k - L], soa)
        BY <3>2, <2>8
      <4>. QED BY <4>1, <3>2
    <3>4. n.rrs[k].type = "SOA" /\ n.rrs[k].data = s[k - L]
      BY <3>3 DEF Rr
    <3>5. n.rrs[i].sect # "answer" /\ n.rrs[i].data = n.rrs[k].data
      BY <2>9, <3>4 DEF Repeats, Once
    <3>6. i \notin 1..L
      BY <3>5, <2>8 DEF AllAnswers, L
    <3>7. i - L \in 1..Len(s) /\ L + (i - L) = i /\ i - L # k - L
      BY <3>6, <2>8, <2>9, <2>4, <2>2
    <3>8. n.rrs[i] = Rr("authority", soa.qname, "SOA", s[i - L], soa)
      <4>1. n.rrs[L + (i - L)] = Rr("authority", soa.qname, "SOA", s[i - L], soa)
        BY <3>7, <2>8
      <4>. QED BY <4>1, <3>7
    <3>9. n.rrs[i].data = s[i - L]
      BY <3>8 DEF Rr
    <3>. QED BY <3>2, <3>4, <3>5, <3>7, <3>9, <2>2
  <2>10. NoRepeats(n.rrs)
    BY <2>9 DEF NoRepeats
  <2>11. Fine(n)
    BY <2>8, <2>10 DEF Fine
  <2>. QED BY <2>11 DEF n
<1>. QED BY <1>1, <1>2

LEMMA DeniedIsFine ==
  ASSUME NEW m, Sound(m), AllAnswers(m), NEW soa, soa = Nothing \/ IsEntry(soa), NEW rcode, NEW edns, NEW udp
  PROVE  Fine(Denied(m, rcode, soa, edns, udp))
<1>1. Fine(m) /\ Fine(AddSoa(m, soa, udp))
  BY SoaIsFine DEF Sound, Fine
<1>2. Fine(AddOpt(AddSoa(m, soa, udp), rcode))
  BY <1>1, OptIsFine
<1>. QED BY <1>1, <1>2 DEF Denied

-----------------------------------------------------------------------------
(* What process_query() finds of a query. *)

LEMMA LeastTest ==
  ASSUME NEW n \in Nat, NEW t, t \subseteq 1..n, t # {}
  PROVE  Min(t) \in t /\ \A y \in t : Min(t) <= y
<1>. DEFINE u == {n + 1 - x : x \in t}
<1>0. \A x \in t : n + 1 - x \in 1..n
  OBVIOUS
<1>1. u \subseteq 1..n /\ u # {}
  BY <1>0
<1>. DEFINE m == Max(u)
<1>. HIDE DEF u
<1>2. m \in u /\ \A y \in u : y <= m
  BY <1>1, Looking!MaxExists DEF Looking!Max, Max
<1>. HIDE DEF m
<1>3. PICK x \in t : m = n + 1 - x
  BY <1>2 DEF u
<1>4. \A y \in t : n + 1 - y \in u
  BY DEF u
<1>5. \A y \in t : x <= y
  <2>1. ASSUME NEW y \in t PROVE x <= y
    <3>1. n + 1 - y <= n + 1 - x
      BY <1>2, <1>3, <1>4
    <3>. QED BY <3>1
  <2>. QED BY <2>1
<1>6. \A y \in t : y \in Int
  OBVIOUS
<1>. QED BY <1>5, <1>6 DEF Min

\* A query is answered only if it asks something.
LEMMA Unobjected ==
  ASSUME NEW q, Objection(q) = "none"
  PROVE  q.qs # <<>>
<1>. DEFINE tests == Objections(q)  S == {k \in DOMAIN tests : tests[k][1]}
<1>1. DOMAIN tests = 1..14
  BY DEF Objections
<1>2. tests[14][1] /\ (tests[13][1] <=> q.qs = <<>>)
  BY DEF Objections
<1>3. /\ tests[1][2] = "discard" /\ tests[2][2] = "FORMAT" /\ tests[3][2] = "discard" /\ tests[4][2] = "NOTSUPP"
      /\ tests[5][2] = "FORMAT" /\ tests[6][2] = "discard" /\ tests[7][2] = "FORMAT"
      /\ tests[9][2] = "FORMAT" /\ tests[10][2] = "FORMAT" /\ tests[11][2] = "BADVERS" /\ tests[12][2] = "FORMAT"
      /\ tests[13][2] = "FORMAT"
  BY DEF Objections
<1>10. tests[8][1] => tests[8][2] \in {"FORMAT", "SERVFAIL"}
  BY DEF Objections
<1>. HIDE DEF tests
<1>11. ASSUME NEW k \in 1..13, tests[k][1] PROVE tests[k][2] # "none"
  <2>1. k \in {1, 2, 3, 4, 5, 6, 7, 8, 9, 10, 11, 12, 13}
    OBVIOUS
  <2>. QED BY <2>1, <1>3, <1>10, <1>11
<1>4. S \subseteq 1..14 /\ 14 \in S
  BY <1>1, <1>2
<1>5. Min(S) \in S /\ \A y \in S : Min(S) <= y
  BY <1>4, LeastTest
<1>6. tests[Min(S)][2] = "none"
  BY DEF Objection, First, tests
<1>7. Min(S) \in 1..14 /\ tests[Min(S)][1]
  BY <1>1, <1>5
<1>8. Min(S) = 14
  BY <1>11, <1>6, <1>7
<1>9. 13 \notin S
  BY <1>5, <1>8
<1>. QED BY <1>1, <1>2, <1>9

LEMMA UdpMaxNat ==
  ASSUME NEW q, IsQuery(q)
  PROVE  /\ UdpMax(q) \in Nat
         /\ UdpMax(q) <= UDP_BUFSIZE \/ (q.opts # <<>> /\ UdpMax(q) <= q.opts[1].udpsize /\ UdpMax(q) <= udpbufsize)
<1>1. q.opts # <<>> => q.opts[1].udpsize \in Nat
  BY Lists DEF IsQuery
<1>2. CASE q.opts # <<>> /\ q.opts[1].udpsize > UDP_BUFSIZE
  <2>1. UdpMax(q) = Min({q.opts[1].udpsize, udpbufsize})
    BY <1>2 DEF UdpMax
  <2>. QED BY <1>1, <1>2, <2>1, Minimum, SizesAssumption
<1>3. CASE ~(q.opts # <<>> /\ q.opts[1].udpsize > UDP_BUFSIZE)
  BY <1>3, SizesAssumption DEF UdpMax
<1>. QED BY <1>2, <1>3

-----------------------------------------------------------------------------
(* Jobs. *)

Fields == {"at", "proto", "request", "m", "qi", "qname", "hops", "aa", "ent", "reply"}

\* A reply that can be sent.
Sendable(reply) ==
  /\ DOMAIN reply = {"rcode", "aa", "tc", "m"}
  /\ Fine(reply.m) /\ (reply.aa => AnswersLocal(reply.m))

\* A reply that is sent.
Sent(j) ==
  /\ \A k \in DOMAIN j.reply.m.text : Readable(j.reply.m.text, k)
  /\ NoRepeats(j.reply.m.rrs) /\ DOMAIN j.reply.m.rrs = 1..Len(j.reply.m.rrs)
  /\ j.reply.aa => AnswersLocal(j.reply.m)
  /\ j.proto = "udp" => j.reply.m.sz <= UdpMax(Query(j)) /\ j.reply.m.sz \in Nat

\* A job of some client.
OfClient(j) == DOMAIN j = Fields /\ j.proto \in Servers /\ j.request \in Requests[j.proto]

\* An answer that is being composed.
Composing(j) ==
  /\ j.reply = Nothing /\ Sound(j.m) /\ AllAnswers(j.m) /\ (j.aa => AnswersLocal(j.m))
  /\ j.qi \in 1..Len(Query(j).qs) /\ IsList(j.qname)

JobGood(j) ==
  /\ OfClient(j)
  /\ \/ j.at \in {"read", "process"} /\ j.m = NoMessage /\ j.reply = Nothing /\ j.aa = TRUE /\ j.qi = 1
     \/ j.at \in {"resolve", "sections"} /\ Composing(j)
     \/ j.at = "authority" /\ Composing(j) /\ IsEntry(j.ent)
     \/ j.at = "over" /\ j.m = NoMessage /\ (j.reply = Nothing \/ Sent(j))

JobAt(p, j) ==
  /\ p = "none" => j = NoJob
  /\ p \in {"started", "queued"} => j.at = "waiting" /\ j.proto \in Servers
  /\ p = "active" => JobGood(j)

Jobs == job = [w \in Workers |-> job[w]] /\ \A w \in Workers : JobAt(pc[w], job[w])

LEMMA Queries ==
  ASSUME NEW j, OfClient(j)
  PROVE  /\ IsQuery(Query(j)) /\ Len(Query(j).qs) \in Nat
         /\ \A k \in 1..Len(Query(j).qs) : IsList(Query(j).qs[k].name)
<1>1. IsQuery(Query(j))
  BY RequestsAssumption DEF OfClient, Query
<1>. QED BY <1>1, Lists DEF IsQuery

LEMMA UdpIs == ASSUME NEW j, j.proto = "udp" PROVE Udp(j) # Nothing /\ Udp(j).max = UdpMax(Query(j))
<1>1. Udp(j) = [max |-> UdpMax(Query(j))]
  BY DEF Udp
<1>2. DOMAIN Udp(j) = {"max"} /\ DOMAIN Nothing = {"none"} /\ Udp(j).max = UdpMax(Query(j))
  BY <1>1 DEF Nothing
<1>3. {"max"} # {"none"}
  OBVIOUS
<1>. QED BY <1>2, <1>3

\* What is cut off a datagram is not what the reply says.
LEMMA JobSends ==
  ASSUME NEW j, OfClient(j), NEW reply, Sendable(reply)
  PROVE  JobGood(Sends(j, reply))
<1>. DEFINE t == Truncated(reply, Udp(j))  n == Sends(j, reply)  cut == Udp(j) # Nothing /\ reply.m.sz > Udp(j).max
<1>1. /\ Core(reply.m) /\ NoRepeats(reply.m.rrs) /\ (reply.aa => AnswersLocal(reply.m))
      /\ IsList(reply.m.rrs) /\ IsList(reply.m.text) /\ reply.m.sz \in Nat
  BY DEF Sendable, Fine, Core, Shape
<1>2. /\ DOMAIN n = DOMAIN j /\ n.at = "over" /\ n.m = NoMessage /\ n.reply = t
      /\ n.proto = j.proto /\ n.request = j.request
  BY DEF Sends, OfClient, Fields
<1>3. t.m.text = reply.m.text /\ t.m.rrs = reply.m.rrs /\ t.aa = reply.aa
      /\ t.m.sz = IF cut THEN Udp(j).max ELSE reply.m.sz
  <2>1. CASE cut
    <3>1. t = [reply EXCEPT !.tc = TRUE, !.m.sz = Udp(j).max]
      BY <2>1 DEF Truncated
    <3>. QED BY <3>1, <2>1 DEF Sendable, Fine, Core, Shape
  <2>2. CASE ~cut
    BY <2>2 DEF Truncated
  <2>. QED BY <2>1, <2>2
<1>. HIDE DEF t, n
<1>4. ASSUME j.proto = "udp" PROVE t.m.sz <= UdpMax(Query(j)) /\ t.m.sz \in Nat
  <2>1. Udp(j) # Nothing /\ Udp(j).max = UdpMax(Query(j)) /\ UdpMax(Query(j)) \in Nat
    BY <1>4, UdpIs, UdpMaxNat, Queries
  <2>. QED BY <2>1, <1>1, <1>3
<1>5. \A k \in DOMAIN t.m.text : Readable(t.m.text, k)
  <2>1. DOMAIN reply.m.text = 1..Len(reply.m.text)
    BY <1>1, Lists
  <2>2. \A k \in 1..Len(reply.m.text) : Readable(reply.m.text, k)
    BY <1>1 DEF Core, Texts
  <2>. QED BY <2>1, <2>2, <1>3
<1>6. NoRepeats(t.m.rrs) /\ DOMAIN t.m.rrs = 1..Len(t.m.rrs)
  BY <1>1, <1>3, Lists
<1>7. t.aa => AnswersLocal(t.m)
  BY <1>1, <1>3 DEF AnswersLocal
<1>8. Query(n) = Query(j)
  BY <1>2 DEF Query
<1>9. Sent(n)
  BY <1>2, <1>4, <1>5, <1>6, <1>7, <1>8 DEF Sent
<1>10. OfClient(n)
  BY <1>2 DEF OfClient
<1>. QED BY <1>2, <1>9, <1>10 DEF JobGood, n

LEMMA JobReplies ==
  ASSUME NEW j, OfClient(j), NEW m, Fine(m), NEW rcode, NEW aa, aa => AnswersLocal(m)
  PROVE  JobGood(Replies(j, rcode, aa, m))
<1>. DEFINE reply == [rcode |-> rcode, aa |-> aa, tc |-> FALSE, m |-> m]
<1>1. DOMAIN reply = {"rcode", "aa", "tc", "m"} /\ reply.aa = aa /\ reply.m = m
  OBVIOUS
<1>. HIDE DEF reply
<1>2. Sendable(reply)
  BY <1>1 DEF Sendable
<1>3. JobGood(Sends(j, reply))
  BY <1>2, JobSends
<1>. QED BY <1>3 DEF Replies, reply

LEMMA JobFails ==
  ASSUME NEW j, OfClient(j), NEW rcode
  PROVE  JobGood(Fails(j, rcode))
<1>. DEFINE reply == ErrorReply(rcode)
<1>1. Fine(NoMessage)
  BY NoMessageIsSound, EmptyIsSound DEF Fine, Sound
<1>2. Fine(AddOpt(NoMessage, rcode))
  BY <1>1, OptIsFine
<1>3. DOMAIN reply = {"rcode", "aa", "tc", "m"} /\ reply.aa = FALSE
      /\ (reply.m = NoMessage \/ reply.m = AddOpt(NoMessage, rcode))
  BY DEF ErrorReply
<1>. HIDE DEF reply
<1>4. Sendable(reply)
  BY <1>1, <1>2, <1>3 DEF Sendable
<1>5. JobGood(Sends(j, reply))
  BY <1>4, JobSends
<1>. QED BY <1>5 DEF Fails, reply

LEMMA JobDiscards ==
  ASSUME NEW j, OfClient(j), j.reply = Nothing
  PROVE  JobGood(Discards(j))
BY DEF Discards, JobGood, OfClient, Fields

LEMMA JobStarts ==
  ASSUME NEW j, OfClient(j), j.reply = Nothing, j.aa = TRUE, j.qi = 1, Query(j).qs # <<>>
  PROVE  JobGood(StartAnswer(j))
<1>. DEFINE m == Begun(Query(j))
<1>1. Sound(m) /\ AllAnswers(m) /\ AnswersLocal(m) /\ IsQuery(Query(j))
  BY Queries, BegunIsSound
<1>2. CASE \E k \in DOMAIN Query(j).qs : ~Supported(Query(j).qs[k])
  <2>1. JobGood(Replies(j, "NOTSUPP", FALSE, m))
    BY <1>1, JobReplies DEF Sound, Fine
  <2>. QED BY <2>1, <1>2 DEF StartAnswer
<1>3. CASE ~\E k \in DOMAIN Query(j).qs : ~Supported(Query(j).qs[k])
  <2>. DEFINE n == [j EXCEPT !.at = "resolve", !.m = m, !.qname = Query(j).qs[1].name]
  <2>1. StartAnswer(j) = n
    BY <1>3 DEF StartAnswer
  <2>2. 1 \in 1..Len(Query(j).qs) /\ IsList(Query(j).qs[1].name)
    BY <1>1, Lists DEF IsQuery
  <2>3. /\ DOMAIN n = Fields /\ n.proto = j.proto /\ n.request = j.request
        /\ n.at = "resolve" /\ n.m = m /\ n.qname = Query(j).qs[1].name /\ n.qi = 1 /\ n.aa = TRUE /\ n.reply = Nothing
    BY DEF OfClient, Fields
  <2>. HIDE DEF n, m
  <2>4. Query(n) = Query(j) /\ OfClient(n)
    BY <2>3 DEF Query, OfClient
  <2>5. Composing(n)
    BY <2>2, <2>3, <2>4, <1>1 DEF Composing
  <2>6. JobGood(n)
    BY <2>3, <2>4, <2>5 DEF JobGood
  <2>. QED BY <2>1, <2>6
<1>. QED BY <1>2, <1>3

LEMMA JobNext ==
  ASSUME NEW j, OfClient(j), Composing(j)
  PROVE  JobGood(NextQuestion(j))
<1>. DEFINE qs == Query(j).qs
<1>1. Len(qs) \in Nat /\ \A k \in 1..Len(qs) : IsList(qs[k].name)
  BY Queries
<1>2. j.qi \in 1..Len(qs)
  BY DEF Composing
<1>3. CASE j.qi < Len(qs)
  <2>. DEFINE n == [j EXCEPT !.qi = @ + 1, !.qname = qs[j.qi + 1].name, !.hops = MAX_HOPS, !.at = "resolve"]
  <2>1. NextQuestion(j) = n
    BY <1>3 DEF NextQuestion
  <2>2. j.qi + 1 \in 1..Len(qs)
    BY <1>1, <1>2, <1>3
  <2>3. /\ DOMAIN n = Fields /\ n.proto = j.proto /\ n.request = j.request /\ n.m = j.m /\ n.aa = j.aa /\ n.reply = j.reply
        /\ n.at = "resolve" /\ n.qi = j.qi + 1 /\ n.qname = qs[j.qi + 1].name
    BY DEF OfClient, Fields
  <2>. HIDE DEF n
  <2>4. Query(n) = Query(j) /\ OfClient(n)
    BY <2>3 DEF Query, OfClient
  <2>5. Composing(n)
    BY <1>1, <2>2, <2>3, <2>4 DEF Composing
  <2>6. JobGood(n)
    BY <2>3, <2>4, <2>5 DEF JobGood
  <2>. QED BY <2>1, <2>6
<1>4. CASE ~(j.qi < Len(qs))
  <2>. DEFINE n == [j EXCEPT !.at = "sections"]
  <2>1. NextQuestion(j) = n
    BY <1>4 DEF NextQuestion
  <2>2. /\ DOMAIN n = Fields /\ n.proto = j.proto /\ n.request = j.request /\ n.m = j.m /\ n.aa = j.aa /\ n.reply = j.reply
        /\ n.at = "sections" /\ n.qi = j.qi /\ n.qname = j.qname
    BY DEF OfClient, Fields
  <2>. HIDE DEF n
  <2>3. Query(n) = Query(j) /\ OfClient(n)
    BY <2>2 DEF Query, OfClient
  <2>4. Composing(n)
    BY <2>2, <2>3 DEF Composing
  <2>5. JobGood(n)
    BY <2>2, <2>3, <2>4 DEF JobGood
  <2>. QED BY <2>1, <2>5
<1>. QED BY <1>3, <1>4

\* An entry that is found goes into the answer.
LEMMA EntryTaken ==
  ASSUME NEW j, OfClient(j), Composing(j), NEW ent, IsEntry(ent)
  PROVE  LET n == WithEntry(j, ent)
         IN  /\ OfClient(n) /\ Composing(n) /\ n.ent = ent
             /\ n.qi = j.qi /\ Query(n) = Query(j)
<1>. DEFINE n == WithEntry(j, ent)  local == "LOCAL" \in ent.flags
            m == AddToResponse(j.m, j.qname, Question(j).type, ent, Udp(j))
<1>1. Answers(local, j.m, m)
  BY ResponseAdded DEF Composing
<1>2. /\ DOMAIN n = Fields /\ n.proto = j.proto /\ n.request = j.request /\ n.reply = j.reply
      /\ n.qi = j.qi /\ n.qname = j.qname /\ n.ent = ent /\ n.m = m /\ (n.aa <=> j.aa /\ local)
  BY DEF OfClient, Fields, WithEntry
<1>. HIDE DEF n, m
<1>3. Query(n) = Query(j) /\ OfClient(n)
  BY <1>2 DEF Query, OfClient
<1>4. Sound(m) /\ AllAnswers(m) /\ (local /\ AnswersLocal(j.m) => AnswersLocal(m))
  BY <1>1 DEF Answers
<1>5. Composing(n)
  BY <1>2, <1>3, <1>4 DEF Composing
<1>. QED BY <1>2, <1>3, <1>5 DEF n

LEMMA AliasIsName ==
  ASSUME NEW ent, IsEntry(ent), HaveRr(ent, "CNAME")
  PROVE  IsList(Alias(ent))
<1>. DEFINE s == ent.sets["CNAME"].rrs
<1>1. IsList(s) /\ s # <<>> /\ \A k \in DOMAIN s : IsData("CNAME", s[k])
  BY DEF IsEntry, HaveRr, Has
<1>2. 1 \in DOMAIN s
  BY <1>1, Lists
<1>3. IsData("CNAME", s[1])
  BY <1>1, <1>2
<1>. HIDE DEF s
<1>4. IsList(s[1]) /\ s[1] # <<>> /\ s[1][1].kind = "n" /\ \A k \in DOMAIN s[1] : IsPart(s[1][k])
  BY <1>3 DEF IsData
<1>5. IsPart(s[1][1])
  BY <1>4, Lists
<1>6. IsList(s[1][1].v)
  BY <1>4, <1>5 DEF IsPart
<1>. QED BY <1>6 DEF Alias, s

LEMMA JobFollows ==
  ASSUME NEW j, OfClient(j), Composing(j), j.at = "resolve", NEW ent, IsEntry(ent)
  PROVE  JobGood(Follows(j, ent))
<1>. DEFINE k == WithEntry(j, ent)  alias == FollowsAlias(Query(j), Question(j).type, ent)
<1>1. OfClient(k) /\ Composing(k) /\ k.ent = ent /\ k.qi = j.qi /\ Query(k) = Query(j)
  BY EntryTaken
<1>2. k.at = "resolve"
  BY DEF WithEntry, OfClient, Fields
<1>. HIDE DEF k
<1>3. CASE alias /\ j.hops > 0
  <2>. DEFINE n == [k EXCEPT !.qname = Alias(ent), !.hops = @ - 1]
  <2>1. Follows(j, ent) = n
    BY <1>3 DEF Follows, k
  <2>2. /\ DOMAIN n = Fields /\ n.proto = k.proto /\ n.request = k.request /\ n.m = k.m /\ n.aa = k.aa /\ n.reply = k.reply
        /\ n.at = "resolve" /\ n.qi = k.qi /\ n.qname = Alias(ent)
    BY <1>1, <1>2 DEF OfClient, Fields
  <2>. HIDE DEF n
  <2>3. IsList(Alias(ent))
    BY <1>3, AliasIsName DEF FollowsAlias
  <2>4. Query(n) = Query(k) /\ OfClient(n)
    BY <2>2, <1>1 DEF Query, OfClient
  <2>5. Composing(n)
    BY <2>2, <2>3, <2>4, <1>1 DEF Composing
  <2>6. JobGood(n)
    BY <2>2, <2>4, <2>5 DEF JobGood
  <2>. QED BY <2>1, <2>6
<1>4. CASE alias /\ ~(j.hops > 0)
  <2>1. Follows(j, ent) = NextQuestion(k)
    BY <1>4 DEF Follows, k
  <2>. QED BY <2>1, <1>1, JobNext
<1>5. CASE ~alias
  <2>. DEFINE n == [k EXCEPT !.at = "authority"]
  <2>1. Follows(j, ent) = n
    BY <1>5 DEF Follows, k
  <2>2. /\ DOMAIN n = Fields /\ n.proto = k.proto /\ n.request = k.request /\ n.m = k.m /\ n.aa = k.aa /\ n.reply = k.reply
        /\ n.at = "authority" /\ n.qi = k.qi /\ n.qname = k.qname /\ n.ent = k.ent
    BY <1>1 DEF OfClient, Fields
  <2>. HIDE DEF n
  <2>3. Query(n) = Query(k) /\ OfClient(n)
    BY <2>2, <1>1 DEF Query, OfClient
  <2>4. Composing(n)
    BY <2>2, <2>3, <1>1 DEF Composing
  <2>5. JobGood(n)
    BY <2>2, <2>3, <2>4, <1>1 DEF JobGood
  <2>. QED BY <2>1, <2>5
<1>. QED BY <1>3, <1>4, <1>5

LEMMA JobRefuses ==
  ASSUME NEW j, OfClient(j), Composing(j), NEW rc, NEW soa, soa = Nothing \/ IsEntry(soa)
  PROVE  JobGood(Refuses(j, rc, soa))
<1>1. Fine(Denied(j.m, rc, soa, Edns(j), Udp(j)))
  BY DeniedIsFine DEF Composing
<1>2. JobGood(Replies(j, rc, FALSE, Denied(j.m, rc, soa, Edns(j), Udp(j))))
  BY <1>1, JobReplies
<1>. QED BY <1>2 DEF Refuses

LEMMA JobNamesAuthority ==
  ASSUME NEW j, OfClient(j), Composing(j), NEW type \in {"NS", "SOA"}, NEW ent, ent = Nothing \/ (IsEntry(ent) /\ Has(ent, type))
  PROVE  JobGood(NextQuestion([j EXCEPT !.m = WithAuthority(@, type, ent), !.ent = Nothing]))
<1>. DEFINE n == [j EXCEPT !.m = WithAuthority(@, type, ent), !.ent = Nothing]  m == WithAuthority(j.m, type, ent)
<1>1. Sound(m) /\ AllAnswers(m) /\ m.rrs = j.m.rrs
  BY AuthorityPlanned DEF Composing
<1>2. /\ DOMAIN n = Fields /\ n.proto = j.proto /\ n.request = j.request /\ n.m = m /\ n.aa = j.aa /\ n.reply = j.reply
      /\ n.qi = j.qi /\ n.qname = j.qname
  BY DEF OfClient, Fields
<1>. HIDE DEF n, m
<1>3. Query(n) = Query(j) /\ OfClient(n)
  BY <1>2 DEF Query, OfClient
<1>4. AnswersLocal(j.m) => AnswersLocal(m)
  BY <1>1 DEF AnswersLocal
<1>5. Composing(n)
  BY <1>1, <1>2, <1>3, <1>4 DEF Composing
<1>6. JobGood(NextQuestion(n))
  BY <1>3, <1>5, JobNext
<1>. QED BY <1>6 DEF n

LEMMA JobComposes ==
  ASSUME NEW j, OfClient(j), Composing(j), NEW found,
         \A n \in Hosts(AddAuthorities(j.m, Udp(j))) : found[n] \in Found(n)
  PROVE  JobGood(Replies(j, "OK", j.aa, AddAdditionals(AddAuthorities(j.m, Udp(j)), found, Edns(j), Udp(j))))
<1>. DEFINE m == AddAuthorities(j.m, Udp(j))  a == AddAdditionals(m, found, Edns(j), Udp(j))
<1>1. Adds(j.m, m) /\ HostsKnown(m) /\ Sound(m)
  BY AuthoritiesAdded DEF Composing, Adds
<1>2. \A n \in Hosts(m) : found[n] = Nothing \/ (IsEntry(found[n]) /\ found[n].qname = n)
  BY EntriesAssumption DEF Found, Cached
<1>. HIDE DEF m
<1>3. Adds(m, a)
  BY <1>1, <1>2, AdditionalsAdded
<1>. HIDE DEF a
<1>4. Fine(a) /\ (j.aa => AnswersLocal(a))
  BY <1>1, <1>3 DEF Adds, Sound, Fine, Composing
<1>5. JobGood(Replies(j, "OK", j.aa, a))
  BY <1>4, JobReplies
<1>. QED BY <1>5 DEF a, m

-----------------------------------------------------------------------------
(* Steps. *)

\* One worker moves.
LEMMA JobsMove ==
  ASSUME Jobs, NEW w \in Workers, NEW j, Put(w, j), JobAt(pc'[w], j),
         \A v \in Workers \ {w} : pc'[v] = pc[v]
  PROVE  Jobs'
<1>1. job' = [job EXCEPT ![w] = j] /\ job = [v \in Workers |-> job[v]] /\ \A v \in Workers : JobAt(pc[v], job[v])
  BY DEF Jobs, Put
<1>2. job' = [v \in Workers |-> job'[v]] /\ job'[w] = j /\ \A v \in Workers \ {w} : job'[v] = job[v]
  BY <1>1
<1>3. \A v \in Workers : JobAt(pc'[v], job'[v])
  BY <1>1, <1>2
<1>. QED BY <1>2, <1>3 DEF Jobs

LEMMA JobGoes ==
  ASSUME Jobs, NEW w \in Workers, pc[w] = "active", NEW j, JobGood(j), Goes(w, j)
  PROVE  Jobs'
<1>1. Put(w, j) /\ pc' = pc
  BY DEF Goes, admission
<1>2. JobAt(pc'[w], j)
  BY <1>1 DEF JobAt
<1>. QED BY <1>1, <1>2, JobsMove

LEMMA WorkKeeps ==
  ASSUME Jobs, NEW w \in Workers, Work(w) \/ OutOfMemory(w)
  PROVE  Jobs'
<1>. DEFINE j == job[w]
<1>0. pc[w] = "active" => JobGood(j)
  BY DEF Jobs, JobAt
<1>. HIDE DEF j
<1>1. CASE Reads(w)
  <2>1. pc[w] = "active" /\ j.at = "read"
    BY <1>1 DEF Reads, At, j
  <2>2. OfClient(j) /\ j.m = NoMessage /\ j.reply = Nothing /\ j.aa = TRUE /\ j.qi = 1
    BY <2>1, <1>0 DEF JobGood
  <2>. DEFINE n == [j EXCEPT !.at = "process"]
  <2>3. JobGood(n)
    BY <2>2 DEF JobGood, OfClient, Fields
  <2>. HIDE DEF n
  <2>4. JobGood(Fails(j, "FORMAT")) /\ JobGood(Discards(j))
    BY <2>2, JobFails, JobDiscards
  <2>5. Goes(w, n) \/ Goes(w, Fails(j, "FORMAT")) \/ Goes(w, Discards(j))
    BY <1>1 DEF Reads, j, n
  <2>. QED BY <2>1, <2>3, <2>4, <2>5, JobGoes
<1>2. CASE ProcessQuery(w)
  <2>. DEFINE objection == Objection(Query(j))
  <2>1. pc[w] = "active" /\ j.at = "process"
    BY <1>2 DEF ProcessQuery, At, j
  <2>2. OfClient(j) /\ j.m = NoMessage /\ j.reply = Nothing /\ j.aa = TRUE /\ j.qi = 1
    BY <2>1, <1>0 DEF JobGood
  <2>3. \/ objection = "discard" /\ Goes(w, Discards(j))
        \/ objection = "none" /\ Goes(w, StartAnswer(j))
        \/ Goes(w, Fails(j, objection)) \/ Goes(w, Discards(j))
    BY <1>2 DEF ProcessQuery, Errs, j
  <2>4. objection = "none" => JobGood(StartAnswer(j))
    BY <2>2, Unobjected, JobStarts
  <2>. HIDE DEF objection
  <2>5. JobGood(Discards(j)) /\ JobGood(Fails(j, objection))
    BY <2>2, JobFails, JobDiscards
  <2>. QED BY <2>1, <2>3, <2>4, <2>5, JobGoes
<1>3. CASE OutOfMemory(w)
  <2>1. /\ pc[w] = "active" /\ j.at \in {"resolve", "authority", "sections"}
        /\ Goes(w, Fails(j, "SERVFAIL")) \/ Goes(w, Discards(j))
    BY <1>3 DEF OutOfMemory, Errs, At, j
  <2>2. OfClient(j) /\ j.reply = Nothing
    BY <2>1, <1>0 DEF JobGood, Composing
  <2>3. JobGood(Fails(j, "SERVFAIL")) /\ JobGood(Discards(j))
    BY <2>2, JobFails, JobDiscards
  <2>. QED BY <2>1, <2>3, JobGoes
<1>4. CASE Resolve(w)
  <2>1. pc[w] = "active" /\ j.at = "resolve"
    BY <1>4 DEF Resolve, At, j
  <2>2. OfClient(j) /\ Composing(j)
    BY <2>1, <1>0 DEF JobGood
  <2>3. PICK r \in Resolved(j.qname) :
          \/ r.rc = "OK" /\ Goes(w, Follows(j, r.ent))
          \/ /\ r.rc # "OK"
             /\ \E soa \in IF r.soa < Len(j.qname) THEN Found(Upper(j.qname, r.soa)) ELSE {Nothing} :
                  Goes(w, Refuses(j, r.rc, soa))
    BY <1>4 DEF Resolve, j
  <2>4. CASE r.rc = "OK" /\ Goes(w, Follows(j, r.ent))
    <3>1. IsEntry(r.ent)
      BY <2>4, EntriesAssumption DEF Resolved
    <3>2. JobGood(Follows(j, r.ent))
      BY <2>1, <2>2, <3>1, JobFollows
    <3>. QED BY <2>1, <2>4, <3>2, JobGoes
  <2>5. ASSUME NEW soa \in IF r.soa < Len(j.qname) THEN Found(Upper(j.qname, r.soa)) ELSE {Nothing},
               Goes(w, Refuses(j, r.rc, soa))
        PROVE  Jobs'
    <3>1. soa = Nothing \/ IsEntry(soa)
      <4>1. \A n : \A x \in Found(n) : x = Nothing \/ IsEntry(x)
        BY EntriesAssumption DEF Found, Cached
      <4>. QED BY <2>5, <4>1
    <3>2. JobGood(Refuses(j, r.rc, soa))
      BY <2>2, <3>1, JobRefuses
    <3>. QED BY <2>1, <2>5, <3>2, JobGoes
  <2>. QED BY <2>3, <2>4, <2>5
<1>5. CASE NamesAuthority(w)
  <2>. DEFINE type == AuthorityType(Question(j).type, j.ent)
  <2>1. pc[w] = "active" /\ j.at = "authority"
    BY <1>5 DEF NamesAuthority, At, j
  <2>2. OfClient(j) /\ Composing(j) /\ IsEntry(j.ent)
    BY <2>1, <1>0 DEF JobGood
  <2>3. PICK above \in Found(HigherName(j.ent, type)), own \in LocalOwners(j.ent, type) :
          Goes(w, NextQuestion([j EXCEPT !.m = WithAuthority(@, type, Authority(j.ent, type, above, own)), !.ent = Nothing]))
    BY <1>5 DEF NamesAuthority, j
  <2>4. type \in {"NS", "SOA"}
    BY DEF AuthorityType
  <2>. HIDE DEF type
  <2>5. above = Nothing \/ IsEntry(above)
    BY EntriesAssumption DEF Found, Cached
  <2>6. own = Nothing \/ IsEntry(own)
    BY EntriesAssumption DEF LocalOwners, Cached
  <2>. DEFINE ent == Authority(j.ent, type, above, own)
  <2>7. ent = Nothing \/ (IsEntry(ent) /\ Has(ent, type))
    BY <2>2, <2>5, <2>6, AuthorityNamed
  <2>8. Goes(w, NextQuestion([j EXCEPT !.m = WithAuthority(@, type, ent), !.ent = Nothing]))
    BY <2>3
  <2>. HIDE DEF ent
  <2>9. JobGood(NextQuestion([j EXCEPT !.m = WithAuthority(@, type, ent), !.ent = Nothing]))
    BY <2>2, <2>4, <2>7, JobNamesAuthority
  <2>. QED BY <2>1, <2>8, <2>9, JobGoes
<1>6. CASE Composes(w)
  <2>. DEFINE m == AddAuthorities(j.m, Udp(j))
  <2>1. pc[w] = "active" /\ j.at = "sections"
    BY <1>6 DEF Composes, At, j
  <2>2. OfClient(j) /\ Composing(j)
    BY <2>1, <1>0 DEF JobGood
  <2>3. PICK found : /\ \A n \in Hosts(m) : found[n] \in Found(n)
                     /\ Goes(w, Replies(j, "OK", j.aa, AddAdditionals(m, found, Edns(j), Udp(j))))
    BY <1>6 DEF Composes, j
  <2>4. JobGood(Replies(j, "OK", j.aa, AddAdditionals(m, found, Edns(j), Udp(j))))
    BY <2>2, <2>3, JobComposes
  <2>. QED BY <2>1, <2>3, <2>4, JobGoes
<1>. QED BY <1>1, <1>2, <1>3, <1>4, <1>5, <1>6 DEF Work

LEMMA JobBegins ==
  ASSUME NEW proto \in Servers, NEW r \in Requests[proto]
  PROVE  JobGood(Job(proto, r))
<1>. DEFINE n == Job(proto, r)
<1>1. /\ DOMAIN n = Fields /\ n.proto = proto /\ n.request = r /\ n.at \in {"read", "process"}
      /\ n.m = NoMessage /\ n.reply = Nothing /\ n.aa = TRUE /\ n.qi = 1
  BY DEF Job, Fields
<1>. HIDE DEF n
<1>2. JobGood(n)
  BY <1>1 DEF JobGood, OfClient
<1>. QED BY <1>2 DEF n

LEMMA JobsKept ==
  ASSUME TypeOK, Jobs, [Next]_vars
  PROVE  Jobs'
<1>0. pc = [w \in Workers |-> pc[w]]
  BY DEF TypeOK
<1>1. ASSUME UNCHANGED <<pc, job>> PROVE Jobs'
  BY <1>1 DEF Jobs
<1>2. CASE MainStep /\ UNCHANGED job
  BY <1>1, <1>2 DEF MainStep, StartServer, StartFails
<1>3. ASSUME NEW s \in Servers, UNCHANGED job,
             \/ ServerRunsAs(s) \/ ServerRunAsFails(s)
             \/ Admit(s) \/ CreateFails(s) \/ CloseSocket(s) \/ ServerEnds(s)
      PROVE  Jobs'
  BY <1>1, <1>3 DEF ServerRunsAs, ServerRunAsFails, Admit, CreateFails, CloseSocket, ServerEnds
<1>4. ASSUME NEW s \in Servers, NEW w \in Workers, Created(s, w) PROVE Jobs'
  <2>. DEFINE n == [at |-> "waiting", proto |-> s]
  <2>1. Put(w, n) /\ pc'[w] = "started" /\ \A v \in Workers \ {w} : pc'[v] = pc[v]
    BY <1>0, <1>4 DEF Created, Create
  <2>2. JobAt("started", n)
    BY DEF JobAt
  <2>. HIDE DEF n
  <2>. QED BY <2>1, <2>2, JobsMove
<1>5. ASSUME NEW w \in Workers, Ends(w) \/ Quits(w) PROVE Jobs'
  <2>1. Put(w, NoJob) /\ pc'[w] = "none" /\ \A v \in Workers \ {w} : pc'[v] = pc[v]
    BY <1>0, <1>5 DEF Ends, Quits, Finish, RunAsFails
  <2>2. JobAt("none", NoJob)
    BY DEF JobAt
  <2>. QED BY <2>1, <2>2, JobsMove
<1>6. ASSUME NEW w \in Workers, Begins(w) PROVE Jobs'
  <2>1. pc[w] = "queued" /\ pc'[w] = "active" /\ \A v \in Workers \ {w} : pc'[v] = pc[v]
    BY <1>0, <1>6 DEF Begins, Activate
  <2>2. PICK r \in Requests[job[w].proto] : Put(w, Job(job[w].proto, r))
    BY <1>6 DEF Begins
  <2>3. job[w].proto \in Servers
    BY <2>1 DEF Jobs, JobAt
  <2>. DEFINE n == Job(job[w].proto, r)
  <2>4. JobGood(n)
    BY <2>2, <2>3, JobBegins
  <2>. HIDE DEF n
  <2>5. JobAt("active", n)
    BY <2>4 DEF JobAt
  <2>. QED BY <2>1, <2>2, <2>5, JobsMove DEF n
<1>7. ASSUME NEW w \in Workers, RunAs(w), UNCHANGED job PROVE Jobs'
  <2>1. pc[w] = "started" /\ pc'[w] = "queued" /\ \A v \in Workers \ {w} : pc'[v] = pc[v]
    BY <1>0, <1>7 DEF RunAs
  <2>2. JobAt("queued", job[w])
    BY <2>1 DEF Jobs, JobAt
  <2>3. Put(w, job[w])
    BY <1>7 DEF Put, Jobs
  <2>. QED BY <2>1, <2>2, <2>3, JobsMove
<1>8. CASE UNCHANGED vars
  BY <1>1, <1>8 DEF vars, admission
<1>9. ASSUME NEW w \in Workers, Thread(w) \/ OutOfMemory(w) \/ Quits(w) PROVE Jobs'
  BY <1>5, <1>6, <1>7, <1>9, WorkKeeps DEF Thread
<1>. QED BY <1>2, <1>3, <1>4, <1>8, <1>9 DEF Next

LEMMA JobsInit == ASSUME Init PROVE Jobs
<1>1. pc = [w \in Workers |-> "none"] /\ job = [w \in Workers |-> NoJob]
  BY DEF Init, AdmissionInit
<1>2. \A w \in Workers : pc[w] = "none" /\ job[w] = NoJob
  BY <1>1
<1>. QED BY <1>1, <1>2 DEF Jobs, JobAt

-----------------------------------------------------------------------------
LEMMA ReadableAnswers == ASSUME TypeOK, Jobs PROVE NamesReadable
<1>1. SUFFICES ASSUME NEW w \in Workers, pc[w] = "active",
                      NEW m \in {job[w].m} \union (IF job[w].reply = Nothing THEN {} ELSE {job[w].reply.m}),
                      NEW k \in DOMAIN m.text
               PROVE  Readable(m.text, k)
  BY DEF NamesReadable
<1>. DEFINE j == job[w]
<1>2. JobGood(j)
  BY <1>1 DEF Jobs, JobAt
<1>3. m = j.m \/ (j.reply # Nothing /\ m = j.reply.m)
  BY <1>1
<1>. HIDE DEF j
<1>4. CASE m = j.m
  <2>1. Core(m)
    <3>1. m = NoMessage \/ Composing(j)
      BY <1>2, <1>4 DEF JobGood
    <3>. QED BY <3>1, <1>4, NoMessageIsSound DEF Composing, Sound
  <2>2. k \in 1..Len(m.text)
    BY <2>1, <1>1, Lists DEF Core, Shape
  <2>. QED BY <2>1, <2>2 DEF Core, Texts
<1>5. CASE j.reply # Nothing /\ m = j.reply.m
  <2>1. Sent(j)
    BY <1>2, <1>5 DEF JobGood, Composing
  <2>. QED BY <2>1, <1>5, <1>1 DEF Sent
<1>. QED BY <1>3, <1>4, <1>5

\* What is over has been sent, if there is anything to send.
LEMMA OverIsSent ==
  ASSUME TypeOK, Jobs, NEW w \in Workers, job[w].at = "over", job[w].reply # Nothing
  PROVE  Sent(job[w]) /\ OfClient(job[w])
<1>1. pc[w] \in {"none", "started", "queued", "active"} /\ JobAt(pc[w], job[w])
  BY DEF TypeOK, Jobs
<1>2. pc[w] = "active"
  <2>1. NoJob.at = "none"
    BY DEF NoJob
  <2>. QED BY <2>1, <1>1 DEF JobAt
<1>3. JobGood(job[w])
  BY <1>1, <1>2 DEF JobAt
<1>. QED BY <1>3 DEF JobGood

LEMMA SoundAnswers == ASSUME TypeOK, Jobs PROVE NoDoubles /\ FitsDatagram /\ AuthoritativeIsLocal
<1>1. ASSUME NEW w \in Workers, job[w].at = "over", job[w].reply # Nothing,
             NEW i \in DOMAIN job[w].reply.m.rrs, NEW k \in DOMAIN job[w].reply.m.rrs,
             i < k, job[w].reply.m.rrs[k].sect # "answer", job[w].reply.m.rrs[k].type # "OPT"
      PROVE  ~Repeats(job[w].reply.m.rrs, i, k)
  <2>1. Sent(job[w])
    BY <1>1, OverIsSent
  <2>. QED BY <2>1, <1>1 DEF Sent, NoRepeats
<1>2. NoDoubles
  BY <1>1 DEF NoDoubles
<1>3. ASSUME NEW w \in Workers, job[w].at = "over", job[w].proto = "udp", job[w].reply # Nothing
      PROVE  LET q == Query(job[w])
             IN  \/ job[w].reply.m.sz <= UDP_BUFSIZE
                 \/ q.opts # <<>> /\ job[w].reply.m.sz <= q.opts[1].udpsize /\ job[w].reply.m.sz <= udpbufsize
  <2>. DEFINE q == Query(job[w])  sz == job[w].reply.m.sz
  <2>1. Sent(job[w]) /\ OfClient(job[w])
    BY <1>3, OverIsSent
  <2>2. IsQuery(q)
    BY <2>1, Queries
  <2>3. sz <= UdpMax(q) /\ sz \in Nat
    BY <2>1, <1>3 DEF Sent
  <2>. HIDE DEF q, sz
  <2>4. UdpMax(q) \in Nat
        /\ (UdpMax(q) <= UDP_BUFSIZE \/ (q.opts # <<>> /\ UdpMax(q) <= q.opts[1].udpsize /\ UdpMax(q) <= udpbufsize))
    BY <2>2, UdpMaxNat
  <2>5. q.opts # <<>> => q.opts[1].udpsize \in Nat
    BY <2>2, Lists DEF IsQuery
  <2>6. sz <= UDP_BUFSIZE \/ (q.opts # <<>> /\ sz <= q.opts[1].udpsize /\ sz <= udpbufsize)
    BY <2>3, <2>4, <2>5, SizesAssumption
  <2>. QED BY <2>6 DEF q, sz
<1>4. FitsDatagram
  BY <1>3 DEF FitsDatagram
<1>5. ASSUME NEW w \in Workers, job[w].at = "over", job[w].reply # Nothing, job[w].reply.aa,
             NEW k \in DOMAIN job[w].reply.m.rrs, job[w].reply.m.rrs[k].sect = "answer"
      PROVE  job[w].reply.m.rrs[k].local
  <2>1. Sent(job[w])
    BY <1>5, OverIsSent
  <2>. QED BY <2>1, <1>5 DEF Sent, AnswersLocal
<1>6. AuthoritativeIsLocal
  BY <1>5 DEF AuthoritativeIsLocal
<1>. QED BY <1>2, <1>4, <1>6

-----------------------------------------------------------------------------
LEMMA JobsAlways == Spec => []Jobs
<1>1. Init => Jobs
  BY JobsInit
<1>2. TypeOK /\ Jobs /\ [Next]_vars => Jobs'
  BY JobsKept
<1>. QED BY <1>1, <1>2, Implements, Types, PTL DEF Spec

\* Every answer that is sent, or under way, can be read: where compress_name() (dns.c) writes a
\* pointer it leads to the rest of the name, also after add_rr() has taken a record back with the
\* text that it had remembered; add_additional_rr() lets nothing come twice; and a datagram is
\* never longer than the client and the configuration allow.
THEOREM AnswersSound == Spec => []MessageSound
<1>1. TypeOK /\ Jobs => MessageSound
  BY ReadableAnswers, SoundAnswers DEF MessageSound
<1>. QED BY <1>1, JobsAlways, Implements, Types, PTL

\* compose_answer() calls an answer authoritative only if every record of its answer section is
\* local, however long the chain of aliases and however many questions it answers.
THEOREM AuthorityIsLocal == Spec => []AuthoritativeIsLocal
<1>1. TypeOK /\ Jobs => AuthoritativeIsLocal
  BY SoundAnswers
<1>. QED BY <1>1, JobsAlways, Implements, Types, PTL
=============================================================================
