--------------------------- MODULE Servers_proofs ---------------------------
(***************************************************************************)
(* Nobody replaces server data under a thread that uses it, and tests that *)
(* are asked for are not forgotten, for any number of query handlers and   *)
(* control threads and any configurations (of which the second assumes     *)
(* something).                                                             *)
(***************************************************************************)
EXTENDS Servers, FiniteSetTheorems, TLAPS

Backs == {"next", "tested", "roottested"}

Typed ==
  /\ servers_lock \in Threads \union {"nobody"}
  /\ pc \in [Threads -> Places]
  /\ at \in [Walkers -> [sec : Sections, adr : Int, last : Int, back : Backs]]
  /\ servstat_thrid \in {"main", Status} /\ main \in {"starts", "goes on"}

\* Exclusive access: the lock is held and there are no users.
Granted ==
  \A t \in Threads : pc[t] = "granted" => servers_lock = t /\ server_data_users = 0

\* Whoever finds no status thread may start one.
Named == main = "goes on" /\ servstat_thrid = "main" => pc[Status] = "off"

StartsFirst == main = "starts" => \A t \in Threads \ {Status} : pc[t] = "idle"

IInv == Typed /\ Granted /\ Named /\ StartsFirst /\ UsersUndisturbed

-----------------------------------------------------------------------------
\* The threads that p places among the users.
UsersIn(p) == {t \in Threads : p[t] \in UsingPlaces}

\* Counting: one thread moves, and the others stay on their side.
LEMMA CountMove ==
  ASSUME NEW p, NEW q, NEW t \in Threads,
         \A u \in Threads \ {t} : q[u] \in UsingPlaces <=> p[u] \in UsingPlaces
  PROVE  /\ Cardinality(UsersIn(p)) \in Nat
         /\ Cardinality(UsersIn(p)) = 0 => UsersIn(p) = {}
         /\ (q[t] \in UsingPlaces <=> p[t] \in UsingPlaces) =>
              Cardinality(UsersIn(q)) = Cardinality(UsersIn(p))
         /\ q[t] \in UsingPlaces /\ p[t] \notin UsingPlaces =>
              Cardinality(UsersIn(q)) = Cardinality(UsersIn(p)) + 1
         /\ q[t] \notin UsingPlaces /\ p[t] \in UsingPlaces =>
              Cardinality(UsersIn(q)) = Cardinality(UsersIn(p)) - 1
<1>. HIDE DEF UsingPlaces
<1>1. IsFiniteSet(Threads)
  BY ThreadAssumption, FS_Union, FS_AddElement DEF Threads
<1>2. IsFiniteSet(UsersIn(p)) /\ IsFiniteSet(UsersIn(q))
  BY <1>1, FS_Subset DEF UsersIn
<1>3. /\ Cardinality(UsersIn(p)) \in Nat
      /\ Cardinality(UsersIn(p)) = 0 => UsersIn(p) = {}
  BY <1>2, FS_CardinalityType, FS_EmptySet
<1>4. ASSUME q[t] \in UsingPlaces <=> p[t] \in UsingPlaces
      PROVE  Cardinality(UsersIn(q)) = Cardinality(UsersIn(p))
  <2>1. UsersIn(q) = UsersIn(p)
    BY <1>4 DEF UsersIn
  <2>. QED BY <2>1
<1>5. ASSUME q[t] \in UsingPlaces, p[t] \notin UsingPlaces
      PROVE  Cardinality(UsersIn(q)) = Cardinality(UsersIn(p)) + 1
  <2>1. UsersIn(q) = UsersIn(p) \union {t} /\ t \notin UsersIn(p)
    BY <1>5 DEF UsersIn
  <2>. QED BY <2>1, <1>2, FS_AddElement
<1>6. ASSUME q[t] \notin UsingPlaces, p[t] \in UsingPlaces
      PROVE  Cardinality(UsersIn(q)) = Cardinality(UsersIn(p)) - 1
  <2>1. UsersIn(q) = UsersIn(p) \ {t} /\ t \in UsersIn(p)
    BY <1>6 DEF UsersIn
  <2>. QED BY <2>1, <1>2, FS_RemoveElement
<1>. QED BY <1>3, <1>4, <1>5, <1>6

\* Without users nobody is at a place of a user.
LEMMA NoUsers ==
  ASSUME IInv, server_data_users = 0
  PROVE  Using = {}
<1>1. Using = UsersIn(pc)
  BY DEF Using, UsersIn
<1>2. Cardinality(UsersIn(pc)) = 0
  BY <1>1 DEF IInv, UsersUndisturbed
<1>3. Status \in Threads
  BY DEF Threads
<1>. QED BY <1>1, <1>2, <1>3, CountMove

-----------------------------------------------------------------------------
\* The others stay where they are, or change between places of no consequence.
OthersStay(t) ==
  \A u \in Threads \ {t} :
    \/ pc'[u] = pc[u]
    \/ {pc[u], pc'[u]} \intersect (UsingPlaces \union {"granted"}) = {}

\* server_data_users follows t in and out.
Counted(t) ==
  \/ /\ server_data_users' = server_data_users
     /\ pc[t] \notin UsingPlaces /\ pc'[t] \notin UsingPlaces
  \/ /\ server_data_users' = server_data_users + 1
     /\ pc[t] \notin UsingPlaces /\ pc'[t] \in UsingPlaces
  \/ /\ server_data_users' = server_data_users - 1
     /\ pc[t] \in UsingPlaces /\ pc'[t] \notin UsingPlaces

\* What a step of t, with the mutex, has to do to keep IInv.
LEMMA StepKeeps ==
  ASSUME IInv, NEW t \in Threads,
         servers_lock \in {"nobody", t}, servers_lock' \in {"nobody", t},
         Typed', Named', StartsFirst',
         OthersStay(t), Counted(t),
         pc'[t] = "granted" => servers_lock' = t /\ server_data_users' = 0,
         stale' \subseteq {Status}
  PROVE  IInv'
<1>1. server_data_users' = Cardinality(Using')
  <2>1. \A u \in Threads \ {t} : pc'[u] \in UsingPlaces <=> pc[u] \in UsingPlaces
    BY DEF OthersStay
  <2>2. Using = UsersIn(pc) /\ Using' = UsersIn(pc')
    BY DEF Using, UsersIn
  <2>3. server_data_users = Cardinality(UsersIn(pc)) /\ server_data_users \in Nat
    BY <2>1, <2>2, CountMove DEF IInv, UsersUndisturbed
  <2>. QED BY <2>1, <2>2, <2>3, CountMove DEF Counted
<1>2. Granted'
  <2>. SUFFICES ASSUME NEW u \in Threads, pc'[u] = "granted"
                PROVE  servers_lock' = u /\ server_data_users' = 0
    BY DEF Granted
  <2>1. CASE u = t
    BY <2>1
  <2>2. CASE u # t
    <3>1. pc[u] = "granted"
      BY <2>2 DEF OthersStay
    <3>2. servers_lock = u
      BY <3>1 DEF IInv, Granted
    <3>. QED BY <3>2, <2>2, ThreadAssumption DEF Threads
  <2>. QED BY <2>1, <2>2
<1>. QED BY <1>1, <1>2 DEF IInv, UsersUndisturbed

\* The most frequent step: only t moves, and nothing is started or replaced.
AtTyped == at \in [Walkers -> [sec : Sections, adr : Int, last : Int, back : Backs]]

LEMMA PlainMove ==
  ASSUME IInv, NEW t \in Threads, NEW l \in Places \ {"granted"},
         servers_lock \in {"nobody", t}, servers_lock' \in {"nobody", t},
         Goes(t, l), Counted(t), AtTyped',
         pc[t] # "off", pc[t] # "idle" \/ main = "goes on",
         UNCHANGED <<servstat_thrid, main, stale>>
  PROVE  IInv'
<1>1. pc' \in [Threads -> Places] /\ pc'[t] = l /\ \A u \in Threads \ {t} : pc'[u] = pc[u]
  BY DEF IInv, Typed, Goes
<1>2. Typed'
  BY <1>1 DEF IInv, Typed, AtTyped
<1>3. Named'
  <2>1. Status \in Threads
    BY DEF Threads
  <2>. QED BY <1>1, <2>1 DEF IInv, Named
<1>4. StartsFirst'
  BY <1>1 DEF IInv, StartsFirst
<1>5. OthersStay(t)
  BY <1>1 DEF OthersStay
<1>6. stale' \subseteq {Status}
  BY DEF IInv, UsersUndisturbed
<1>. QED BY <1>1, <1>2, <1>3, <1>4, <1>5, <1>6, StepKeeps

\* A user leaves, and those who wait for that are woken.
LEMMA Leave ==
  ASSUME IInv, NEW t \in Threads, NEW l \in Places \ (UsingPlaces \union {"granted"}),
         servers_lock \in {"nobody", t}, servers_lock' \in {"nobody", t},
         pc[t] \in UsingPlaces, LeaveUsers(t, l), AtTyped',
         UNCHANGED <<servstat_thrid, main, stale>>
  PROVE  IInv'
<1>1. /\ pc' \in [Threads -> Places] /\ pc'[t] = l
      /\ \A u \in Threads \ {t} :
           pc'[u] = pc[u] \/ (pc[u] = "waiting" /\ pc'[u] = "woken")
  BY DEF IInv, Typed, LeaveUsers, Places
<1>2. Typed'
  BY <1>1 DEF IInv, Typed, AtTyped
<1>3. Named'
  <2>1. Status \in Threads
    BY DEF Threads
  <2>. QED BY <1>1, <2>1 DEF IInv, Named, UsingPlaces
<1>4. StartsFirst'
  BY <1>1 DEF IInv, StartsFirst, UsingPlaces
<1>5. OthersStay(t)
  BY <1>1 DEF OthersStay, UsingPlaces
<1>6. stale' \subseteq {Status}
  BY DEF IInv, UsersUndisturbed
<1>7. Counted(t)
  BY <1>1 DEF Counted, LeaveUsers
<1>. QED BY <1>1, <1>2, <1>3, <1>4, <1>5, <1>6, <1>7, StepKeeps

\* A thread asks for a test and is done.
LEMMA Ask ==
  ASSUME IInv, NEW t \in Threads \ {Status}, NEW l \in Places \ (UsingPlaces \union {"granted"}),
         servers_lock \in {"nobody", t}, servers_lock' \in {"nobody", t},
         pc[t] \notin UsingPlaces, main = "goes on", AskTest(t, l), AtTyped',
         server_data_users' = server_data_users, UNCHANGED main,
         stale' \subseteq {Status}
  PROVE  IInv'
<1>1. Status \in Threads
  BY DEF Threads
<1>2. /\ pc' \in [Threads -> Places] /\ pc'[t] = l
      /\ \A u \in Threads \ {t, Status} : pc'[u] = pc[u]
      /\ \/ pc'[Status] = pc[Status]
         \/ servstat_thrid = "main" /\ pc'[Status] = "new"
         \/ pc[Status] = "asleep" /\ pc'[Status] = "roused"
  BY <1>1 DEF IInv, Typed, AskTest, Places
<1>3. Typed' /\ Named' /\ StartsFirst'
  BY <1>2, ThreadAssumption DEF IInv, Typed, AtTyped, AskTest, Named, StartsFirst
<1>4. OthersStay(t)
  <2>1. servstat_thrid = "main" => pc[Status] = "off"
    BY DEF IInv, Named
  <2>. QED BY <1>2, <2>1 DEF OthersStay, UsingPlaces
<1>5. Counted(t)
  BY <1>2 DEF Counted
<1>. QED BY <1>2, <1>3, <1>4, <1>5, StepKeeps

-----------------------------------------------------------------------------
LEMMA RetestsTyped ==
  ASSUME AtTyped, NEW t \in Walkers, NEW i \in Int, NEW j \in Int, NEW b \in Backs,
         Retests(t, i, j, b)
  PROVE  AtTyped'
<1>. DEFINE r == [at[t] EXCEPT !.adr = i, !.last = j, !.back = b]
<1>1. r \in [sec : Sections, adr : Int, last : Int, back : Backs]
  BY DEF AtTyped
<1>2. at' = [at EXCEPT ![t] = r]
  BY DEF Retests
<1>. HIDE DEF r
<1>. QED BY <1>1, <1>2 DEF AtTyped

LEMMA WalkKeeps ==
  ASSUME IInv, NEW t \in Walkers, Walk(t)
  PROVE  IInv'
<1>. USE DEF UsingPlaces, Places, At, Free
<1>t. t \in Threads /\ at[t].back \in Backs /\ at[t].adr \in Int
  BY DEF Threads, Walkers, IInv, Typed
<1>a. AtTyped
  BY DEF IInv, Typed, AtTyped
<1>1. CASE RetestNothing(t)
  <2>1. Goes(t, at[t].back) /\ Counted(t)
    BY <1>1, <1>t DEF RetestNothing, Goes, Counted, lockvars, IInv, Typed, Backs
  <2>. QED BY <1>1, <1>t, <1>a, <2>1, PlainMove
       DEF RetestNothing, lockvars, history, Backs, AtTyped
<1>2. CASE Uptest(t)
  <2>1. Goes(t, "testing") /\ Counted(t)
    BY <1>2, <1>t DEF Uptest, Goes, Counted, IInv, Typed
  <2>. QED BY <1>2, <1>t, <1>a, <2>1, PlainMove DEF Uptest, history, AtTyped
<1>3. CASE UptestEnds(t)
  <2>1. PICK l \in Backs \union {"retest"} : LeaveUsers(t, l)
    BY <1>3, <1>t DEF UptestEnds
  <2>2. AtTyped'
    BY <1>3, <1>t, <1>a DEF UptestEnds, AtTyped
  <2>. QED BY <1>3, <1>t, <2>1, <2>2, Leave DEF UptestEnds, history, Backs
<1>4. CASE NextSection(t)
  <2>1. PICK l \in {"end", "section"} : Goes(t, l)
    BY <1>4 DEF NextSection
  <2>2. Counted(t)
    BY <1>4, <1>t, <2>1 DEF NextSection, Goes, Counted, lockvars, IInv, Typed
  <2>3. AtTyped'
    BY <1>4, <1>t, <1>a, SizeAssumption DEF NextSection, AtTyped, Sec, Sections
  <2>. QED BY <1>4, <1>t, <2>1, <2>2, <2>3, PlainMove DEF NextSection, lockvars, history
<1>. QED BY <1>1, <1>2, <1>3, <1>4 DEF Walk

LEMMA StatusKeeps ==
  ASSUME IInv, StatusStep
  PROVE  IInv'
<1>. USE DEF UsingPlaces, Places, At, Free
<1>t. Status \in Threads /\ Status \in Walkers
  BY DEF Threads, Walkers
<1>a. AtTyped
  BY DEF IInv, Typed, AtTyped
<1>1. CASE StatusStarts
  <2>1. PICK l \in {"section"} : Goes(Status, l)
    BY <1>1 DEF StatusStarts, PassBegins
  <2>2. Counted(Status)
    BY <1>1, <1>t, <2>1 DEF StatusStarts, Goes, Counted, lockvars, IInv, Typed
  <2>3. AtTyped'
    BY <1>1, <1>a DEF StatusStarts, AtTyped
  <2>. QED BY <1>1, <1>t, <2>1, <2>2, <2>3, PlainMove DEF StatusStarts, lockvars, history
<1>2. CASE Section
  <2>1. PICK l \in {"retest", "next", "each"} : Goes(Status, l)
    BY <1>2 DEF Section, Retests
  <2>2. Counted(Status)
    BY <1>2, <1>t, <2>1 DEF Section, Goes, Counted, lockvars, IInv, Typed
  <2>3. AtTyped'
    <3>1. UNCHANGED at \/ (Retests(Status, 1, NAddrs, "next")) \/ at' = [at EXCEPT ![Status].adr = 1]
      BY <1>2 DEF Section
    <3>2. CASE Retests(Status, 1, NAddrs, "next")
      BY <3>2, <1>t, <1>a, SizeAssumption, RetestsTyped DEF Backs
    <3>3. CASE UNCHANGED at \/ at' = [at EXCEPT ![Status].adr = 1]
      BY <3>3, <1>t, <1>a DEF AtTyped
    <3>. QED BY <3>1, <3>2, <3>3
  <2>. QED BY <1>2, <1>t, <2>1, <2>2, <2>3, PlainMove DEF Section, lockvars, history
<1>3. CASE Each
  <2>1. PICK l \in {"retest", "next"} : Goes(Status, l)
    BY <1>3 DEF Each, Retests
  <2>2. Counted(Status)
    BY <1>3, <1>t, <2>1 DEF Each, Goes, Counted, lockvars, IInv, Typed
  <2>3. AtTyped'
    <3>1. UNCHANGED at \/ (\E a \in Int : Retests(Status, a, a, "tested"))
      <4>1. at[Status].adr..NAddrs \subseteq Int
        OBVIOUS
      <4>. QED BY <4>1, <1>3 DEF Each
    <3>. QED BY <3>1, <1>t, <1>a, SizeAssumption, RetestsTyped DEF AtTyped, Backs
  <2>. QED BY <1>3, <1>t, <2>1, <2>2, <2>3, PlainMove DEF Each, lockvars, history
<1>4. CASE Tested
  <2>1. PICK l \in {"each"} : Goes(Status, l)
    BY <1>4 DEF Tested
  <2>2. Counted(Status)
    BY <1>4, <1>t, <2>1 DEF Tested, Goes, Counted, lockvars, IInv, Typed
  <2>3. AtTyped'
    BY <1>4, <1>t, <1>a, SizeAssumption DEF Tested, Retests, AtTyped, Backs
  <2>. QED BY <1>4, <1>t, <2>1, <2>2, <2>3, PlainMove DEF Tested, lockvars, history
<1>5. CASE RootSection
  <2>1. PICK l \in {"rootdown", "rootup", "retest"} : Goes(Status, l)
    BY <1>5 DEF RootSection, Retests
  <2>2. Counted(Status)
    BY <1>5, <1>t, <2>1 DEF RootSection, Goes, Counted, lockvars, IInv, Typed
  <2>3. AtTyped'
    <3>1. UNCHANGED at \/ (Retests(Status, 1, NAddrs, "roottested"))
      BY <1>5, <1>t, <1>a, SizeAssumption DEF RootSection, AtTyped, Addrs
    <3>. QED BY <3>1, <1>t, <1>a, SizeAssumption, RetestsTyped DEF AtTyped, Backs
  <2>. QED BY <1>5, <1>t, <2>1, <2>2, <2>3, PlainMove DEF RootSection, lockvars, history
<1>6. CASE RootTested
  <2>1. PICK l \in {"rootup", "rootdown"} : Goes(Status, l)
    BY <1>6 DEF RootTested, Retests
  <2>2. Counted(Status)
    BY <1>6, <1>t, <2>1 DEF RootTested, Goes, Counted, lockvars, IInv, Typed
  <2>3. AtTyped'
    BY <1>6, <1>a DEF RootTested, AtTyped
  <2>. QED BY <1>6, <1>t, <2>1, <2>2, <2>3, PlainMove DEF RootTested, lockvars, history
<1>7. CASE RootDown
  <2>1. PICK l \in {"next"} : Goes(Status, l)
    BY <1>7 DEF RootDown
  <2>2. Counted(Status)
    BY <1>7, <1>t, <2>1 DEF RootDown, Goes, Counted, lockvars, IInv, Typed
  <2>3. AtTyped'
    BY <1>7, <1>a DEF RootDown, AtTyped
  <2>. QED BY <1>7, <1>t, <2>1, <2>2, <2>3, PlainMove DEF RootDown, lockvars, history
<1>8. CASE ResolvRootserverAddrs
  <2>1. PICK l \in {"resolving"} : Goes(Status, l)
    BY <1>8 DEF ResolvRootserverAddrs
  <2>2. Counted(Status)
    BY <1>8, <1>t, <2>1 DEF ResolvRootserverAddrs, Goes, Counted, lockvars, IInv, Typed
  <2>3. AtTyped'
    BY <1>8, <1>a DEF ResolvRootserverAddrs, AtTyped
  <2>. QED BY <1>8, <1>t, <2>1, <2>2, <2>3, PlainMove DEF ResolvRootserverAddrs, lockvars, history
<1>9. CASE FillWaits
  <2>1. PICK l \in {"waiting"} : Goes(Status, l)
    BY <1>9 DEF FillWaits
  <2>2. Counted(Status)
    BY <1>9, <1>t, <2>1 DEF FillWaits, Goes, Counted, lockvars, IInv, Typed
  <2>3. AtTyped'
    BY <1>9, <1>a DEF FillWaits, AtTyped
  <2>. QED BY <1>9, <1>t, <2>1, <2>2, <2>3, PlainMove DEF FillWaits, lockvars, history
<1>10. CASE FillWoken
  <2>1. PICK l \in {"filling"} : Goes(Status, l)
    BY <1>10 DEF FillWoken
  <2>2. Counted(Status)
    BY <1>10, <1>t, <2>1 DEF FillWoken, Goes, Counted, lockvars, IInv, Typed
  <2>3. AtTyped'
    BY <1>10, <1>a DEF FillWoken, AtTyped
  <2>. QED BY <1>10, <1>t, <2>1, <2>2, <2>3, PlainMove DEF FillWoken, lockvars, history
<1>11. CASE FillTimesOut
  <2>1. PICK l \in {"woken"} : Goes(Status, l)
    BY <1>11 DEF FillTimesOut
  <2>2. Counted(Status)
    BY <1>11, <1>t, <2>1 DEF FillTimesOut, Goes, Counted, lockvars, IInv, Typed
  <2>3. AtTyped'
    BY <1>11, <1>a DEF FillTimesOut, AtTyped
  <2>. QED BY <1>11, <1>t, <2>1, <2>2, <2>3, PlainMove DEF FillTimesOut, lockvars, history
<1>12. CASE Fill
  <2>1. PICK l \in {"section", "next"} : Goes(Status, l)
    BY <1>12 DEF Fill, Retests
  <2>2. Counted(Status)
    BY <1>12, <1>t, <2>1 DEF Fill, Goes, Counted, lockvars, IInv, Typed
  <2>3. AtTyped'
    BY <1>12, <1>a DEF Fill, AtTyped
  <2>. QED BY <1>12, <1>t, <2>1, <2>2, <2>3, PlainMove DEF Fill, lockvars, history
<1>13. CASE FillUndefined
  <2>1. PICK l \in {"undefined"} : Goes(Status, l)
    BY <1>13 DEF FillUndefined
  <2>2. Counted(Status)
    BY <1>13, <1>t, <2>1 DEF FillUndefined, Goes, Counted, lockvars, IInv, Typed
  <2>3. AtTyped'
    BY <1>13, <1>a DEF FillUndefined, AtTyped
  <2>. QED BY <1>13, <1>t, <2>1, <2>2, <2>3, PlainMove DEF FillUndefined, lockvars, history
<1>14. CASE StatusWakes
  <2>1. PICK l \in {"section"} : Goes(Status, l)
    BY <1>14 DEF StatusWakes, PassBegins
  <2>2. Counted(Status)
    BY <1>14, <1>t, <2>1 DEF StatusWakes, Goes, Counted, lockvars, IInv, Typed
  <2>3. AtTyped'
    BY <1>14, <1>a DEF StatusWakes, AtTyped
  <2>. QED BY <1>14, <1>t, <2>1, <2>2, <2>3, PlainMove DEF StatusWakes, lockvars, history
<1>15. CASE Resolved
  <2>1. PICK l \in {"filling", "next"} : LeaveUsers(Status, l)
    BY <1>15 DEF Resolved
  <2>2. AtTyped'
    BY <1>15, <1>a DEF Resolved, AtTyped
  <2>. QED BY <1>15, <1>t, <2>1, <2>2, Leave DEF Resolved, history
<1>16. CASE PassEnds
  <2>1. PICK l \in {"section", "asleep", "off"} :
          /\ Goes(Status, l)
          /\ IF l = "off" THEN servstat_thrid' = "main" ELSE UNCHANGED servstat_thrid
    BY <1>16 DEF PassEnds, PassBegins
  <2>2. Counted(Status)
    BY <1>16, <1>t, <2>1 DEF PassEnds, Goes, Counted, IInv, Typed
  <2>3. Typed' /\ StartsFirst' /\ OthersStay(Status)
    BY <1>16, <1>t, <2>1 DEF PassEnds, Goes, IInv, Typed, StartsFirst, OthersStay
  <2>4. Named'
    BY <1>16, <1>t, <2>1 DEF PassEnds, Goes, IInv, Typed, Named
  <2>5. pc'[Status] # "granted" /\ stale' \subseteq {Status}
    BY <1>16, <1>t, <2>1 DEF PassEnds, Goes, IInv, Typed, UsersUndisturbed
  <2>. QED BY <1>16, <1>t, <2>2, <2>3, <2>4, <2>5, StepKeeps DEF PassEnds
<1>17. CASE Walk(Status)
  BY <1>17, <1>t, WalkKeeps
<1>. QED BY <1>1, <1>2, <1>3, <1>4, <1>5, <1>6, <1>7, <1>8, <1>9, <1>10, <1>11, <1>12, <1>13, <1>14, <1>15, <1>16, <1>17 DEF StatusStep

LEMMA QueryKeeps ==
  ASSUME IInv, NEW q \in Queries,
         QueryGoesOn(q) \/ TestOnquery(q) \/ LockServerData(q) \/ SchedServerTest(q)
  PROVE  IInv'
<1>. USE DEF UsingPlaces, Places, At, Free
<1>t. q \in Threads \ {Status} /\ q \in Walkers
  BY ThreadAssumption DEF Threads, Walkers
<1>a. AtTyped
  BY DEF IInv, Typed, AtTyped
<1>s. \A r \in Threads \ {Status} : pc[r] # "idle" => main = "goes on"
  BY DEF IInv, Typed, StartsFirst
<1>1. CASE TestOnquery(q)
  <2>1. PICK l \in {"section"} : Goes(q, l)
    BY <1>1 DEF TestOnquery, Retests
  <2>2. Counted(q)
    BY <1>1, <1>t, <2>1 DEF TestOnquery, Goes, Counted, lockvars, IInv, Typed
  <2>3. AtTyped'
    BY <1>1, <1>a DEF TestOnquery, AtTyped
  <2>. QED BY <1>1, <1>t, <2>1, <2>2, <2>3, PlainMove DEF TestOnquery, lockvars, history
<1>2. CASE OnquerySection(q)
  <2>1. PICK l \in {"retest", "next"} : Goes(q, l)
    BY <1>2 DEF OnquerySection, Retests
  <2>2. Counted(q)
    BY <1>2, <1>t, <2>1 DEF OnquerySection, Goes, Counted, lockvars, IInv, Typed
  <2>3. AtTyped'
    <3>1. UNCHANGED at \/ Retests(q, 1, NAddrs, "next")
      BY <1>2 DEF OnquerySection
    <3>. QED BY <3>1, <1>t, <1>a, SizeAssumption, RetestsTyped DEF AtTyped, Backs
  <2>. QED BY <1>2, <1>t, <2>1, <2>2, <2>3, PlainMove DEF OnquerySection, lockvars, history
<1>3. CASE OnqueryEnds(q)
  <2>1. AtTyped' /\ main = "goes on" /\ stale' \subseteq {Status}
    BY <1>3, <1>t, <1>a, <1>s DEF OnqueryEnds, AtTyped, history, IInv, UsersUndisturbed
  <2>2. CASE AskTestFlagged(q, "idle")
    BY <1>3, <1>t, <2>1, <2>2, Ask DEF OnqueryEnds, AskTestFlagged
  <2>3. CASE Goes(q, "idle") /\ UNCHANGED servstat_thrid
    <3>1. Counted(q)
      BY <1>3, <1>t, <2>3 DEF OnqueryEnds, Goes, Counted, IInv, Typed
    <3>. QED BY <1>3, <1>t, <2>1, <2>3, <3>1, PlainMove DEF OnqueryEnds, history
  <2>. QED BY <1>3, <2>2, <2>3 DEF OnqueryEnds
<1>4. CASE LockServerData(q)
  <2>1. PICK l \in {"using"} : Goes(q, l)
    BY <1>4 DEF LockServerData, Retests
  <2>2. Counted(q)
    BY <1>4, <1>t, <2>1 DEF LockServerData, Goes, Counted, lockvars, IInv, Typed
  <2>3. AtTyped'
    BY <1>4, <1>a DEF LockServerData, AtTyped
  <2>. QED BY <1>4, <1>t, <2>1, <2>2, <2>3, PlainMove DEF LockServerData, lockvars, history
<1>5. CASE UnlockServerData(q)
  <2>1. AtTyped'
    BY <1>5, <1>a DEF UnlockServerData, AtTyped
  <2>. QED BY <1>5, <1>t, <2>1, Leave DEF UnlockServerData, history
<1>6. CASE SchedServerTest(q)
  <2>1. Status \in Threads
    BY DEF Threads
  <2>2. /\ pc' \in [Threads -> Places]
        /\ \A u \in Threads \ {Status} : pc'[u] = pc[u]
        /\ pc'[Status] = pc[Status] \/ (pc[Status] = "asleep" /\ pc'[Status] = "roused")
    BY <1>6, <2>1 DEF SchedServerTest, IInv, Typed
  <2>3. Typed' /\ Named' /\ StartsFirst'
    BY <1>6, <2>2 DEF SchedServerTest, IInv, Typed, Named, StartsFirst, lockvars
  <2>4. OthersStay(q) /\ Counted(q)
    BY <1>6, <1>t, <2>2 DEF SchedServerTest, OthersStay, Counted, lockvars
  <2>5. pc'[q] # "granted" /\ stale' \subseteq {Status}
    BY <1>6, <1>t, <2>2 DEF SchedServerTest, history, IInv, UsersUndisturbed
  <2>. QED BY <1>6, <1>t, <2>3, <2>4, <2>5, StepKeeps DEF SchedServerTest, lockvars
<1>7. CASE Walk(q)
  BY <1>7, <1>t, WalkKeeps
<1>. QED BY <1>1, <1>2, <1>3, <1>4, <1>5, <1>6, <1>7 DEF QueryGoesOn

LEMMA ControlKeeps ==
  ASSUME IInv, NEW c \in Controls,
         ControlGoesOn(c) \/ MarkServers(c) \/ LockExclusive(c)
  PROVE  IInv'
<1>. USE DEF UsingPlaces, Places, At, Free, Serves
<1>t. c \in Threads \ {Status} /\ Status \in Threads
  BY ThreadAssumption DEF Threads
<1>a. AtTyped
  BY DEF IInv, Typed, AtTyped
<1>s. \A r \in Threads \ {Status} : pc[r] # "idle" => main = "goes on"
  BY DEF IInv, Typed, StartsFirst
<1>1. CASE MarkServers(c)
  <2>1. AtTyped' /\ stale' \subseteq {Status}
    BY <1>1, <1>a DEF MarkServers, AtTyped, history, IInv, UsersUndisturbed
  <2>2. CASE AskTest(c, "idle")
    BY <1>1, <1>t, <2>1, <2>2, Ask DEF MarkServers, lockvars
  <2>3. CASE UNCHANGED <<pc, servstat_thrid>>
    <3>1. Goes(c, "idle")
      BY <1>1, <1>t, <2>3 DEF MarkServers, Goes, IInv, Typed
    <3>2. Counted(c)
      BY <1>1, <2>3 DEF MarkServers, Counted, lockvars
    <3>. QED BY <1>1, <1>t, <2>1, <2>3, <3>1, <3>2, PlainMove DEF MarkServers, lockvars, history
  <2>. QED BY <1>1, <2>2, <2>3 DEF MarkServers, AskTestFlagged
<1>2. CASE LockExclusive(c)
  <2>1. PICK l \in {"granted", "waiting"} :
          /\ Goes(c, l)
          /\ l = "granted" => servers_lock' = c /\ server_data_users = 0
    BY <1>2 DEF LockExclusive
  <2>2. main = "goes on" /\ pc[c] # "off" /\ pc[c] \notin UsingPlaces
    BY <1>2, <1>t, <1>s DEF LockExclusive
  <2>3. Counted(c) /\ OthersStay(c) /\ pc'[c] = l
    BY <1>2, <1>t, <2>1, <2>2 DEF LockExclusive, Goes, Counted, OthersStay, IInv, Typed
  <2>4. Typed' /\ Named' /\ StartsFirst'
    BY <1>2, <1>t, <2>1, <2>2 DEF LockExclusive, Goes, IInv, Typed, Named, StartsFirst
  <2>5. stale' \subseteq {Status} /\ servers_lock' \in {"nobody", c} /\ servers_lock = "nobody"
        /\ server_data_users' = server_data_users
    BY <1>2 DEF LockExclusive, history, IInv, UsersUndisturbed
  <2>. QED BY <1>t, <2>1, <2>3, <2>4, <2>5, StepKeeps
<1>3. CASE Woken(c)
  <2>1. PICK l \in {"granted", "waiting"} :
          /\ Goes(c, l)
          /\ l = "granted" => servers_lock' = c /\ server_data_users = 0
    BY <1>3 DEF Woken
  <2>2. main = "goes on" /\ pc[c] # "off" /\ pc[c] \notin UsingPlaces
    BY <1>3, <1>t, <1>s DEF Woken
  <2>3. Counted(c) /\ OthersStay(c) /\ pc'[c] = l
    BY <1>3, <1>t, <2>1, <2>2 DEF Woken, Goes, Counted, OthersStay, IInv, Typed
  <2>4. Typed' /\ Named' /\ StartsFirst'
    BY <1>3, <1>t, <2>1, <2>2 DEF Woken, Goes, IInv, Typed, Named, StartsFirst
  <2>5. stale' \subseteq {Status} /\ servers_lock' \in {"nobody", c} /\ servers_lock = "nobody"
        /\ server_data_users' = server_data_users
    BY <1>3 DEF Woken, history, IInv, UsersUndisturbed
  <2>. QED BY <1>t, <2>1, <2>3, <2>4, <2>5, StepKeeps
<1>4. CASE GivesUp(c)
  <2>1. Goes(c, "idle") /\ AtTyped'
    BY <1>4, <1>a DEF GivesUp, AtTyped
  <2>2. Counted(c)
    BY <1>4, <1>t, <2>1 DEF GivesUp, Goes, Counted, IInv, Typed
  <2>. QED BY <1>4, <1>t, <1>s, <2>1, <2>2, PlainMove DEF GivesUp, history
<1>5. CASE Change(c)
  <2>1. server_data_users = 0 /\ main = "goes on"
    BY <1>5, <1>t, <1>s DEF Change, IInv, Granted
  <2>2. AtTyped' /\ stale' \subseteq {Status}
    BY <1>5, <1>a, <2>1, NoUsers DEF Change, AtTyped, IInv, UsersUndisturbed
  <2>3. CASE AskTest(c, "idle")
    BY <1>5, <1>t, <2>1, <2>2, <2>3, Ask DEF Change
  <2>4. CASE Goes(c, "idle") /\ UNCHANGED servstat_thrid
    <3>1. OthersStay(c) /\ Counted(c) /\ pc'[c] = "idle"
      BY <1>5, <1>t, <2>4 DEF Change, Goes, OthersStay, Counted, IInv, Typed
    <3>2. Typed' /\ Named' /\ StartsFirst'
      BY <1>5, <1>t, <2>1, <2>4 DEF Change, Goes, IInv, Typed, Named, StartsFirst
    <3>. QED BY <1>5, <1>t, <2>2, <3>1, <3>2, StepKeeps DEF Change
  <2>. QED BY <1>5, <2>3, <2>4 DEF Change, AskTestFlagged
<1>6. CASE Reload(c)
  <2>1. server_data_users = 0 /\ main = "goes on"
    BY <1>6, <1>t, <1>s DEF Reload, IInv, Granted
  <2>2. AtTyped' /\ stale' \subseteq {Status}
    BY <1>6, <1>a, <2>1, NoUsers DEF Reload, Keeping, AtTyped, IInv, UsersUndisturbed
  <2>. QED BY <1>6, <1>t, <2>1, <2>2, Ask DEF Reload
<1>. QED BY <1>1, <1>2, <1>3, <1>4, <1>5, <1>6 DEF ControlGoesOn

-----------------------------------------------------------------------------
LEMMA InitHolds == Init => IInv
<1>. SUFFICES ASSUME Init PROVE IInv
  OBVIOUS
<1>1. Typed
  BY SizeAssumption DEF Init, Typed, Places, Backs, Sections
<1>2. Granted /\ Named /\ StartsFirst
  BY DEF Init, Granted, Named, StartsFirst
<1>3. Using = {}
  BY DEF Init, Using, UsingPlaces
<1>4. UsersUndisturbed
  BY <1>3, FS_EmptySet DEF Init, UsersUndisturbed
<1>. QED BY <1>1, <1>2, <1>4 DEF IInv

LEMMA NextKeeps ==
  ASSUME IInv, [Next]_vars
  PROVE  IInv'
<1>1. ASSUME UNCHANGED <<servers_lock, server_data_users, pc, at, stale>>, Typed', Named', StartsFirst'
      PROVE  IInv'
  BY <1>1 DEF IInv, Granted, UsersUndisturbed, Using
<1>2. CASE UNCHANGED vars
  BY <1>1, <1>2 DEF vars, lockvars, history, IInv, Typed, Named, StartsFirst
<1>3. CASE SigintHandler
  BY <1>1, <1>3 DEF SigintHandler, lockvars, history, IInv, Typed, Named, StartsFirst
<1>4. CASE MainGoesOn
  <2>1. Status # "main"
    BY ThreadAssumption
  <2>. QED BY <1>1, <1>4, <2>1 DEF MainGoesOn, lockvars, IInv, Typed, Named, StartsFirst
<1>5. CASE StatusStep
  BY <1>5, StatusKeeps
<1>6. ASSUME NEW q \in Queries,
             QueryGoesOn(q) \/ TestOnquery(q) \/ LockServerData(q) \/ SchedServerTest(q)
      PROVE  IInv'
  BY <1>6, QueryKeeps
<1>7. ASSUME NEW c \in Controls, ControlGoesOn(c) \/ MarkServers(c) \/ LockExclusive(c)
      PROVE  IInv'
  BY <1>7, ControlKeeps
<1>. QED BY <1>2, <1>3, <1>4, <1>5, <1>6, <1>7 DEF Next

\* The inductive invariant holds in every reachable state, so a control thread that
\* has been granted exclusive access holds the lock and no one else uses the data
\* (exclusive_lock_server_data).
THEOREM Invariant == Spec => []IInv
<1>. QED BY InitHolds, NextKeeps, PTL DEF Spec

\* The counter server_data_users is exact, and no thread but the waiting status
\* thread ever has its data replaced (change_servers, reload_config_file).
THEOREM DataStaysUnderUsers == Spec => []UsersUndisturbed
<1>1. IInv => UsersUndisturbed
  BY DEF IInv
<1>. QED BY Invariant, <1>1, PTL

-----------------------------------------------------------------------------
(* A test that was asked for is not forgotten.                                *)

\* An address that the pass has been at may be due again if its section's root servers are
\* yet to be discovered, if another pass follows, or if the thread goes on for the section's
\* sake.
Excused(s) == s \in rootserver \/ retest_flag \/ signal_interrupt \/ NeedsTesting(kind[s])
LookedAt(s, A) == \A a \in A : <<s, a>> \in due => Excused(s)

\* The thread will not end while a section needs tests, but for one whose root servers are yet to
\* be discovered and that is tested on time-outs only.
Left(s) == s \in rootserver /\ Unattended(kind[s])
Keeps(s) == NeedsTesting(kind[s]) => keep_testing \/ retest_flag \/ Left(s) \/ "unattended" \in lost
Passed(S) == \A s \in S : LookedAt(s, Addrs) /\ Keeps(s)

Waits == {"filling", "waiting", "woken"}
Discovers == {"roottested", "rootup", "rootdown", "resolving"}
Tries == {"retest", "testing"}
Behind == {"section", "each", "tested", "next"} \union Tries \union Discovers \union Waits
Holding == (Behind \ {"testing", "resolving", "waiting", "woken"}) \union {"end"}

\* The pass has dealt with the sections before the present one,
Before == pc[Status] \in Behind => Passed(1..(Sec(Status) - 1))

\* and with a part of the present one.
Here ==
  LET s == Sec(Status)  a == at[Status].adr  p == pc[Status]  b == at[Status].back IN
  /\ p = "next" => Passed({s})
  /\ p = "end" => Passed(Sections)
  /\ p = "each" => LookedAt(s, {x \in Addrs : x < a}) /\ Keeps(s)
  /\ p = "tested" => LookedAt(s, {x \in Addrs : x =< a}) /\ Keeps(s)
  /\ p \in Tries /\ b # "roottested" => LookedAt(s, {x \in Addrs : x < a}) /\ Keeps(s)
  /\ p \in Tries /\ b = "next" => at[Status].last = NAddrs
  /\ p \in Tries /\ b = "tested" => at[Status].last = a
  /\ p \in Discovers \/ (p \in Tries /\ b = "roottested") => s \in rootserver
  /\ p \in Waits => LookedAt(s, Addrs)

\* Between passes nothing waits for the thread, unless a request may have been lost.
Over ==
  pc[Status] = "off" /\ lost = {} =>
    /\ due \subseteq rootserver \X Addrs
    /\ \A s \in Sections : NeedsTesting(kind[s]) => Left(s)
    /\ main = "goes on" => servstat_thrid = "main"
Asleep == pc[Status] = "asleep" /\ retest_flag => "interrupted" \in lost

DataTyped ==
  /\ kind \in Configs /\ rootserver \subseteq Roots(kind) /\ due \subseteq Sections \X Addrs
  /\ retest_flag \in BOOLEAN /\ signal_interrupt \in BOOLEAN /\ keep_testing \in BOOLEAN

Placed ==
  /\ pc[Status] \in Holding => servers_lock = Status
  /\ pc[Status] \notin Behind \union {"undefined"} => Sec(Status) = 1
  /\ Status \in stale => pc[Status] \in Waits \union {"undefined"}

\* Who is on the way to replace data knows what to replace.
Commands == {<<"reload">>} \union ({"mark", "retest"} \X Sections)
Commanded ==
  /\ cmd \in [Controls -> Commands \union {<<>>}]
  /\ \A c \in Controls : pc[c] \in {"waiting", "woken", "granted"} => cmd[c] \in Commands

Progress == Status \notin stale => Before /\ Here
WInv == DataTyped /\ Placed /\ Progress /\ Over /\ Asleep

\* Commands are given, and dropped, with the place of their thread.
LEMMA CommandedStep ==
  ASSUME IInv, Commanded, [Next]_vars
  PROVE  Commanded'
<1>. DEFINE Elsewhere ==
       cmd' = cmd /\ \A c \in Controls : pc'[c] = pc[c] \/ (pc[c] = "waiting" /\ pc'[c] = "woken")
<1>1. /\ pc \in [Threads -> Places] /\ Status \in Threads /\ Status \notin Controls
      /\ Controls \subseteq Threads /\ Queries \subseteq Threads /\ Queries \intersect Controls = {}
  BY ThreadAssumption DEF IInv, Typed, Threads
<1>2. Elsewhere => Commanded'
  BY DEF Commanded
<1>g. ASSUME NEW t \in Threads \ Controls, NEW l, cmd' = cmd, Goes(t, l)
      PROVE  Elsewhere
  BY <1>1, <1>g DEF Goes
<1>v. ASSUME NEW t \in Threads \ Controls, NEW l, cmd' = cmd, LeaveUsers(t, l)
      PROVE  Elsewhere
  BY <1>1, <1>v DEF LeaveUsers
<1>a. ASSUME NEW t \in Threads, NEW l \in Places, AskTest(t, l)
      PROVE  \A c \in Controls \ {t} : pc'[c] = pc[c]
  BY <1>1, <1>a DEF AskTest
<1>. HIDE DEF Elsewhere
<1>3. CASE UNCHANGED vars \/ SigintHandler \/ MainGoesOn
  BY <1>2, <1>3 DEF vars, ctl, SigintHandler, MainGoesOn, Elsewhere
<1>4. CASE StatusStep
  <2>. SUFFICES Elsewhere
    BY <1>2
  <2>. USE <1>1
  <2>1. CASE StatusStarts
    BY <2>1, <1>g, <1>v DEF StatusStarts, PassBegins, ctl
  <2>2. CASE Section
    BY <2>2, <1>g, <1>v DEF Section, Retests, ctl
  <2>3. CASE Each
    BY <2>3, <1>g, <1>v DEF Each, Retests, ctl
  <2>4. CASE Tested
    BY <2>4, <1>g, <1>v DEF Tested, ctl
  <2>5. CASE RootSection
    BY <2>5, <1>g, <1>v DEF RootSection, Retests, ctl
  <2>6. CASE RootTested
    BY <2>6, <1>g, <1>v DEF RootTested, ctl
  <2>7. CASE RootDown
    BY <2>7, <1>g, <1>v DEF RootDown, ctl
  <2>8. CASE ResolvRootserverAddrs
    BY <2>8, <1>g, <1>v DEF ResolvRootserverAddrs, ctl
  <2>9. CASE Resolved
    BY <2>9, <1>g, <1>v DEF Resolved, ctl
  <2>10. CASE FillWaits
    BY <2>10, <1>g, <1>v DEF FillWaits, ctl
  <2>11. CASE FillWoken
    BY <2>11, <1>g, <1>v DEF FillWoken, ctl
  <2>12. CASE FillTimesOut
    BY <2>12, <1>g, <1>v DEF FillTimesOut, ctl
  <2>13. CASE Fill
    BY <2>13, <1>g, <1>v DEF Fill, ctl
  <2>14. CASE FillUndefined
    BY <2>14, <1>g, <1>v DEF FillUndefined, ctl
  <2>15. CASE PassEnds
    BY <2>15, <1>g, <1>v DEF PassEnds, PassBegins, ctl
  <2>16. CASE StatusWakes
    BY <2>16, <1>g, <1>v DEF StatusWakes, PassBegins, ctl
  <2>17. CASE Walk(Status)
    BY <2>17, <1>g, <1>v DEF Walk, RetestNothing, Uptest, UptestEnds, NextSection, ctl
  <2>. QED BY <2>1, <2>2, <2>3, <2>4, <2>5, <2>6, <2>7, <2>8, <2>9, <2>10, <2>11, <2>12, <2>13, <2>14, <2>15, <2>16, <2>17, <1>4 DEF StatusStep
<1>5. ASSUME NEW q \in Queries,
             QueryGoesOn(q) \/ TestOnquery(q) \/ LockServerData(q) \/ SchedServerTest(q)
      PROVE  Commanded'
  <2>. SUFFICES Elsewhere
    BY <1>2
  <2>. USE <1>1
  <2>. q \in Threads \ Controls /\ "idle" \in Places
    BY DEF Places
  <2>1. CASE Walk(q)
    BY <2>1, <1>g, <1>v DEF Walk, RetestNothing, Uptest, UptestEnds, NextSection, ctl
  <2>2. CASE OnquerySection(q)
    BY <2>2, <1>g, <1>v DEF OnquerySection, Retests, ctl
  <2>3. CASE OnqueryEnds(q)
    <3>1. cmd' = cmd /\ (Goes(q, "idle") \/ AskTest(q, "idle"))
      BY <2>3 DEF OnqueryEnds, AskTestFlagged, ctl
    <3>. QED BY <3>1, <1>g, <1>a DEF Elsewhere
  <2>4. CASE UnlockServerData(q)
    BY <2>4, <1>g, <1>v DEF UnlockServerData, ctl
  <2>5. CASE TestOnquery(q)
    BY <2>5, <1>g, <1>v DEF TestOnquery, ctl
  <2>6. CASE LockServerData(q)
    BY <2>6, <1>g, <1>v DEF LockServerData, ctl
  <2>7. CASE SchedServerTest(q)
    BY <2>7 DEF SchedServerTest, ctl, Elsewhere
  <2>. QED BY <2>1, <2>2, <2>3, <2>4, <2>5, <2>6, <2>7, <1>5 DEF QueryGoesOn
<1>6. ASSUME NEW c \in Controls, ControlGoesOn(c) \/ MarkServers(c) \/ LockExclusive(c)
      PROVE  Commanded'
  <2>. USE <1>1
  <2>. c \in Threads /\ "idle" \in Places
    BY DEF Places
  <2>1. CASE Woken(c)
    BY <2>1 DEF Woken, Goes, ctl, Commanded
  <2>2. CASE GivesUp(c)
    BY <2>2 DEF GivesUp, Goes, Commanded
  <2>3. CASE LockExclusive(c)
    BY <2>3 DEF LockExclusive, Goes, Commanded, Commands
  <2>4. CASE MarkServers(c)
    <3>1. cmd' = cmd /\ (UNCHANGED pc \/ AskTest(c, "idle"))
      BY <2>4 DEF MarkServers, AskTestFlagged
    <3>2. AskTest(c, "idle") => pc'[c] = "idle"
      BY DEF AskTest
    <3>. QED BY <3>1, <3>2, <1>a DEF Commanded
  <2>5. CASE Change(c) \/ Reload(c)
    <3>1. cmd' = [cmd EXCEPT ![c] = <<>>] /\ (Goes(c, "idle") \/ AskTest(c, "idle"))
      BY <2>5 DEF Change, Reload, AskTestFlagged
    <3>2. pc'[c] = "idle"
      BY <3>1 DEF AskTest, Goes
    <3>3. \A d \in Controls \ {c} : pc'[d] = pc[d]
      BY <3>1, <1>a DEF Goes
    <3>. QED BY <3>1, <3>2, <3>3 DEF Commanded
  <2>. QED BY <2>1, <2>2, <2>3, <2>4, <2>5, <1>6 DEF ControlGoesOn
<1>. QED BY <1>3, <1>4, <1>5, <1>6 DEF Next

\* Nothing that was in order before a step is out of order after it.
Kept ==
  \A s \in Sections :
    /\ \A a \in Addrs : (<<s, a>> \in due => Excused(s)) => (<<s, a>> \in due' => Excused(s)')
    /\ Keeps(s) => Keeps(s)'

\* What a step of another thread has to do to keep the invariant.
LEMMA OtherStep ==
  ASSUME IInv, WInv, NEW t \in Threads \ {Status}, DataTyped',
         servers_lock \in {"nobody", t}, servers_lock' \in {"nobody", t},
         \/ pc'[Status] = pc[Status]
         \/ pc[Status] = "waiting" /\ pc'[Status] = "woken"
         \/ pc[Status] = "asleep" /\ pc'[Status] = "roused"
         \/ pc[Status] = "off" /\ pc'[Status] = "new",
         at'[Status] = at[Status], UNCHANGED <<keep_testing, main>>, lost \subseteq lost',
         Status \in stale' => Status \in stale \/ pc[Status] \in {"waiting", "woken"},
         Status \in stale => Status \in stale',
         pc[Status] \in Behind /\ Status \notin stale' =>
           /\ kind' = kind /\ Kept
           /\ pc[Status] \in Discovers \union Tries => rootserver' = rootserver,
         pc'[Status] = "off" /\ lost' = {} =>
           /\ kind' = kind /\ servstat_thrid' = servstat_thrid
           /\ \A s \in Sections : Left(s) => Left(s)'
           /\ due \subseteq rootserver \X Addrs => due' \subseteq rootserver' \X Addrs,
         pc'[Status] = "asleep" => retest_flag' = retest_flag
  PROVE  WInv'
<1>. USE DEF Sec
<1>1. Status \in Threads /\ t # "nobody" /\ Status # "nobody" /\ Status # t
  BY ThreadAssumption DEF Threads
<1>2. pc[Status] \notin Holding
  BY <1>1 DEF WInv, Placed
<1>3. Placed'
  BY <1>1, <1>2 DEF WInv, Placed, Holding, Behind, Waits, Discovers, Tries
<1>4. Progress'
  <2>. SUFFICES ASSUME Status \notin stale'
                PROVE  Before' /\ Here'
    BY DEF Progress
  <2>1. Status \notin stale /\ Before /\ Here
    BY DEF WInv, Progress
  <2>2. CASE pc[Status] \in Behind
    <3>. DEFINE L == {x \in Addrs : x < at[Status].adr}
    <3>1. kind' = kind /\ Kept /\ (pc[Status] \in Discovers \union Tries => rootserver' = rootserver)
      BY <2>2
    <3>2. \A s \in Sections : /\ Keeps(s) => Keeps(s)'
                              /\ \A A \in SUBSET Addrs : LookedAt(s, A) => LookedAt(s, A)'
      BY <3>1 DEF Kept, Keeps, LookedAt
    <3>3. Sec(Status) \in Sections /\ Sec(Status)' = Sec(Status) /\ L' = L
      BY <1>1 DEF IInv, Typed, Walkers
    <3>4. \A s \in 1..(Sec(Status) - 1) : s \in Sections
      BY <3>3, SizeAssumption DEF Sections
    <3>5. Before'
      <4>1. Passed(1..(Sec(Status) - 1))
        BY <2>1, <2>2 DEF Before
      <4>2. Passed(1..(Sec(Status) - 1))'
        BY <4>1, <3>2, <3>3, <3>4 DEF Passed
      <4>. QED BY <4>2 DEF Before
    <3>6. LookedAt(Sec(Status), Addrs) => LookedAt(Sec(Status), Addrs)'
      BY <3>2, <3>3
    <3>7. LookedAt(Sec(Status), L) => LookedAt(Sec(Status), L)'
      BY <3>2, <3>3
    <3>8. Keeps(Sec(Status)) => Keeps(Sec(Status))'
      BY <3>2, <3>3
    <3>. HIDE DEF L
    <3>9. CASE pc[Status] \in {"waiting", "woken"}
      <4>1. pc'[Status] \in {"waiting", "woken"}
        BY <3>9
      <4>. QED BY <2>1, <3>5, <3>6, <3>9, <4>1 DEF Here, Waits, Discovers, Tries
    <3>10. CASE pc[Status] \in {"testing", "resolving"}
      <4>1. pc'[Status] = pc[Status] /\ rootserver' = rootserver
        BY <3>1, <3>10 DEF Discovers, Tries
      <4>. QED BY <2>1, <3>3, <3>5, <3>7, <3>8, <3>10, <4>1 DEF Here, Waits, Discovers, Tries, L
    <3>. QED BY <1>2, <2>2, <3>5, <3>9, <3>10 DEF Behind, Holding, Waits, Discovers, Tries
  <2>3. CASE pc[Status] \notin Behind
    <3>1. pc'[Status] \notin Behind \union {"end"}
      BY <1>2, <2>3 DEF Behind, Holding, Waits, Discovers, Tries
    <3>. QED BY <3>1 DEF Before, Here, Behind, Waits, Discovers, Tries
  <2>. QED BY <2>2, <2>3
<1>5. Over'
  <2>. SUFFICES ASSUME pc'[Status] = "off", lost' = {}
                PROVE  /\ due' \subseteq rootserver' \X Addrs
                       /\ \A s \in Sections : NeedsTesting(kind'[s]) => Left(s)'
                       /\ main = "goes on" => servstat_thrid' = "main"
    BY DEF Over
  <2>. QED BY DEF WInv, Over
<1>6. Asleep'
  BY DEF WInv, Asleep
<1>. QED BY <1>3, <1>4, <1>5, <1>6 DEF WInv

\* A request rouses a thread that sleeps and starts one that is over.
LEMMA AskRouses ==
  ASSUME IInv, WInv, main = "goes on", NEW t \in Threads \ {Status}, NEW l \in Places, AskTest(t, l)
  PROVE  /\ \/ pc'[Status] = pc[Status]
            \/ pc[Status] = "asleep" /\ pc'[Status] = "roused"
            \/ pc[Status] = "off" /\ pc'[Status] = "new"
         /\ pc'[Status] # "asleep"
         /\ pc'[Status] = "off" => lost # {}
<1>1. Status \in Threads /\ Status # t
  BY DEF Threads
<1>2. pc'[Status] = IF servstat_thrid = "main" THEN "new"
                    ELSE IF pc[Status] = "asleep" THEN "roused" ELSE pc[Status]
  BY <1>1 DEF AskTest, IInv, Typed
<1>. QED BY <1>2 DEF IInv, Named, WInv, Over

\* Most steps of the others do not touch what the status thread looks at, or only drop requests.
LEMMA OtherDrops ==
  ASSUME IInv, WInv, NEW t \in Threads \ {Status},
         servers_lock \in {"nobody", t}, servers_lock' \in {"nobody", t},
         \/ pc'[Status] = pc[Status]
         \/ pc[Status] = "waiting" /\ pc'[Status] = "woken",
         at'[Status] = at[Status],
         UNCHANGED <<retest_flag, signal_interrupt, servstat_thrid, config, keep_testing, main, history>>,
         due' \subseteq due
  PROVE  WInv'
<1>1. UNCHANGED <<retest_flag, signal_interrupt, servstat_thrid, kind, rootserver, keep_testing, main, stale, lost>>
  BY DEF config, history
<1>2. DataTyped'
  BY <1>1 DEF WInv, DataTyped, Roots
<1>3. Kept
  BY <1>1 DEF Kept, Excused, Keeps, Left
<1>. QED BY <1>1, <1>2, <1>3, OtherStep DEF Left

\* A thread that asks for a test when nobody has been interfered with.
LEMMA AskStep ==
  ASSUME IInv, WInv, DataTyped', NEW t \in Threads \ {Status}, NEW l \in Places,
         servers_lock \in {"nobody", t}, servers_lock' \in {"nobody", t},
         main = "goes on", AskTest(t, l), at'[Status] = at[Status],
         UNCHANGED <<keep_testing, main>>, lost \subseteq lost',
         Status \in stale' => Status \in stale \/ pc[Status] \in {"waiting", "woken"},
         Status \in stale => Status \in stale',
         pc[Status] \in Behind /\ Status \notin stale' =>
           /\ kind' = kind /\ Kept
           /\ pc[Status] \in Discovers \union Tries => rootserver' = rootserver
  PROVE  WInv'
BY AskRouses, OtherStep

\* What a query handler does leaves nothing without a thread that will look at it.
LEMMA QueryWork ==
  ASSUME IInv, WInv, NEW q \in Queries,
         QueryGoesOn(q) \/ TestOnquery(q) \/ LockServerData(q) \/ SchedServerTest(q)
  PROVE  WInv'
<1>. USE DEF At, Free, flags
<1>t. q \in Threads \ {Status} /\ Status \in Threads /\ Status \in Walkers /\ Status # q
  BY ThreadAssumption DEF Threads, Walkers
<1>p. pc \in [Threads -> Places] /\ at \in [Walkers -> [sec : Sections, adr : Int, last : Int, back : Backs]]
  BY DEF IInv, Typed
<1>s. pc[q] # "idle" => main = "goes on"
  BY <1>t DEF IInv, Typed, StartsFirst
<1>l. ASSUME NEW l PROVE /\ Goes(q, l) => pc'[Status] = pc[Status]
                         /\ LeaveUsers(q, l) => \/ pc'[Status] = pc[Status]
                                                \/ pc[Status] = "waiting" /\ pc'[Status] = "woken"
  BY <1>t, <1>p DEF Goes, LeaveUsers
<1>a. ASSUME NEW r, at' = [at EXCEPT ![q] = r] PROVE at'[Status] = at[Status]
  BY <1>a, <1>t, <1>p
<1>1. CASE RetestNothing(q)
  BY <1>1, <1>t, <1>l, OtherDrops DEF RetestNothing, lockvars, locals
<1>2. CASE Uptest(q)
  BY <1>2, <1>t, <1>l, OtherDrops DEF Uptest, locals
<1>3. CASE UptestEnds(q)
  <2>1. at'[Status] = at[Status]
    BY <1>3, <1>t, <1>p DEF UptestEnds
  <2>2. pc'[Status] = pc[Status] \/ (pc[Status] = "waiting" /\ pc'[Status] = "woken")
    BY <1>3, <1>l DEF UptestEnds
  <2>3. due' \subseteq due
    BY <1>3 DEF UptestEnds
  <2>. QED BY <1>3, <1>t, <2>1, <2>2, <2>3, OtherDrops DEF UptestEnds, locals
<1>4. CASE NextSection(q)
  <2>1. at'[Status] = at[Status]
    BY <1>4, <1>t, <1>p DEF NextSection
  <2>. QED BY <1>4, <1>t, <1>l, <2>1, OtherDrops DEF NextSection, lockvars, locals
<1>5. CASE OnquerySection(q)
  <2>1. at'[Status] = at[Status] /\ pc'[Status] = pc[Status]
    BY <1>5, <1>t, <1>p DEF OnquerySection, Retests, Goes
  <2>2. UNCHANGED <<servers_lock, flags, servstat_thrid, config, keep_testing, main, history>>
    BY <1>5 DEF OnquerySection, lockvars, locals
  <2>3. due' \subseteq due \/ (Sec(q) \in rootserver /\ due' = due \union All(Sec(q)))
    BY <1>5 DEF OnquerySection
  <2>4. CASE due' \subseteq due
    BY <1>5, <1>t, <2>1, <2>2, <2>4, OtherDrops DEF OnquerySection
  <2>5. CASE Sec(q) \in rootserver /\ due' = due \union All(Sec(q))
    <3>1. Sec(q) \in Sections
      BY <2>5 DEF WInv, DataTyped, Roots
    <3>2. UNCHANGED <<kind, rootserver, retest_flag, signal_interrupt, lost, stale>>
      BY <2>2 DEF config, flags, history
    <3>3. DataTyped'
      BY <2>5, <3>1, <3>2, <2>2 DEF WInv, DataTyped, All, Roots
    <3>4. Kept
      BY <2>2, <2>5, <3>2 DEF Kept, Excused, Keeps, Left, All
    <3>5. due \subseteq rootserver \X Addrs => due' \subseteq rootserver' \X Addrs
      BY <2>5, <3>2 DEF All
    <3>. QED BY <1>5, <1>t, <2>1, <2>2, <3>2, <3>3, <3>4, <3>5, OtherStep DEF OnquerySection, Left
  <2>. QED BY <2>3, <2>4, <2>5
<1>6. CASE OnqueryEnds(q)
  <2>1. UNCHANGED <<kind, rootserver, due, signal_interrupt, keep_testing, main, stale, lost, at>>
    BY <1>6 DEF OnqueryEnds, config, history, locals
  <2>2. CASE AskTestFlagged(q, "idle")
    <3>1. DataTyped' /\ Kept
      BY <2>1, <2>2 DEF WInv, DataTyped, Roots, AskTestFlagged, Kept, Excused, Keeps, Left
    <3>2. /\ main = "goes on" /\ servers_lock \in {"nobody", q} /\ servers_lock' \in {"nobody", q}
          /\ at'[Status] = at[Status] /\ AskTest(q, "idle")
      BY <1>6, <1>s, <2>1, <2>2 DEF OnqueryEnds, AskTestFlagged
    <3>. QED BY <1>t, <2>1, <3>1, <3>2, AskStep DEF Places
  <2>3. CASE Goes(q, "idle") /\ UNCHANGED <<servstat_thrid, retest_flag>>
    <3>1. pc'[Status] = pc[Status]
      BY <2>3, <1>l
    <3>. QED BY <1>6, <1>t, <2>1, <2>3, <3>1, OtherDrops DEF OnqueryEnds, config, history
  <2>. QED BY <1>6, <2>2, <2>3 DEF OnqueryEnds
<1>7. CASE UnlockServerData(q)
  BY <1>7, <1>t, <1>l, OtherDrops DEF UnlockServerData, locals
<1>8. CASE TestOnquery(q)
  BY <1>8, <1>t, <1>l, OtherDrops DEF TestOnquery, locals
<1>9. CASE LockServerData(q)
  BY <1>9, <1>t, <1>l, OtherDrops DEF LockServerData, locals
<1>10. CASE SchedServerTest(q)
  <2>1. UNCHANGED <<servers_lock, retest_flag, signal_interrupt, servstat_thrid, kind, rootserver, keep_testing, main, stale, lost, at>>
    BY <1>10 DEF SchedServerTest, lockvars, flags, config, locals, history
  <2>2. PICK s \in Sections, a \in Addrs :
          /\ NeedsTesting(kind[s])
          /\ \/ due' = due \ {<<s, a>>} /\ UNCHANGED pc
             \/ /\ due' = due \union {<<s, a>>}
                /\ pc' = [pc EXCEPT ![Status] = IF @ = "asleep" THEN "roused" ELSE @]
    BY <1>10 DEF SchedServerTest
  <2>3. CASE due' = due \ {<<s, a>>} /\ UNCHANGED pc
    BY <1>10, <1>t, <2>1, <2>3, OtherDrops DEF SchedServerTest, config, history
  <2>4. CASE /\ due' = due \union {<<s, a>>}
             /\ pc' = [pc EXCEPT ![Status] = IF @ = "asleep" THEN "roused" ELSE @]
    <3>1. pc'[Status] = IF pc[Status] = "asleep" THEN "roused" ELSE pc[Status]
      BY <2>4, <1>t, <1>p
    <3>2. DataTyped'
      BY <2>1, <2>4 DEF WInv, DataTyped, Roots
    <3>3. Kept
      BY <2>1, <2>2, <2>4 DEF Kept, Excused, Keeps, Left
    <3>4. pc'[Status] = "off" /\ lost = {} => s \in rootserver
      BY <2>2, <3>1 DEF WInv, Over, Left
    <3>5. pc'[Status] = "off" /\ lost = {} /\ due \subseteq rootserver \X Addrs => due' \subseteq rootserver' \X Addrs
      BY <2>1, <2>2, <2>4, <3>4
    <3>. QED BY <1>10, <1>t, <2>1, <3>1, <3>2, <3>3, <3>5, OtherStep DEF SchedServerTest, Left
  <2>. QED BY <2>2, <2>3, <2>4
<1>. QED BY <1>1, <1>2, <1>3, <1>4, <1>5, <1>6, <1>7, <1>8, <1>9, <1>10 DEF QueryGoesOn, Walk

\* Nor does a command: it sets the flag, or has the data to itself.
LEMMA ControlWork ==
  ASSUME IInv, Commanded, WInv, NEW c \in Controls,
         ControlGoesOn(c) \/ MarkServers(c) \/ LockExclusive(c)
  PROVE  WInv'
<1>. USE DEF At, Free, Serves
<1>t. c \in Threads \ {Status} /\ Status \in Threads /\ Status # c /\ "idle" \in Places
  BY ThreadAssumption DEF Threads, Places
<1>p. pc \in [Threads -> Places]
  BY DEF IInv, Typed
<1>s. pc[c] # "idle" => main = "goes on"
  BY <1>t DEF IInv, Typed, StartsFirst
<1>l. ASSUME NEW l PROVE Goes(c, l) => pc'[Status] = pc[Status]
  BY <1>t, <1>p DEF Goes
<1>1. CASE Woken(c)
  <2>1. pc'[Status] = pc[Status]
    BY <1>1, <1>l DEF Woken
  <2>. QED BY <1>1, <1>t, <2>1, OtherDrops DEF Woken, flags, locals
<1>2. CASE GivesUp(c)
  <2>1. pc'[Status] = pc[Status]
    BY <1>2, <1>l DEF GivesUp
  <2>. QED BY <1>2, <1>t, <2>1, OtherDrops DEF GivesUp, flags, locals
<1>3. CASE LockExclusive(c)
  <2>1. pc'[Status] = pc[Status]
    BY <1>3, <1>l DEF LockExclusive
  <2>2. servers_lock' \in {"nobody", c}
    BY <1>3 DEF LockExclusive
  <2>. QED BY <1>3, <1>t, <2>1, <2>2, OtherDrops DEF LockExclusive, locals
<1>4. CASE MarkServers(c)
  <2>1. /\ servers_lock = "nobody" /\ servers_lock' = "nobody" /\ main = "goes on"
        /\ UNCHANGED <<config, kind, rootserver, signal_interrupt, keep_testing, main, history, stale, lost, at>>
    BY <1>4 DEF MarkServers, lockvars, config, locals, history
  <2>2. PICK S \in {{s} : s \in Sections} \union {Sections} :
          LET addrs == UNION {All(s) : s \in S} IN
          \/ due' = due \ addrs /\ UNCHANGED <<servstat_thrid, retest_flag, pc>>
          \/ due' = due \ addrs /\ AskTestFlagged(c, "idle")
          \/ due' = due \union addrs /\ AskTestFlagged(c, "idle")
    BY <1>4 DEF MarkServers
  <2>. DEFINE addrs == UNION {All(s) : s \in S}
  <2>3. addrs \subseteq Sections \X Addrs
    BY <2>2 DEF All
  <2>. HIDE DEF addrs
  <2>4. CASE due' = due \ addrs /\ UNCHANGED <<servstat_thrid, retest_flag, pc>>
    BY <1>t, <2>1, <2>4, OtherDrops
  <2>5. CASE (due' = due \ addrs \/ due' = due \union addrs) /\ AskTestFlagged(c, "idle")
    <3>1. AskTest(c, "idle") /\ (retest_flag \/ servstat_thrid # "main" => retest_flag')
          /\ retest_flag' \in BOOLEAN
      BY <2>5 DEF AskTestFlagged, WInv, DataTyped
    <3>2. DataTyped'
      BY <2>1, <2>3, <2>5, <3>1 DEF WInv, DataTyped, Roots
    <3>3. pc[Status] \in Behind => servstat_thrid # "main"
      BY <2>1 DEF IInv, Named, Behind, Waits, Discovers, Tries
    <3>4. pc[Status] \in Behind => Kept
      BY <2>1, <2>5, <3>1, <3>3 DEF Kept, Excused, Keeps, Left
    <3>. QED BY <1>t, <2>1, <3>1, <3>2, <3>4, AskStep
  <2>. QED BY <2>2, <2>4, <2>5 DEF addrs
<1>5. CASE Change(c)
  <2>1. /\ server_data_users = 0 /\ servers_lock = c /\ servers_lock' = "nobody" /\ main = "goes on"
        /\ UNCHANGED <<kind, signal_interrupt, keep_testing, main, at>>
    BY <1>5, <1>t, <1>s DEF Change, locals, IInv, Granted
  <2>2. stale' = stale /\ pc[Status] \notin {"testing", "resolving"}
    BY <1>5, <1>t, <2>1, NoUsers DEF Change, Using, UsingPlaces
  <2>3. pc[Status] \notin Holding
    BY <1>t, <2>1 DEF WInv, Placed
  <2>4. pc[Status] \notin Discovers \union Tries
    BY <2>2, <2>3 DEF Holding, Behind, Discovers, Tries
  <2>. DEFINE s == cmd[c][2]
  <2>5. s \in Sections
    BY <1>5 DEF Change, Commanded, Commands
  <2>6. /\ rootserver' = rootserver \ {s}
        /\ \/ /\ due' = due \ All(s) /\ Goes(c, "idle") /\ UNCHANGED <<servstat_thrid, retest_flag>>
              /\ lost' = IF Left(s) THEN lost \union {"unattended"} ELSE lost
           \/ due' = due \union All(s) /\ AskTestFlagged(c, "idle") /\ lost' = lost
    BY <1>5 DEF Change, Left
  <2>. HIDE DEF s
  <2>7. CASE /\ due' = due \ All(s) /\ Goes(c, "idle") /\ UNCHANGED <<servstat_thrid, retest_flag>>
             /\ lost' = IF Left(s) THEN lost \union {"unattended"} ELSE lost
    <3>1. DataTyped'
      BY <2>1, <2>6, <2>7 DEF WInv, DataTyped, Roots
    <3>2. Kept
      BY <2>1, <2>6, <2>7 DEF Kept, Excused, Keeps, Left, All
    <3>4. lost' = {} => \A x \in Sections : Left(x) => Left(x)'
      BY <2>1, <2>6, <2>7 DEF Left
    <3>3. due \subseteq rootserver \X Addrs => due' \subseteq rootserver' \X Addrs
      BY <2>6, <2>7 DEF All
    <3>. QED BY <1>t, <1>l, <2>1, <2>2, <2>4, <2>7, <3>1, <3>2, <3>3, <3>4, OtherStep
  <2>8. CASE due' = due \union All(s) /\ AskTestFlagged(c, "idle") /\ lost' = lost
    <3>1. AskTest(c, "idle") /\ (retest_flag \/ servstat_thrid # "main" => retest_flag')
          /\ retest_flag' \in BOOLEAN
      BY <2>8 DEF AskTestFlagged, WInv, DataTyped
    <3>2. DataTyped'
      BY <2>1, <2>5, <2>6, <2>8, <3>1 DEF WInv, DataTyped, Roots, All
    <3>3. pc[Status] \in Behind => servstat_thrid # "main"
      BY <2>1 DEF IInv, Named, Behind, Waits, Discovers, Tries
    <3>4. pc[Status] \in Behind => Kept
      BY <2>1, <2>6, <2>8, <3>1, <3>3 DEF Kept, Excused, Keeps
    <3>. QED BY <1>t, <2>1, <2>2, <2>4, <2>8, <3>1, <3>2, <3>4, AskStep
  <2>. QED BY <2>6, <2>7, <2>8
<1>6. CASE Reload(c)
  <2>1. /\ server_data_users = 0 /\ servers_lock = c /\ servers_lock' = "nobody" /\ main = "goes on"
        /\ UNCHANGED <<retest_flag, signal_interrupt, keep_testing, main, lost, at>>
        /\ AskTest(c, "idle")
    BY <1>6, <1>t, <1>s DEF Reload, locals, flags, IInv, Granted
  <2>2. /\ pc[Status] \notin {"testing", "resolving"}
        /\ stale' = stale \union {t \in {Status} : pc[t] \in {"waiting", "woken"}}
    BY <1>6, <1>t, <2>1, NoUsers DEF Reload, Keeping, Using, UsingPlaces
  <2>3. pc[Status] \notin Holding
    BY <1>t, <2>1 DEF WInv, Placed
  <2>4. pc[Status] \in Behind => Status \in stale'
    BY <2>2, <2>3 DEF Holding, Behind, Discovers, Tries, Waits
  <2>5. PICK ks \in Configs : kind' = ks /\ rootserver' = Roots(ks) /\ due' = Fresh(ks)
    BY <1>6 DEF Reload
  <2>6. Fresh(ks) \subseteq Sections \X Addrs
    BY DEF Fresh, All
  <2>7. DataTyped'
    BY <2>1, <2>5, <2>6 DEF WInv, DataTyped, Roots
  <2>. QED BY <1>t, <2>1, <2>2, <2>4, <2>7, AskStep
<1>. QED BY <1>1, <1>2, <1>3, <1>4, <1>5, <1>6 DEF ControlGoesOn

\* What was dealt with stays so while requests are only dropped and nothing else is replaced.
LEMMA Carry ==
  ASSUME UNCHANGED <<kind, rootserver, retest_flag, signal_interrupt, lost>>, due' \subseteq due,
         keep_testing => keep_testing'
  PROVE  /\ \A s \in Sections, A \in SUBSET Addrs : LookedAt(s, A) => LookedAt(s, A)'
         /\ \A s \in Sections : Keeps(s) => Keeps(s)'
BY DEF LookedAt, Excused, Keeps, Left

\* A step of the status thread within a section.
LEMMA StatusStay ==
  ASSUME IInv, WInv, pc[Status] \in Behind, pc'[Status] \in Behind \union {"undefined"},
         UNCHANGED <<kind, rootserver, retest_flag, signal_interrupt, stale, lost>>, due' \subseteq due,
         keep_testing => keep_testing', keep_testing' \in BOOLEAN,
         Sec(Status)' = Sec(Status),
         pc'[Status] \in Holding => servers_lock' = Status,
         Status \in stale => pc'[Status] \in Waits \union {"undefined"},
         Status \notin stale => Here'
  PROVE  WInv'
<1>1. DataTyped'
  BY DEF WInv, DataTyped, Roots
<1>2. Placed'
  BY DEF Placed
<1>3. Progress'
  <2>. SUFFICES ASSUME Status \notin stale
                PROVE  Before'
    BY DEF Progress
  <2>1. Sec(Status) \in Sections
    BY DEF IInv, Typed, Walkers, Sec
  <2>2. \A s \in 1..(Sec(Status) - 1) : s \in Sections
    BY <2>1, SizeAssumption DEF Sections
  <2>3. Passed(1..(Sec(Status) - 1))
    BY DEF WInv, Progress, Before
  <2>4. Passed(1..(Sec(Status) - 1))'
    BY <2>2, <2>3, Carry DEF Passed
  <2>. QED BY <2>4 DEF Before
<1>4. pc'[Status] \notin {"off", "asleep"}
  BY DEF Behind, Waits, Discovers, Tries
<1>5. Over' /\ Asleep'
  BY <1>4 DEF Over, Asleep
<1>. QED BY <1>1, <1>2, <1>3, <1>5 DEF WInv

\* retest(), uptest() and the step to the next section.
LEMMA StatusWalk ==
  ASSUME IInv, WInv, Walk(Status)
  PROVE  WInv'
<1>. USE DEF At, Free
<1>t. Status \in Threads /\ Status \in Walkers
  BY DEF Threads, Walkers
<1>p. pc \in [Threads -> Places] /\ at \in [Walkers -> [sec : Sections, adr : Int, last : Int, back : Backs]]
  BY DEF IInv, Typed
<1>q. /\ Sec(Status) \in Sections /\ at[Status].adr \in Int /\ at[Status].last \in Int
      /\ at[Status].back \in Backs
  BY <1>t, <1>p DEF Sec
<1>. DEFINE s == Sec(Status)
            a == at[Status].adr
            L == {x \in Addrs : x < a}
<1>r. pc[Status] \in Tries => /\ Status \notin stale
                              /\ at[Status].back # "roottested" => LookedAt(s, L) /\ Keeps(s)
                              /\ at[Status].back = "next" => at[Status].last = NAddrs
                              /\ at[Status].back = "tested" => at[Status].last = a
                              /\ at[Status].back = "roottested" => s \in rootserver
  BY DEF WInv, Placed, Progress, Here, Tries, Waits, Discovers
\* What the rest of a section needs: the tests have dealt with the last addresses.
<1>e. ASSUME pc[Status] \in Tries, pc'[Status] = at[Status].back, at' = at, servers_lock' = Status,
             UNCHANGED <<kind, rootserver, retest_flag, signal_interrupt, stale, lost, keep_testing>>,
             due' \subseteq due,
             signal_interrupt \/ \A x \in a..at[Status].last : <<s, x>> \notin due'
      PROVE  WInv'
  <2>1. s' = s /\ L' = L /\ a' = a
    BY <1>e DEF Sec
  <2>2. (LookedAt(s, L) => LookedAt(s, L)') /\ (Keeps(s) => Keeps(s)')
    BY <1>e, <1>q, <2>1, Carry
  <2>3. CASE at[Status].back = "next"
    <3>1. \A x \in Addrs : x \in L \/ x \in a..at[Status].last
      BY <1>e, <1>r, <1>q, <2>3, SizeAssumption DEF Addrs
    <3>2. LookedAt(s, Addrs)'
      BY <1>e, <1>r, <2>1, <2>2, <2>3, <3>1 DEF LookedAt, Excused
    <3>3. Here'
      BY <1>e, <1>r, <2>1, <2>2, <2>3, <3>2 DEF Here, Passed, Tries, Waits, Discovers
    <3>. QED BY <1>e, <2>1, <2>3, <3>3, <1>r, StatusStay DEF Behind, Tries, WInv, DataTyped
  <2>4. CASE at[Status].back = "tested"
    <3>1. LookedAt(s, {x \in Addrs : x =< a})'
      BY <1>e, <1>r, <1>q, <2>1, <2>2, <2>4, SizeAssumption DEF LookedAt, Excused, Addrs
    <3>3. Here'
      BY <1>e, <1>r, <2>1, <2>2, <2>4, <3>1 DEF Here, Tries, Waits, Discovers
    <3>. QED BY <1>e, <2>1, <2>4, <3>3, <1>r, StatusStay DEF Behind, Tries, WInv, DataTyped
  <2>5. CASE at[Status].back = "roottested"
    <3>3. Here'
      BY <1>e, <1>r, <2>1, <2>5 DEF Here, Tries, Waits, Discovers
    <3>. QED BY <1>e, <2>1, <2>5, <3>3, <1>r, StatusStay DEF Behind, Tries, Discovers, WInv, DataTyped
  <2>. QED BY <1>q, <2>3, <2>4, <2>5 DEF Backs
<1>1. CASE RetestNothing(Status)
  <2>1. pc[Status] \in Tries /\ pc'[Status] = at[Status].back
    BY <1>1, <1>t, <1>p DEF RetestNothing, Goes, Tries
  <2>2. \A x \in a..at[Status].last : <<s, x>> \notin due'
    BY <1>1 DEF RetestNothing, Tests
  <2>. QED BY <1>1, <1>e, <2>1, <2>2 DEF RetestNothing, lockvars, flags, config, locals, history
<1>2. CASE Uptest(Status)
  <2>1. pc[Status] = "retest" /\ pc'[Status] = "testing"
    BY <1>2, <1>t, <1>p DEF Uptest, Goes
  <2>2. UNCHANGED <<kind, rootserver, retest_flag, signal_interrupt, stale, lost, keep_testing, due, at>>
    BY <1>2 DEF Uptest, flags, config, locals, history
  <2>3. s' = s /\ L' = L /\ a' = a
    BY <2>2 DEF Sec
  <2>4. (LookedAt(s, L) => LookedAt(s, L)') /\ (Keeps(s) => Keeps(s)')
    BY <2>2, <2>3, <1>q, Carry
  <2>5. Here'
    BY <1>r, <2>1, <2>2, <2>3, <2>4 DEF Here, Tries, Waits, Discovers
  <2>. QED BY <1>r, <2>1, <2>2, <2>3, <2>5, StatusStay DEF Behind, Tries, Holding, WInv, DataTyped
<1>3. CASE UptestEnds(Status)
  <2>1. /\ pc[Status] = "testing" /\ servers_lock' = Status
        /\ UNCHANGED <<kind, rootserver, retest_flag, signal_interrupt, stale, lost, keep_testing>>
        /\ due' \subseteq due
    BY <1>3 DEF UptestEnds, flags, config, locals, history
  <2>2. \A l : LeaveUsers(Status, l) => pc'[Status] = l
    BY <1>t DEF LeaveUsers
  <2>3. CASE LeaveUsers(Status, at[Status].back) /\ UNCHANGED at
    <3>1. signal_interrupt \/ \A x \in a..at[Status].last : <<s, x>> \notin due'
      <4>1. CASE Kind(Status).uptest = "address" /\ signal_interrupt
        BY <4>1
      <4>2. CASE Kind(Status).uptest # "address"
        BY <1>3, <4>2 DEF UptestEnds, Tests
      <4>3. CASE Kind(Status).uptest = "address" /\ ~signal_interrupt
        <5>1. a + 1 # a /\ [at EXCEPT ![Status].adr = a + 1][Status].adr = a + 1
          BY <1>t, <1>p, <1>q
        <5>2. a = at[Status].last /\ due' = due \ {<<s, a>>}
          BY <1>3, <2>3, <4>3, <5>1 DEF UptestEnds
        <5>3. \A x \in a..at[Status].last : x = a
          BY <1>q, <5>2
        <5>. QED BY <5>2, <5>3
      <4>. QED BY <4>1, <4>2, <4>3
    <3>. QED BY <1>e, <2>1, <2>2, <2>3, <3>1 DEF Tries
  <2>4. CASE /\ a < at[Status].last /\ due' = due \ {<<s, a>>}
             /\ LeaveUsers(Status, "retest") /\ at' = [at EXCEPT ![Status].adr = @ + 1]
    <3>1. /\ at'[Status].adr = a + 1 /\ Sec(Status)' = Sec(Status) /\ at'[Status].last = at[Status].last
          /\ at'[Status].back = at[Status].back
      BY <1>t, <1>p, <2>4 DEF Sec
    <3>2. pc'[Status] = "retest"
      BY <2>2, <2>4
    <3>3. at[Status].back # "roottested" => LookedAt(s, L)'
      BY <1>q, <1>r, <2>1, <2>4, <3>1 DEF LookedAt, Excused, Tries, Addrs
    <3>4. Keeps(s) => Keeps(s)'
      BY <1>q, <2>1, <3>1, Carry
    <3>5. at[Status].back # "tested"
      BY <1>r, <1>q, <2>1, <2>4 DEF Tries
    <3>6. Here'
      BY <1>r, <2>1, <3>1, <3>2, <3>3, <3>4, <3>5 DEF Here, Tries, Waits, Discovers
    <3>. QED BY <1>r, <2>1, <3>1, <3>2, <3>6, StatusStay DEF Behind, Tries, WInv, DataTyped
  <2>. QED BY <1>3, <2>3, <2>4 DEF UptestEnds
<1>4. CASE NextSection(Status)
  <2>1. /\ pc[Status] = "next" /\ servers_lock' = Status
        /\ UNCHANGED <<kind, rootserver, retest_flag, signal_interrupt, stale, lost, keep_testing, due>>
    BY <1>4 DEF NextSection, lockvars, flags, config, locals, history
  <2>2. Passed(1..(s - 1)) /\ Passed({s}) /\ Status \notin stale
    BY <2>1 DEF WInv, Placed, Progress, Before, Here, Behind, Waits
  <2>3. \A x \in 1..s : x \in Sections /\ (x \in 1..(s - 1) \/ x = s)
    BY <1>q, SizeAssumption DEF Sections
  <2>4. \A x \in 1..s : LookedAt(x, Addrs)' /\ Keeps(x)'
    <3>. TAKE x \in 1..s
    <3>1. LookedAt(x, Addrs) /\ Keeps(x)
      BY <2>2, <2>3 DEF Passed
    <3>. QED BY <2>1, <2>3, <3>1, Carry
  <2>5. DataTyped'
    BY <2>1 DEF WInv, DataTyped, Roots
  <2>6. CASE s = NSections
    <3>1. pc'[Status] = "end" /\ at'[Status].sec = 1
      BY <1>4, <1>t, <1>p, <2>6 DEF NextSection, Goes, Sec
    <3>2. \A x \in Sections : x \in 1..s
      BY <2>6 DEF Sections
    <3>3. Passed(Sections)'
      BY <2>4, <3>2 DEF Passed
    <3>4. Progress'
      BY <3>1, <3>3 DEF Progress, Before, Here, Behind, Waits, Discovers, Tries
    <3>5. Placed'
      BY <2>1, <2>2, <3>1 DEF Placed, Sec, Behind, Waits, Discovers, Tries
    <3>. QED BY <2>5, <3>1, <3>4, <3>5 DEF WInv, Over, Asleep
  <2>7. CASE s # NSections
    <3>1. pc'[Status] = "section" /\ at'[Status].sec = s + 1
      BY <1>4, <1>t, <1>p, <2>7 DEF NextSection, Goes, Sec
    <3>2. (Sec(Status) - 1)' = s
      BY <1>q, <3>1 DEF Sec, Sections
    <3>3. Passed(1..(Sec(Status) - 1))'
      BY <2>4, <3>2 DEF Passed
    <3>4. Progress'
      BY <3>1, <3>3 DEF Progress, Before, Here, Waits, Discovers, Tries
    <3>5. Placed'
      BY <2>1, <2>2, <3>1 DEF Placed, Behind
    <3>. QED BY <2>5, <3>1, <3>4, <3>5 DEF WInv, Over, Asleep
  <2>. QED BY <2>6, <2>7
<1>. QED BY <1>1, <1>2, <1>3, <1>4 DEF Walk

\* Every step of a pass, of the discovery of root servers and between passes.
LEMMA StatusWork ==
  ASSUME IInv, WInv, StatusStep
  PROVE  WInv'
<1>. USE DEF At, Free
<1>t. Status \in Threads /\ Status \in Walkers
  BY DEF Threads, Walkers
<1>p. pc \in [Threads -> Places] /\ at \in [Walkers -> [sec : Sections, adr : Int, last : Int, back : Backs]]
  BY DEF IInv, Typed
<1>q. Sec(Status) \in Sections /\ at[Status].adr \in Int
  BY <1>t, <1>p DEF Sec
<1>k. keep_testing \in BOOLEAN
  BY DEF WInv, DataTyped
<1>l. \A l : /\ Goes(Status, l) => pc'[Status] = l
             /\ LeaveUsers(Status, l) => pc'[Status] = l
  BY <1>t, <1>p DEF Goes, LeaveUsers
<1>h. pc[Status] \notin Waits \union {"undefined"} => Status \notin stale /\ Before /\ Here
  BY DEF WInv, Placed, Progress
<1>. DEFINE s == Sec(Status)
            a == at[Status].adr
            L == {x \in Addrs : x < a}
\* A pass begins, with nothing behind it.
<1>b. ASSUME pc[Status] \in {"new", "asleep", "roused", "end"}, PassBegins, servers_lock' = Status,
             UNCHANGED <<kind, rootserver, due, stale, lost, at>>, signal_interrupt' \in BOOLEAN
      PROVE  WInv'
  <2>1. pc'[Status] = "section" /\ retest_flag' = FALSE /\ keep_testing' = FALSE
    BY <1>b, <1>l DEF PassBegins
  <2>2. Sec(Status)' = 1 /\ Status \notin stale
    BY <1>b DEF WInv, Placed, Behind, Waits, Tries, Discovers, Sec
  <2>3. DataTyped' /\ Placed'
    BY <1>b, <2>1, <2>2 DEF WInv, DataTyped, Roots, Placed, Behind
  <2>4. Passed(1..(Sec(Status) - 1))'
    BY <2>2 DEF Passed
  <2>5. Progress'
    BY <2>1, <2>4 DEF Progress, Before, Here, Behind, Waits, Tries, Discovers
  <2>. QED BY <2>1, <2>3, <2>5 DEF WInv, Over, Asleep
<1>1. CASE StatusStarts
  BY <1>1, <1>b DEF StatusStarts, config, history
<1>2. CASE StatusWakes
  BY <1>2, <1>b DEF StatusWakes, config, history, WInv, DataTyped
<1>3. CASE PassEnds
  <2>1. pc[Status] = "end"
    BY <1>3 DEF PassEnds
  <2>2. CASE ~signal_interrupt /\ retest_flag /\ PassBegins /\ UNCHANGED <<servers_lock, signal_interrupt, lost>>
    BY <1>3, <1>b, <2>1, <2>2 DEF PassEnds, config, WInv, DataTyped
  <2>3. CASE /\ signal_interrupt \/ ~retest_flag
             /\ signal_interrupt' = FALSE
             /\ lost' = IF signal_interrupt THEN lost \union {"interrupted"} ELSE lost
             /\ \/ keep_testing /\ Goes(Status, "asleep")
                \/ ~keep_testing /\ Goes(Status, "off") /\ servstat_thrid' = "main"
             /\ UNCHANGED <<retest_flag, keep_testing>>
    <3>1. /\ UNCHANGED <<kind, rootserver, due, stale, at>>
      BY <1>3 DEF PassEnds, config
    <3>2. pc'[Status] \in {"asleep", "off"} /\ (pc'[Status] = "off" => ~keep_testing /\ servstat_thrid' = "main")
      BY <1>l, <2>3
    <3>3. Sec(Status) = 1 /\ Status \notin stale /\ Passed(Sections)
      BY <1>h, <2>1 DEF WInv, Placed, Here, Behind, Waits, Tries, Discovers
    <3>4. DataTyped'
      BY <2>3, <3>1 DEF WInv, DataTyped, Roots
    <3>5. Placed' /\ Progress'
      BY <3>1, <3>2, <3>3 DEF Placed, Progress, Before, Here, Behind, Holding, Waits, Tries, Discovers, Sec
    <3>6. Asleep'
      BY <2>3 DEF Asleep
    <3>7. Over'
      <4>. SUFFICES ASSUME pc'[Status] = "off", lost' = {}
                    PROVE  /\ due \subseteq rootserver \X Addrs
                           /\ \A x \in Sections : NeedsTesting(kind[x]) => Left(x)
        BY <3>1, <3>2 DEF Over, Left
      <4>1. ~signal_interrupt /\ ~retest_flag /\ ~keep_testing /\ lost = {}
        BY <2>3, <3>2
      <4>2. \A x \in Sections : NeedsTesting(kind[x]) => Left(x)
        BY <3>3, <4>1 DEF Passed, Keeps
      <4>3. \A x \in Sections, y \in Addrs : <<x, y>> \in due => x \in rootserver
        BY <3>3, <4>1, <4>2 DEF Passed, LookedAt, Excused, Left
      <4>. QED BY <4>2, <4>3 DEF WInv, DataTyped
    <3>. QED BY <3>4, <3>5, <3>6, <3>7 DEF WInv
  <2>. QED BY <1>3, <2>2, <2>3 DEF PassEnds
<1>r. ASSUME NEW i \in Int, NEW j \in Int, NEW b \in Backs, Retests(Status, i, j, b)
      PROVE  /\ pc'[Status] = "retest" /\ Sec(Status)' = s
             /\ at'[Status].adr = i /\ at'[Status].last = j /\ at'[Status].back = b
  BY <1>t, <1>p, <1>r, <1>l DEF Retests, Sec
<1>4. CASE Section
  <2>1. /\ pc[Status] = "section" /\ servers_lock' = Status
        /\ keep_testing' = (keep_testing \/ NeedsTesting(Kind(Status)))
        /\ UNCHANGED <<kind, rootserver, retest_flag, signal_interrupt, stale, lost, due>>
    BY <1>4 DEF Section, lockvars, flags, config, history
  <2>2. keep_testing' \in BOOLEAN /\ (keep_testing => keep_testing')
        /\ (NeedsTesting(kind[s]) => keep_testing')
    BY <1>k, <2>1 DEF Kind, NeedsTesting
  <2>3. Status \notin stale
    BY <1>h, <2>1 DEF Waits
  <2>4. CASE Retests(Status, 1, NAddrs, "next")
    <3>1. /\ pc'[Status] = "retest" /\ Sec(Status)' = s
          /\ at'[Status].adr = 1 /\ at'[Status].last = NAddrs /\ at'[Status].back = "next"
      BY <1>r, <2>4, SizeAssumption DEF Backs
    <3>2. LookedAt(s, L)' /\ Keeps(s)'
      BY <2>1, <2>2, <3>1 DEF LookedAt, Keeps, Addrs
    <3>3. Here'
      BY <3>1, <3>2 DEF Here, Tries, Waits, Discovers
    <3>. QED BY <2>1, <2>2, <2>3, <3>1, <3>3, StatusStay DEF Behind, Tries
  <2>5. CASE signal_interrupt /\ Goes(Status, "next") /\ UNCHANGED at
    <3>1. pc'[Status] = "next" /\ Sec(Status)' = s
      BY <1>l, <2>5 DEF Sec
    <3>2. Passed({s})'
      BY <2>1, <2>2, <2>5, <3>1 DEF Passed, LookedAt, Excused, Keeps
    <3>3. Here'
      BY <3>1, <3>2 DEF Here, Tries, Waits, Discovers
    <3>. QED BY <2>1, <2>2, <2>3, <3>1, <3>3, StatusStay DEF Behind
  <2>6. CASE at' = [at EXCEPT ![Status].adr = 1] /\ Goes(Status, "each")
    <3>1. pc'[Status] = "each" /\ Sec(Status)' = s /\ at'[Status].adr = 1
      BY <1>l, <1>t, <1>p, <2>6 DEF Sec
    <3>2. LookedAt(s, L)' /\ Keeps(s)'
      BY <2>1, <2>2, <3>1 DEF LookedAt, Keeps, Addrs
    <3>3. Here'
      BY <3>1, <3>2 DEF Here, Tries, Waits, Discovers
    <3>. QED BY <2>1, <2>2, <2>3, <3>1, <3>3, StatusStay DEF Behind
  <2>. QED BY <1>4, <2>4, <2>5, <2>6 DEF Section
<1>5. CASE Each
  <2>1. /\ pc[Status] = "each" /\ servers_lock' = Status
        /\ UNCHANGED <<kind, rootserver, retest_flag, signal_interrupt, stale, lost, due, keep_testing>>
    BY <1>5 DEF Each, lockvars, flags, config, locals, history
  <2>2. Status \notin stale /\ LookedAt(s, L) /\ Keeps(s)
    BY <1>h, <2>1 DEF Waits, Here
  <2>3. Sec(Status)' = s => Keeps(s)'
    BY <1>q, <2>1, <2>2, Carry
  <2>4. ASSUME NEW x \in a..NAddrs, \A y \in a..(x - 1) : <<s, y>> \notin due, Retests(Status, x, x, "tested")
        PROVE  WInv'
    <3>1. /\ pc'[Status] = "retest" /\ Sec(Status)' = s
          /\ at'[Status].adr = x /\ at'[Status].last = x /\ at'[Status].back = "tested"
      BY <1>q, <1>r, <2>4, SizeAssumption DEF Backs
    <3>2. LookedAt(s, L)'
      <4>1. \A y \in Addrs : y < x => y < a \/ y \in a..(x - 1)
        BY <1>q, SizeAssumption DEF Addrs
      <4>. QED BY <2>1, <2>2, <2>4, <3>1, <4>1 DEF LookedAt, Excused
    <3>3. Here'
      BY <2>3, <3>1, <3>2 DEF Here, Tries, Waits, Discovers
    <3>. QED BY <1>k, <2>1, <2>2, <3>1, <3>3, StatusStay DEF Behind, Tries
  <2>5. CASE /\ signal_interrupt \/ \A x \in a..NAddrs : <<s, x>> \notin due
             /\ Goes(Status, "next") /\ UNCHANGED at
    <3>1. pc'[Status] = "next" /\ Sec(Status)' = s
      BY <1>l, <2>5 DEF Sec
    <3>2. LookedAt(s, Addrs)'
      <4>1. \A y \in Addrs : y < a \/ y \in a..NAddrs
        BY <1>q, SizeAssumption DEF Addrs
      <4>. QED BY <2>1, <2>2, <2>5, <3>1, <4>1 DEF LookedAt, Excused
    <3>3. Here'
      BY <2>3, <3>1, <3>2 DEF Here, Passed, Tries, Waits, Discovers
    <3>. QED BY <1>k, <2>1, <2>2, <3>1, <3>3, StatusStay DEF Behind
  <2>. QED BY <1>5, <2>4, <2>5 DEF Each
<1>6. CASE Tested
  <2>1. /\ pc[Status] = "tested" /\ servers_lock' = Status
        /\ UNCHANGED <<kind, rootserver, retest_flag, signal_interrupt, stale, lost, due, keep_testing>>
    BY <1>6 DEF Tested, lockvars, flags, config, locals, history
  <2>2. pc'[Status] = "each" /\ Sec(Status)' = s /\ at'[Status].adr = a + 1
    BY <1>6, <1>l, <1>t, <1>p DEF Tested, Sec
  <2>3. Status \notin stale /\ LookedAt(s, {x \in Addrs : x =< a}) /\ Keeps(s)
    BY <1>h, <2>1 DEF Waits, Here
  <2>4. LookedAt(s, L)' /\ Keeps(s)'
    BY <1>q, <2>1, <2>2, <2>3 DEF LookedAt, Excused, Keeps, Left, Addrs
  <2>5. Here'
    BY <2>2, <2>4 DEF Here, Tries, Waits, Discovers
  <2>. QED BY <1>k, <2>1, <2>2, <2>3, <2>5, StatusStay DEF Behind
<1>7. CASE RootSection
  <2>1. /\ pc[Status] = "section" /\ servers_lock' = Status /\ s \in rootserver
        /\ UNCHANGED <<kind, rootserver, retest_flag, signal_interrupt, stale, lost, keep_testing>>
        /\ due' \subseteq due
    BY <1>7 DEF RootSection, lockvars, flags, config, locals, history
  <2>2. Status \notin stale
    BY <1>h, <2>1 DEF Waits
  <2>3. CASE UNCHANGED at /\ (Goes(Status, "rootup") \/ Goes(Status, "rootdown"))
    <3>1. pc'[Status] \in {"rootup", "rootdown"} /\ Sec(Status)' = s
      BY <1>l, <2>3 DEF Sec
    <3>2. Here'
      BY <2>1, <3>1 DEF Here, Tries, Waits, Discovers
    <3>. QED BY <1>k, <2>1, <2>2, <3>1, <3>2, StatusStay DEF Behind, Discovers
  <2>4. CASE Retests(Status, 1, NAddrs, "roottested")
    <3>1. pc'[Status] = "retest" /\ Sec(Status)' = s /\ at'[Status].back = "roottested"
      BY <1>r, <2>4, SizeAssumption DEF Backs
    <3>2. Here'
      BY <2>1, <3>1 DEF Here, Tries, Waits, Discovers
    <3>. QED BY <1>k, <2>1, <2>2, <3>1, <3>2, StatusStay DEF Behind, Tries
  <2>. QED BY <1>7, <2>3, <2>4 DEF RootSection
\* From here on the thread stays in its section, with the same addresses due.
<1>d. ASSUME pc[Status] \in Discovers
      PROVE  Status \notin stale /\ s \in rootserver /\ LookedAt(s, Addrs)
  BY <1>d, <1>h DEF Here, Discovers, Tries, Waits, LookedAt, Excused
<1>u. ASSUME UNCHANGED <<due, at, kind, rootserver, retest_flag, signal_interrupt>>
      PROVE  /\ Sec(Status)' = s
             /\ LookedAt(s, Addrs) => LookedAt(s, Addrs)'
             /\ s \in rootserver => (s \in rootserver)'
             /\ keep_testing' = TRUE => Keeps(s)'
  BY <1>u DEF LookedAt, Excused, Sec, Keeps
<1>8. CASE RootTested
  <2>1. /\ pc[Status] = "roottested" /\ servers_lock' = Status
        /\ UNCHANGED <<kind, rootserver, retest_flag, signal_interrupt, stale, lost, due, keep_testing, at>>
    BY <1>8 DEF RootTested, lockvars, flags, config, locals, history
  <2>2. pc'[Status] \in {"rootup", "rootdown"}
    BY <1>8, <1>l DEF RootTested
  <2>3. Status \notin stale /\ s \in rootserver
    BY <1>d, <2>1 DEF Discovers
  <2>4. Here'
    BY <1>u, <2>1, <2>2, <2>3 DEF Here, Tries, Waits, Discovers
  <2>. QED BY <1>k, <1>u, <2>1, <2>2, <2>3, <2>4, StatusStay DEF Behind, Discovers
<1>9. CASE RootDown
  <2>1. /\ pc[Status] = "rootdown" /\ servers_lock' = Status
        /\ UNCHANGED <<kind, rootserver, retest_flag, signal_interrupt, stale, lost, due, at>>
        /\ keep_testing' = (keep_testing \/ NeedsIntermittentTesting(Kind(Status)))
    BY <1>9 DEF RootDown, lockvars, flags, config, history
  <2>2. pc'[Status] = "next"
    BY <1>9, <1>l DEF RootDown
  <2>3. Status \notin stale /\ s \in rootserver /\ LookedAt(s, Addrs)
    BY <1>d, <2>1 DEF Discovers
  <2>4. /\ keep_testing' \in BOOLEAN /\ (keep_testing => keep_testing')
        /\ NeedsIntermittentTesting(kind[s]) => keep_testing'
    BY <1>k, <2>1 DEF Kind, NeedsIntermittentTesting
  <2>5. NeedsTesting(kind[s]) => keep_testing' \/ Left(s)
    BY <2>3, <2>4 DEF Left, Unattended
  <2>6. Keeps(s)'
    BY <1>u, <2>1, <2>5 DEF Keeps, Left
  <2>7. Here'
    BY <1>u, <2>1, <2>2, <2>3, <2>6 DEF Here, Passed, Tries, Waits, Discovers
  <2>. QED BY <1>u, <2>1, <2>2, <2>3, <2>4, <2>7, StatusStay DEF Behind, Discovers
<1>10. CASE ResolvRootserverAddrs
  <2>1. /\ pc[Status] = "rootup"
        /\ UNCHANGED <<kind, rootserver, retest_flag, signal_interrupt, stale, lost, due, keep_testing, at>>
    BY <1>10 DEF ResolvRootserverAddrs, lockvars, flags, config, locals, history
  <2>2. pc'[Status] = "resolving"
    BY <1>10, <1>l DEF ResolvRootserverAddrs
  <2>3. Status \notin stale /\ s \in rootserver
    BY <1>d, <2>1 DEF Discovers
  <2>4. Here'
    BY <1>u, <2>1, <2>2, <2>3 DEF Here, Tries, Waits, Discovers
  <2>. QED BY <1>k, <1>u, <2>1, <2>2, <2>3, <2>4, StatusStay DEF Behind, Discovers, Holding
<1>11. CASE Resolved
  <2>1. /\ pc[Status] = "resolving" /\ servers_lock' = Status
        /\ UNCHANGED <<kind, rootserver, retest_flag, signal_interrupt, stale, lost, due, at>>
    BY <1>11 DEF Resolved, flags, config, history
  <2>2. \/ pc'[Status] = "filling" /\ keep_testing' = keep_testing
        \/ pc'[Status] = "next" /\ keep_testing' = TRUE
    BY <1>11, <1>l DEF Resolved
  <2>3. Status \notin stale /\ s \in rootserver /\ LookedAt(s, Addrs)
    BY <1>d, <2>1 DEF Discovers
  <2>4. Here'
    BY <1>u, <2>1, <2>2, <2>3 DEF Here, Passed, Tries, Waits, Discovers
  <2>5. keep_testing' \in BOOLEAN /\ (keep_testing => keep_testing')
    BY <1>k, <2>2
  <2>6. pc'[Status] \in Behind
    BY <2>2 DEF Behind, Waits
  <2>. QED BY <1>u, <2>1, <2>3, <2>4, <2>5, <2>6, StatusStay DEF Behind, Discovers
\* The wait for the users, which a reload may make hopeless.
<1>w. ASSUME pc[Status] \in Waits, pc'[Status] \in Waits,
             UNCHANGED <<due, at, kind, rootserver, retest_flag, signal_interrupt, stale, lost>>,
             keep_testing' \in BOOLEAN, keep_testing => keep_testing',
             pc'[Status] = "filling" => servers_lock' = Status
      PROVE  WInv'
  <2>1. Status \notin stale => LookedAt(s, Addrs)
    BY <1>w DEF WInv, Progress, Here
  <2>2. Status \notin stale => Here'
    BY <1>u, <1>w, <2>1 DEF Here, Tries, Waits, Discovers
  <2>3. pc'[Status] \in Holding => servers_lock' = Status
    BY <1>w DEF Holding, Behind, Waits
  <2>. QED BY <1>u, <1>w, <2>2, <2>3, StatusStay DEF Behind
<1>12. CASE FillWaits
  <2>1. UNCHANGED <<due, at, kind, rootserver, retest_flag, signal_interrupt, stale, lost, keep_testing>>
    BY <1>12 DEF FillWaits, flags, config, locals, history
  <2>2. pc[Status] \in Waits /\ pc'[Status] = "waiting"
    BY <1>12, <1>l DEF FillWaits, Waits
  <2>. QED BY <1>k, <1>w, <2>1, <2>2 DEF Waits
<1>13. CASE FillWoken
  <2>1. UNCHANGED <<due, at, kind, rootserver, retest_flag, signal_interrupt, stale, lost, keep_testing>>
    BY <1>13 DEF FillWoken, flags, config, locals, history
  <2>2. pc[Status] \in Waits /\ pc'[Status] = "filling" /\ servers_lock' = Status
    BY <1>13, <1>l DEF FillWoken, Waits
  <2>. QED BY <1>k, <1>w, <2>1, <2>2 DEF Waits
<1>14. CASE FillTimesOut
  <2>1. /\ UNCHANGED <<due, at, kind, rootserver, retest_flag, signal_interrupt, stale, lost>>
        /\ keep_testing' = TRUE
    BY <1>14 DEF FillTimesOut, flags, config, locals, history
  <2>2. pc[Status] \in Waits /\ pc'[Status] = "woken"
    BY <1>14, <1>l DEF FillTimesOut, Waits
  <2>. QED BY <1>w, <2>1, <2>2 DEF Waits
<1>15. CASE Fill
  <2>1. /\ pc[Status] = "filling" /\ servers_lock' = Status /\ Status \notin stale
        /\ UNCHANGED <<kind, retest_flag, signal_interrupt, stale, at, lost>>
    BY <1>15 DEF Fill, lockvars, flags, history
  <2>2. Before /\ LookedAt(s, Addrs)
    BY <2>1 DEF WInv, Progress, Here, Waits
  <2>3. CASE keep_testing' = TRUE /\ Goes(Status, "next") /\ UNCHANGED <<rootserver, due>>
    <3>1. pc'[Status] = "next"
      BY <1>l, <2>3
    <3>2. Here'
      BY <1>u, <2>1, <2>2, <2>3, <3>1 DEF Here, Passed, Tries, Waits, Discovers
    <3>. QED BY <1>u, <2>1, <2>3, <3>1, <3>2, StatusStay DEF Behind, Waits
  <2>4. CASE /\ rootserver' = rootserver \ {s}
             /\ due' = due \union All(s) \/ due' = due \ All(s)
             /\ Goes(Status, "section") /\ UNCHANGED keep_testing
    <3>1. pc'[Status] = "section" /\ Sec(Status)' = s
      BY <1>l, <2>1, <2>4 DEF Sec
    <3>2. \A x \in 1..(s - 1) : x \in Sections /\ x # s
      BY <1>q, SizeAssumption DEF Sections
    <3>3. \A x \in 1..(s - 1) : LookedAt(x, Addrs) /\ Keeps(x)
      BY <2>1, <2>2 DEF Before, Passed, Behind, Waits
    <3>4. \A x \in 1..(s - 1) : LookedAt(x, Addrs)' /\ Keeps(x)'
      BY <2>1, <2>4, <3>2, <3>3 DEF LookedAt, Excused, Keeps, Left, All
    <3>5. Passed(1..(Sec(Status) - 1))'
      BY <3>1, <3>4 DEF Passed
    <3>6. Progress'
      BY <3>1, <3>5 DEF Progress, Before, Here, Tries, Waits, Discovers
    <3>7. DataTyped'
      BY <1>q, <2>1, <2>4 DEF WInv, DataTyped, Roots, All
    <3>8. Placed'
      BY <2>1, <3>1 DEF Placed, Behind
    <3>. QED BY <3>1, <3>6, <3>7, <3>8 DEF WInv, Over, Asleep
  <2>. QED BY <1>15, <2>3, <2>4 DEF Fill
<1>16. CASE FillUndefined
  <2>1. /\ pc[Status] = "filling"
        /\ UNCHANGED <<due, at, kind, rootserver, retest_flag, signal_interrupt, stale, lost, keep_testing>>
    BY <1>16 DEF FillUndefined, flags, config, locals, history
  <2>2. pc'[Status] = "undefined"
    BY <1>16, <1>l DEF FillUndefined
  <2>3. Here' /\ pc'[Status] \notin Holding
    BY <2>2 DEF Here, Holding, Behind, Tries, Waits, Discovers
  <2>. QED BY <1>k, <1>u, <2>1, <2>2, <2>3, StatusStay DEF Behind, Waits
<1>17. CASE Walk(Status)
  BY <1>17, StatusWalk
<1>. QED BY <1>1, <1>2, <1>3, <1>4, <1>5, <1>6, <1>7, <1>8, <1>9, <1>10, <1>11, <1>12, <1>13, <1>14, <1>15,
         <1>16, <1>17 DEF StatusStep

-----------------------------------------------------------------------------
LEMMA WorkInit == Init => WInv /\ Commanded
<1>. SUFFICES ASSUME Init PROVE WInv /\ Commanded
  OBVIOUS
<1>t. Status \in Threads /\ Status \in Walkers /\ Status \notin Controls /\ Controls \subseteq Threads
  BY ThreadAssumption DEF Threads, Walkers
<1>1. pc[Status] = "new" /\ Sec(Status) = 1
  BY <1>t DEF Init, Sec
<1>2. DataTyped
  <2>1. Fresh(kind) \subseteq Sections \X Addrs
    BY DEF Fresh, All
  <2>. QED BY <2>1 DEF Init, DataTyped
<1>3. Placed /\ Progress /\ Over /\ Asleep
  BY <1>1 DEF Init, Placed, Progress, Before, Here, Over, Asleep, Holding, Behind, Tries, Waits, Discovers
<1>4. Commanded
  BY <1>t DEF Init, Commanded
<1>. QED BY <1>2, <1>3, <1>4 DEF WInv

LEMMA WorkNext ==
  ASSUME IInv, Commanded, WInv, [Next]_vars
  PROVE  WInv'
<1>1. CASE UNCHANGED vars
  <2>1. UNCHANGED <<servers_lock, retest_flag, signal_interrupt, servstat_thrid, kind, rootserver, due, pc, at,
                    keep_testing, main, stale, lost>>
    BY <1>1 DEF vars, lockvars, flags, config, locals, history
  <2>2. DataTyped' /\ Placed'
    BY <2>1 DEF WInv, DataTyped, Placed, Sec, Roots
  <2>3. Progress'
    BY <2>1 DEF WInv, Progress, Before, Here, Passed, LookedAt, Excused, Keeps, Left, Sec
  <2>4. Over' /\ Asleep'
    BY <2>1 DEF WInv, Over, Left, Asleep
  <2>. QED BY <2>2, <2>3, <2>4 DEF WInv
<1>2. CASE SigintHandler
  <2>1. /\ signal_interrupt' = TRUE
        /\ UNCHANGED <<servers_lock, retest_flag, servstat_thrid, kind, rootserver, due, pc, at, keep_testing,
                       main, stale, lost>>
    BY <1>2 DEF SigintHandler, lockvars, config, locals, history
  <2>2. \A s : Keeps(s) => Keeps(s)'
    BY <2>1 DEF Keeps, Left
  <2>3. \A s : \A A : LookedAt(s, A)'
    BY <2>1 DEF LookedAt, Excused
  <2>4. \A S : Passed(S) => Passed(S)'
    BY <2>2, <2>3 DEF Passed
  <2>5. DataTyped' /\ Placed'
    BY <2>1 DEF WInv, DataTyped, Placed, Sec, Roots
  <2>6. Progress'
    BY <2>1, <2>2, <2>3, <2>4 DEF WInv, Progress, Before, Here, Sec
  <2>7. Over' /\ Asleep'
    BY <2>1 DEF WInv, Over, Left, Asleep
  <2>. QED BY <2>5, <2>6, <2>7 DEF WInv
<1>3. CASE MainGoesOn
  <2>1. /\ lost' = IF pc[Status] = "off" THEN lost \union {"late"} ELSE lost
        /\ UNCHANGED <<servers_lock, retest_flag, signal_interrupt, kind, rootserver, due, pc, at, keep_testing,
                       stale>>
    BY <1>3 DEF MainGoesOn, lockvars, flags, config, locals
  <2>2. DataTyped' /\ Placed'
    BY <2>1 DEF WInv, DataTyped, Placed, Sec, Roots
  <2>3. Progress'
    BY <2>1 DEF WInv, Progress, Before, Here, Passed, LookedAt, Excused, Keeps, Left, Sec
  <2>4. Over' /\ Asleep'
    BY <2>1 DEF WInv, Over, Left, Asleep
  <2>. QED BY <2>2, <2>3, <2>4 DEF WInv
<1>4. ASSUME NEW q \in Queries,
             QueryGoesOn(q) \/ TestOnquery(q) \/ LockServerData(q) \/ SchedServerTest(q)
      PROVE  WInv'
  BY <1>4, QueryWork
<1>5. ASSUME NEW c \in Controls, ControlGoesOn(c) \/ MarkServers(c) \/ LockExclusive(c)
      PROVE  WInv'
  BY <1>5, ControlWork
<1>. QED BY <1>1, <1>2, <1>3, <1>4, <1>5, StatusWork DEF Next

\* Whatever a query handler or a command asks for while the status thread is in a pass, asleep or
\* over, another pass or an awake thread will look at it, unless a signal cut a pass short, the
\* thread ended before main() stored its name, or a command gave addresses to a section with root
\* servers that is tested on time-outs only (servstat_thread, sched_server_test, change_servers).
THEOREM RequestsAreKept == Spec => []NothingForgotten
<1>1. Init => IInv /\ Commanded /\ WInv
  BY InitHolds, WorkInit
<1>2. IInv /\ Commanded /\ WInv /\ [Next]_vars => (IInv /\ Commanded /\ WInv)'
  BY NextKeeps, CommandedStep, WorkNext
<1>3. WInv => NothingForgotten
  BY DEF WInv, Over, Asleep, NothingForgotten
<1>. QED BY <1>1, <1>2, <1>3, PTL DEF Spec
====
