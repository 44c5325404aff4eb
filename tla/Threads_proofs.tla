--------------------------- MODULE Threads_proofs ---------------------------
(***************************************************************************)
(* The small machines of threads. What lives beside a session: the traffic *)
(* counters, those who are told of them, and the threads at the socket     *)
(* files; each for any number of threads, bytes, sessions, clients and     *)
(* changes of the screen.                                                  *)
(*                                                                         *)
(* libev's loop and its event pipe: the loop does not sleep on a signal or *)
(* an async, however many of them there are and wherever they interrupt it.*)
(*                                                                         *)
(* The guard of a child process: for any set of destroying threads, with   *)
(* and without a restart callback, and for any number of children, the     *)
(* guard leaves no orphan, destroy() throws only when there is nothing to  *)
(* stop, nothing is spawned after it, and it implements ManagedProcess.    *)
(***************************************************************************)
EXTENDS TrafficMonitor, TrafficCallbacks, LocalServer, EvPipe, GuardedProcess,
        FiniteSetTheorems, TLAPS

----------------------------------------------------------------------------
(* The traffic counters. *)

\* What a thread has still to do: nothing, a part of updateRate(), or a part of a method that marks the
\* counters at its end, update() or reset().
Asking == {<<"dirty">>, <<"still">>,
           <<"total", "rate", "total", "last", "clean">>, <<"rate", "total", "last", "clean">>,
           <<"total", "last", "clean">>, <<"last", "clean">>, <<"clean">>}
Marking == {<<"assign", "mark">>, <<"mark">>, <<"zeroRate", "zeroTotal", "zeroLast", "mark">>,
            <<"zeroTotal", "zeroLast", "mark">>, <<"zeroLast", "mark">>}

MonitorTypeOK ==
  /\ {txTotal, txLast, txRate, counted} \subseteq Int /\ dirty \in BOOLEAN
  /\ read \in [Threads -> Int]
  /\ prog \in [Threads -> {<<>>} \union Asking \union Marking]

\* Only one method has ever run at a time,
OneAtATime == \A t, u \in Threads : ~Idle(t) /\ ~Idle(u) => t = u

\* and unless it has still to mark the counters, what is not marked has been looked at; a query that is
\* about to store or to clear the mark has read the present total.
LookedAt ==
  /\ (\A t \in Threads : prog[t] \notin Marking) => (~dirty => txLast = txTotal)
  /\ \A t \in Threads : /\ prog[t] = <<"last", "clean">> => read[t] = txTotal
                        /\ prog[t] = <<"clean">> => txLast = txTotal

MonitorInv == MonitorTypeOK /\ (races = {} => OneAtATime /\ LookedAt)

\* The accesses come in their order (updateRate(), update(), reset()).
LEMMA Accesses ==
  /\ \A s \in Asking \union Marking : s # <<>>
  /\ Head(<<"dirty">>) = "dirty" /\ Tail(<<"dirty">>) = <<>>
  /\ Head(<<"still">>) = "still" /\ Tail(<<"still">>) = <<>>
  /\ Head(<<"clean">>) = "clean" /\ Tail(<<"clean">>) = <<>>
  /\ Head(<<"mark">>) = "mark" /\ Tail(<<"mark">>) = <<>>
  /\ Head(<<"last", "clean">>) = "last" /\ Tail(<<"last", "clean">>) = <<"clean">>
  /\ Head(<<"total", "last", "clean">>) = "total" /\ Tail(<<"total", "last", "clean">>) = <<"last", "clean">>
  /\ Head(<<"rate", "total", "last", "clean">>) = "rate"
  /\ Tail(<<"rate", "total", "last", "clean">>) = <<"total", "last", "clean">>
  /\ Head(<<"total", "rate", "total", "last", "clean">>) = "total"
  /\ Tail(<<"total", "rate", "total", "last", "clean">>) = <<"rate", "total", "last", "clean">>
  /\ Head(<<"assign", "mark">>) = "assign" /\ Tail(<<"assign", "mark">>) = <<"mark">>
  /\ Head(<<"zeroLast", "mark">>) = "zeroLast" /\ Tail(<<"zeroLast", "mark">>) = <<"mark">>
  /\ Head(<<"zeroTotal", "zeroLast", "mark">>) = "zeroTotal"
  /\ Tail(<<"zeroTotal", "zeroLast", "mark">>) = <<"zeroLast", "mark">>
  /\ Head(<<"zeroRate", "zeroTotal", "zeroLast", "mark">>) = "zeroRate"
  /\ Tail(<<"zeroRate", "zeroTotal", "zeroLast", "mark">>) = <<"zeroTotal", "zeroLast", "mark">>
BY DEF Asking, Marking

\* What is left of a method after an access is left of that method, and the two kinds differ.
LEMMA Leftovers ==
  /\ \A s \in Asking : /\ Tail(s) \in {<<>>} \union Asking
                       /\ Tail(s) = <<"last", "clean">> => s = <<"total", "last", "clean">>
                       /\ Tail(s) = <<"clean">> => s = <<"last", "clean">>
                       /\ Head(s) \in {"dirty", "still", "total", "rate", "last", "clean"}
                       /\ Head(s) = "last" => s = <<"last", "clean">>
                       /\ Head(s) = "clean" => s = <<"clean">>
                       /\ Head(s) = "dirty" => s = <<"dirty">>
                       /\ Head(s) = "still" => s = <<"still">>
  /\ \A s \in Marking : /\ Tail(s) \in {<<>>} \union Marking
                        /\ Head(s) \in {"assign", "mark", "zeroRate", "zeroTotal", "zeroLast"}
                        /\ Head(s) # "mark" => Tail(s) \in Marking
                        /\ Head(s) = "mark" => s = <<"mark">>
  /\ <<>> \notin Asking \union Marking /\ Asking \intersect Marking = {}
  /\ Tail(<<"mark">>) = <<>> /\ Tail(<<"clean">>) = <<>> /\ Tail(<<"still">>) = <<>> /\ Tail(<<"dirty">>) = <<>>
  /\ Tail(<<"last", "clean">>) = <<"clean">>
<1>1. \A s \in Asking : Head(s) \in {"dirty", "still", "total", "rate", "last", "clean"}
      BY Accesses DEF Asking
<1>2. \A s \in Marking : Head(s) \in {"assign", "mark", "zeroRate", "zeroTotal", "zeroLast"}
      BY Accesses DEF Marking
<1>3. Asking \intersect Marking = {}
      BY <1>1, <1>2
<1>4. <<>> \notin Asking \union Marking
      BY Accesses
<1>5. \A s \in Asking : Tail(s) \in {<<>>} \union Asking
      BY Accesses DEF Asking
<1>6. \A s \in Marking : Tail(s) \in {<<>>} \union Marking
      BY Accesses DEF Marking
<1>7. \A s \in Marking : Head(s) # "mark" => Tail(s) \in Marking
      BY Accesses DEF Marking
<1>8. \A s \in Marking : Head(s) = "mark" => s = <<"mark">>
      BY Accesses DEF Marking
<1>9. ASSUME NEW s \in Asking
      PROVE  /\ Tail(s) = <<"last", "clean">> => s = <<"total", "last", "clean">>
             /\ Tail(s) = <<"clean">> => s = <<"last", "clean">>
             /\ Head(s) = "last" => s = <<"last", "clean">>
             /\ Head(s) = "clean" => s = <<"clean">>
             /\ Head(s) = "dirty" => s = <<"dirty">>
             /\ Head(s) = "still" => s = <<"still">>
      BY <1>9, Accesses DEF Asking
<1> QED BY <1>1, <1>2, <1>3, <1>4, <1>5, <1>6, <1>7, <1>8, <1>9, Accesses
Ops == {"dirty", "still", "total", "rate", "last", "clean", "assign", "mark", "zeroRate", "zeroTotal", "zeroLast"}

\* A thread that makes an access has the rest before it, and the others go on where they are (Goes).
LEMMA Onward ==
  ASSUME MonitorTypeOK, NEW t \in Threads, NEW op, At(t, op), Goes(t, <<>>)
  PROVE  /\ prog' = [prog EXCEPT ![t] = Tail(prog[t])]
         /\ prog[t] \in Asking \union Marking /\ Head(prog[t]) = op
         /\ prog'[t] = Tail(prog[t]) /\ \A u \in Threads : u # t => prog'[u] = prog[u]
<1>1. prog[t] \in Asking \union Marking /\ Head(prog[t]) = op
      BY DEF At, Idle, MonitorTypeOK
<1>2. Asking \union Marking \subseteq Seq(Ops)
  <2>1. \A a, b, c, d, e \in Ops :
          {<<a>>, <<a, b>>, <<a, b, c>>, <<a, b, c, d>>, <<a, b, c, d, e>>} \subseteq Seq(Ops)
        OBVIOUS
  <2>2. /\ {"dirty", "still", "total", "rate", "last", "clean"} \subseteq Ops
        /\ {"assign", "mark", "zeroRate", "zeroTotal", "zeroLast"} \subseteq Ops
        BY DEF Ops
  <2>3. /\ <<"dirty">> \in Seq(Ops) /\ <<"still">> \in Seq(Ops) /\ <<"clean">> \in Seq(Ops)
        /\ <<"last", "clean">> \in Seq(Ops) /\ <<"total", "last", "clean">> \in Seq(Ops)
        BY <2>1, <2>2
  <2>4. /\ <<"rate", "total", "last", "clean">> \in Seq(Ops)
        /\ <<"total", "rate", "total", "last", "clean">> \in Seq(Ops)
        BY <2>1, <2>2
  <2>5. /\ <<"assign", "mark">> \in Seq(Ops) /\ <<"mark">> \in Seq(Ops) /\ <<"zeroLast", "mark">> \in Seq(Ops)
        BY <2>1, <2>2
  <2>6. /\ <<"zeroTotal", "zeroLast", "mark">> \in Seq(Ops)
        /\ <<"zeroRate", "zeroTotal", "zeroLast", "mark">> \in Seq(Ops)
        BY <2>1, <2>2
  <2> QED BY <2>3, <2>4, <2>5, <2>6 DEF Asking, Marking
<1>3. <<>> \o Tail(prog[t]) = Tail(prog[t])
  <2>1. Tail(prog[t]) \in {<<>>} \union Asking \union Marking
        BY <1>1, Leftovers
  <2>2. Tail(prog[t]) \in Seq(Ops)
    <3>1. <<>> \in Seq(Ops)
          OBVIOUS
    <3> QED BY <1>2, <2>1, <3>1
  <2> QED BY <2>2
<1>4. prog' = [prog EXCEPT ![t] = Tail(prog[t])]
      BY <1>3 DEF Goes
<1>5. prog'[t] = Tail(prog[t]) /\ \A u \in Threads : u # t => prog'[u] = prog[u]
      BY <1>4 DEF MonitorTypeOK
<1> QED BY <1>1, <1>4, <1>5

\* Before the first session nothing is counted and the counters are marked (the fields' initial values).
LEMMA MonitorInitInv == MonitorInit => MonitorInv
<1> SUFFICES ASSUME MonitorInit PROVE MonitorInv
    OBVIOUS
<1>1. \A t \in Threads : prog[t] = <<>>
      BY DEF MonitorInit
<1>2. MonitorTypeOK
      BY DEF MonitorInit, MonitorTypeOK
<1>3. LookedAt
  <2>1. dirty /\ txLast = txTotal
        BY DEF MonitorInit
  <2>2. <<>> # <<"last", "clean">> /\ <<>> # <<"clean">>
        OBVIOUS
  <2> QED BY <1>1, <2>1, <2>2 DEF LookedAt
<1> QED BY <1>1, <1>2, <1>3 DEF MonitorInv, OneAtATime, Idle

\* The types are kept by every access and every call.
LEMMA MonitorTypeStep ==
  ASSUME MonitorTypeOK, [MonitorNext]_monitorVars
  PROVE  MonitorTypeOK'
<1> USE DEF fields, sslocal
<1>0. "pool" \in Threads /\ "main" \in Threads /\ Queriers \subseteq Threads
      BY DEF Threads
<1>1. ASSUME NEW t \in Threads, NEW op, At(t, op), Goes(t, <<>>)
      PROVE  prog' \in [Threads -> {<<>>} \union Asking \union Marking]
  <2>1. prog' = [prog EXCEPT ![t] = Tail(prog[t])] /\ prog[t] \in Asking \union Marking
        BY <1>1, Onward
  <2>2. Tail(prog[t]) \in {<<>>} \union Asking \union Marking
        BY <2>1, Leftovers
  <2> QED BY <2>1, <2>2 DEF MonitorTypeOK
<1>2. ASSUME NEW t \in Threads, NEW method, NEW steps \in {<<>>} \union Asking \union Marking, Calls(t, method, steps)
      PROVE  prog' \in [Threads -> {<<>>} \union Asking \union Marking]
      BY <1>2 DEF MonitorTypeOK, Calls
<1>3. ASSUME NEW t \in Threads, Uses(t)
      PROVE  read' \in [Threads -> Int]
      BY <1>3 DEF MonitorTypeOK, Uses
<1>4. ASSUME NEW t \in Threads, TestDirty(t)
      PROVE  MonitorTypeOK'
  <2>1. prog[t] = <<"dirty">>
        BY <1>4, Leftovers DEF TestDirty, At, Idle, MonitorTypeOK
  <2>2. \A s \in {<<"total", "rate", "total", "last", "clean">>, <<"still">>} : s \o <<>> = s /\ s \in Asking
        BY DEF Asking
  <2>3. prog' = [prog EXCEPT ![t] = IF dirty THEN <<"total", "rate", "total", "last", "clean">> ELSE <<"still">>]
        BY <1>4, <2>1, <2>2, Leftovers DEF TestDirty, Goes
  <2> QED BY <1>4, <2>2, <2>3 DEF MonitorTypeOK, TestDirty
<1>5. ASSUME NEW t \in Threads, ReadTotal(t) PROVE MonitorTypeOK'
      BY <1>1, <1>5 DEF ReadTotal, MonitorTypeOK
<1>6. ASSUME NEW t \in Threads, SetRate(t) \/ SetLast(t) PROVE MonitorTypeOK'
      BY <1>1, <1>3, <1>6 DEF SetRate, SetLast, MonitorTypeOK
<1>7. ASSUME NEW t \in Threads, Clean(t) \/ Still(t) \/ Mark(t) PROVE MonitorTypeOK'
  <2>1. prog' \in [Threads -> {<<>>} \union Asking \union Marking]
        BY <1>1, <1>7 DEF Clean, Still, Mark
  <2>2. CASE Clean(t)
        BY <2>1, <2>2 DEF Clean, MonitorTypeOK
  <2>3. CASE Still(t)
        BY <2>1, <2>3 DEF Still, MonitorTypeOK
  <2>4. CASE Mark(t)
        BY <2>1, <2>4 DEF Mark, MonitorTypeOK
  <2> QED BY <1>7, <2>2, <2>3, <2>4
<1>8. CASE Assign
      BY <1>0, <1>1, <1>3, <1>8 DEF Assign, MonitorTypeOK
<1>9. CASE ZeroStep
      BY <1>0, <1>1, <1>9 DEF ZeroStep, MonitorTypeOK
<1>10. ASSUME NEW t \in Queriers, QueryRate(t) PROVE MonitorTypeOK'
  <2>1. <<"dirty">> \in Asking
        BY DEF Asking
  <2> QED BY <1>0, <1>2, <1>10, <2>1 DEF QueryRate, MonitorTypeOK
<1>11. CASE Update
  <2>1. <<"assign", "mark">> \in Marking
        BY DEF Marking
  <2>2. prog' \in [Threads -> {<<>>} \union Asking \union Marking]
        BY <1>0, <1>2, <1>11, <2>1 DEF Update
  <2>3. read' \in [Threads -> Int]
        BY <1>0, <1>11 DEF Update, MonitorTypeOK
  <2> QED BY <1>11, <2>2, <2>3 DEF Update, MonitorTypeOK
<1>12. CASE Reset
  <2>1. <<"zeroRate", "zeroTotal", "zeroLast", "mark">> \in Marking
        BY DEF Marking
  <2> QED BY <1>0, <1>2, <1>12, <2>1 DEF Reset, MonitorTypeOK
<1>13. CASE Count \/ Restart
      BY <1>13 DEF Count, Restart, MonitorTypeOK
<1>14. CASE UNCHANGED monitorVars
      BY <1>14 DEF monitorVars, MonitorTypeOK
<1> QED BY <1>4, <1>5, <1>6, <1>7, <1>8, <1>9, <1>10, <1>11, <1>12, <1>13, <1>14 DEF MonitorNext, Step

\* A method that nothing runs beside is called when nothing else is going on (Calls).
LEMMA CalledAlone ==
  ASSUME MonitorInv, NEW t \in Threads, NEW method, NEW steps, Calls(t, method, steps), races' = {}
  PROVE  /\ races = {} /\ \A u \in Threads : prog[u] = <<>>
         /\ prog' = [prog EXCEPT ![t] = steps] /\ (~dirty => txLast = txTotal)
         /\ prog'[t] = steps /\ \A u \in Threads : u # t => prog'[u] = <<>>
<1>1. races = {} /\ \A u \in Threads : prog[u] = <<>>
      BY DEF Calls, Idle
<1>2. prog' = [prog EXCEPT ![t] = steps]
      BY DEF Calls
<1>3. ~dirty => txLast = txTotal
      BY <1>1, Leftovers DEF MonitorInv, LookedAt
<1> QED BY <1>1, <1>2, <1>3 DEF MonitorInv, MonitorTypeOK

\* Calls keep the invariant (updateRate(), update(), reset()).
LEMMA CallStep ==
  ASSUME MonitorInv, MonitorTypeOK', races' = {}, (\E t \in Queriers : QueryRate(t)) \/ Update \/ Reset
  PROVE  OneAtATime' /\ LookedAt'
<1>0. "pool" \in Threads /\ "main" \in Threads /\ Queriers \subseteq Threads
      BY DEF Threads
<1>1. UNCHANGED <<txTotal, txLast, dirty>>
      BY DEF QueryRate, Update, Reset, fields
<1>2. ASSUME NEW t \in Threads, NEW steps, NEW method, Calls(t, method, steps),
             steps \in {<<>>, <<"dirty">>} \union Marking
      PROVE  OneAtATime' /\ LookedAt'
  <2>1. /\ prog'[t] = steps /\ \A u \in Threads : u # t => prog'[u] = <<>>
        /\ ~dirty => txLast = txTotal
        BY <1>2, CalledAlone
  <2>2. \A s \in {<<>>, <<"dirty">>} \union Marking : s # <<"last", "clean">> /\ s # <<"clean">>
        BY DEF Marking
  <2> QED BY <1>1, <1>2, <2>1, <2>2 DEF OneAtATime, Idle, LookedAt
<1>3. <<"assign", "mark">> \in Marking /\ <<"zeroRate", "zeroTotal", "zeroLast", "mark">> \in Marking
      BY DEF Marking
<1> QED BY <1>0, <1>2, <1>3 DEF QueryRate, Update, Reset

\* So do accesses: no other method is under way (updateRate(), update(), reset()).
LEMMA AccessStep ==
  ASSUME MonitorInv, MonitorTypeOK', races' = {}, races = {}, NEW t \in Threads,
         Step(t) \/ (t = "pool" /\ Assign) \/ (t = "main" /\ ZeroStep)
  PROVE  OneAtATime' /\ LookedAt'
<1>1. ~Idle(t) /\ MonitorTypeOK /\ OneAtATime /\ LookedAt
      BY DEF MonitorInv, Step, At, TestDirty, ReadTotal, SetRate, SetLast, Clean, Still, Mark, Assign, ZeroStep
<1>2. \A u \in Threads : u # t => prog[u] = <<>>
      BY <1>1 DEF OneAtATime, Idle
<1>3. \A u \in Threads : u # t => prog'[u] = <<>>
      BY <1>1, <1>2 DEF Step, TestDirty, ReadTotal, SetRate, SetLast, Clean, Still, Mark, Assign, ZeroStep, Goes, MonitorTypeOK
<1>4. OneAtATime'
      BY <1>3 DEF OneAtATime, Idle
<1>5. SUFFICES /\ prog'[t] \notin Marking => (~dirty' => txLast' = txTotal')
               /\ prog'[t] = <<"last", "clean">> => read'[t] = txTotal'
               /\ prog'[t] = <<"clean">> => txLast' = txTotal'
  <2>1. <<>> # <<"last", "clean">> /\ <<>> # <<"clean">>
        OBVIOUS
  <2> QED BY <1>3, <1>4, <2>1 DEF LookedAt
<1>6. /\ prog[t] \notin Marking => (~dirty => txLast = txTotal)
      /\ prog[t] = <<"last", "clean">> => read[t] = txTotal
      /\ prog[t] = <<"clean">> => txLast = txTotal
      BY <1>1, <1>2, Leftovers DEF LookedAt
<1>7. ASSUME NEW op, At(t, op), Goes(t, <<>>)
      PROVE  /\ prog[t] \in Asking \union Marking /\ Head(prog[t]) = op /\ prog'[t] = Tail(prog[t])
             /\ prog'[t] \in Marking => prog[t] \in Marking
             /\ prog[t] \in Marking /\ op # "mark" => prog'[t] \in Marking
             /\ prog'[t] = <<"last", "clean">> => prog[t] = <<"total", "last", "clean">>
             /\ prog'[t] = <<"clean">> => prog[t] = <<"last", "clean">>
  <2>1. prog[t] \in Asking \union Marking /\ Head(prog[t]) = op /\ prog'[t] = Tail(prog[t])
        BY <1>1, <1>7, Onward
  <2>2. prog[t] \in Marking => prog'[t] # <<"last", "clean">> /\ prog'[t] # <<"clean">>
    <3>1. <<"last", "clean">> \in Asking /\ <<"clean">> \in Asking
          BY DEF Asking
    <3> QED BY <2>1, <3>1, Leftovers
  <2>3. /\ prog[t] \in Asking => prog'[t] \notin Marking
        /\ prog[t] \in Marking /\ op # "mark" => prog'[t] \in Marking
        BY <2>1, Leftovers
  <2>4. prog[t] \in Asking =>
          /\ prog'[t] = <<"last", "clean">> => prog[t] = <<"total", "last", "clean">>
          /\ prog'[t] = <<"clean">> => prog[t] = <<"last", "clean">>
        BY <2>1, Leftovers
  <2> QED BY <2>1, <2>2, <2>3, <2>4
<1>8. CASE TestDirty(t)
  <2>1. prog[t] = <<"dirty">> /\ prog[t] \in Asking
    <3>1. prog[t] \in Asking \union Marking /\ Head(prog[t]) = "dirty"
          BY <1>1, <1>8 DEF TestDirty, At, Idle, MonitorTypeOK
    <3> QED BY <3>1, Leftovers
  <2>2. \A s \in {<<"total", "rate", "total", "last", "clean">>, <<"still">>} :
          s \o <<>> = s /\ s # <<"last", "clean">> /\ s # <<"clean">>
        OBVIOUS
  <2>3. prog'[t] \in {<<"total", "rate", "total", "last", "clean">>, <<"still">>}
        BY <1>1, <1>8, <2>1, <2>2, Leftovers DEF TestDirty, Goes, MonitorTypeOK
  <2>4. UNCHANGED <<txTotal, txLast, dirty>>
        BY <1>8 DEF TestDirty, fields
  <2> QED BY <1>6, <2>1, <2>2, <2>3, <2>4, Leftovers
<1>9. CASE ReadTotal(t)
  <2>1. read'[t] = txTotal' /\ UNCHANGED <<txTotal, txLast, dirty>>
        BY <1>1, <1>9 DEF ReadTotal, fields, MonitorTypeOK
  <2>2. prog'[t] # <<"clean">>
    <3>1. prog[t] = <<"last", "clean">> => Head(prog[t]) = "last"
          BY Accesses
    <3> QED BY <1>7, <1>9, <3>1 DEF ReadTotal
  <2> QED BY <1>6, <1>7, <1>9, <2>1, <2>2 DEF ReadTotal
<1>10. CASE SetRate(t) \/ Still(t)
  <2>1. UNCHANGED <<txTotal, txLast, dirty>>
        BY <1>10 DEF SetRate, Still
  <2>2. prog'[t] # <<"last", "clean">> /\ prog'[t] # <<"clean">>
    <3>1. /\ prog[t] = <<"last", "clean">> => Head(prog[t]) = "last"
          /\ prog[t] = <<"total", "last", "clean">> => Head(prog[t]) = "total"
          BY Accesses
    <3> QED BY <1>7, <1>10, <3>1 DEF SetRate, Still
  <2> QED BY <1>6, <1>7, <1>10, <2>1, <2>2 DEF SetRate, Still
<1>11. CASE SetLast(t)
  <2>1. prog[t] = <<"last", "clean">> /\ prog'[t] = <<"clean">>
    <3>1. prog[t] \in Asking \union Marking /\ Head(prog[t]) = "last" /\ prog'[t] = Tail(prog[t])
          BY <1>7, <1>11 DEF SetLast
    <3> QED BY <3>1, Leftovers
  <2>2. txLast' = txTotal'
        BY <1>6, <1>11, <2>1 DEF SetLast
  <2>3. <<"clean">> # <<"last", "clean">>
        OBVIOUS
  <2> QED BY <2>1, <2>2, <2>3
<1>12. CASE Clean(t)
  <2>1. prog[t] = <<"clean">> /\ prog'[t] = <<>>
    <3>1. prog[t] \in Asking \union Marking /\ Head(prog[t]) = "clean" /\ prog'[t] = Tail(prog[t])
          BY <1>7, <1>12 DEF Clean
    <3> QED BY <3>1, Leftovers
  <2>2. txLast' = txTotal'
        BY <1>6, <1>12, <2>1 DEF Clean
  <2>3. <<>> # <<"last", "clean">>
        OBVIOUS
  <2> QED BY <2>1, <2>2, <2>3
<1>13. CASE Mark(t)
  <2>1. dirty' = TRUE /\ prog'[t] = <<>>
    <3>1. prog[t] \in Asking \union Marking /\ Head(prog[t]) = "mark" /\ prog'[t] = Tail(prog[t])
          BY <1>7, <1>13 DEF Mark
    <3> QED BY <1>13, <3>1, Leftovers DEF Mark
  <2>2. <<>> # <<"last", "clean">> /\ <<>> # <<"clean">>
        OBVIOUS
  <2> QED BY <2>1, <2>2
<1>14. CASE (t = "pool" /\ Assign) \/ (t = "main" /\ ZeroStep)
  <2>1. PICK op \in {"assign", "zeroRate", "zeroTotal", "zeroLast"} : At(t, op) /\ Goes(t, <<>>)
        BY <1>14 DEF Assign, ZeroStep
  <2>2. prog'[t] \in Marking
        BY <1>7, <2>1, Leftovers
  <2>3. <<"last", "clean">> \in Asking /\ <<"clean">> \in Asking
        BY DEF Asking
  <2> QED BY <2>2, <2>3, Leftovers
<1> QED BY <1>8, <1>9, <1>10, <1>11, <1>12, <1>13, <1>14 DEF Step

\* For any number of threads, bytes, resets and restarts, as long as no two methods have run at once: between
\* calls, what no query has looked at yet is marked, and no byte is missing from the rates for good (update(),
\* updateRate(), reset()).
THEOREM MonitorSafety == MonitorSpec => []NothingMissed
<1>1. MonitorInv /\ [MonitorNext]_monitorVars => MonitorInv'
  <2> SUFFICES ASSUME MonitorInv, [MonitorNext]_monitorVars PROVE MonitorInv'
      OBVIOUS
  <2>1. MonitorTypeOK'
        BY MonitorTypeStep DEF MonitorInv
  <2>2. SUFFICES ASSUME races' = {} PROVE OneAtATime' /\ LookedAt'
        BY <2>1 DEF MonitorInv
  <2>3. ASSUME NEW t \in Threads, Step(t) \/ (t = "pool" /\ Assign) \/ (t = "main" /\ ZeroStep)
        PROVE  OneAtATime' /\ LookedAt'
    <3>1. races' = races
          BY <2>3 DEF Step, TestDirty, ReadTotal, SetRate, SetLast, Clean, Still, Mark, Assign, ZeroStep
    <3> QED BY <2>1, <2>2, <2>3, <3>1, AccessStep
  <2>4. CASE (\E t \in Queriers : QueryRate(t)) \/ Update \/ Reset
        BY <2>1, <2>2, <2>4, CallStep
  <2>5. CASE Count \/ Restart \/ UNCHANGED monitorVars
    <3>1. UNCHANGED <<txTotal, txLast, dirty, prog, read, races>>
          BY <2>5 DEF Count, Restart, monitorVars, fields
    <3> QED BY <2>2, <3>1 DEF MonitorInv, OneAtATime, Idle, LookedAt
  <2>6. "pool" \in Threads /\ "main" \in Threads
        BY DEF Threads
  <2> QED BY <2>3, <2>4, <2>5, <2>6 DEF MonitorNext
<1>2. MonitorInv => NothingMissed
      BY Leftovers DEF MonitorInv, LookedAt, NothingMissed, Quiet, Idle
<1> QED BY <1>1, <1>2, MonitorInitInv, PTL DEF MonitorSpec

----------------------------------------------------------------------------
(* Who is told of the traffic. *)

States == {"STOPPED", "CONNECTING", "CONNECTED", "STOPPING"}
Messages == ({"state"} \X States) \union ({"screen"} \X Helpers \X BOOLEAN)
Stages == {"none", "asks", "updates", "hears", "destroyed"}

CallbackTypeOK ==
  /\ mState \in States /\ posts \in Seq(Messages)
  /\ bound \in BOOLEAN /\ registered \in BOOLEAN
  /\ helper \in [Helpers -> Stages] /\ callbackRegistered \in [Helpers -> BOOLEAN] /\ screenOn \in BOOLEAN
  /\ screen \in BOOLEAN /\ announced \in Seq(BOOLEAN) /\ changes \in Nat
  /\ upset \in BOOLEAN

IsState(m) == m[1] = "state"
IsScreen(m, h) == m[1] = "screen" /\ m[2] = h

\* What the fragment and the notifications believe is what the list holds.
FlagsAgree ==
  /\ registered <=> Fragment \in callbacks
  /\ registered => bound
  /\ \A h \in Helpers :
       /\ callbackRegistered[h] <=> h \in callbacks
       /\ callbackRegistered[h] => helper[h] \in {"updates", "hears"}

\* The notifications are made in their order, and the one of a session that has not ended is the last.
Live(h) == helper[h] \in {"asks", "updates", "hears"}
InOrder ==
  \A g, h \in Helpers :
    /\ helper[g] = "none" /\ helper[h] # "none" => h < g
    /\ Live(h) /\ helper[g] # "none" => g <= h

\* The state a session with a live notification ends up in is CONNECTED.
Connects(q, state) ==
  \/ state = "CONNECTED" /\ \A i \in 1..Len(q) : ~IsState(q[i])
  \/ \E i \in 1..Len(q) :
       IsState(q[i]) /\ q[i][2] = "CONNECTED" /\ \A j \in 1..Len(q) : i < j => ~IsState(q[j])
LiveConnects == (\E h \in Helpers : Live(h)) => Connects(posts, mState)

\* Only a receiver that was registered is sent a broadcast.
Heard == \A h \in Helpers, i \in 1..Len(posts) : IsScreen(posts[i], h) => helper[h] \in {"hears", "destroyed"}

\* The broadcasts not sent yet alternate and end with what the screen is.
AnnouncedAlternate ==
  /\ \A k \in 1..Len(announced) - 1 : announced[k] # announced[k + 1]
  /\ announced # <<>> => announced[Len(announced)] = screen

\* Nothing crosses the start of a session.
Fresh ==
  \A h \in Helpers :
    /\ helper[h] = "asks" => announced = <<>> /\ screenOn = screen
    /\ helper[h] = "updates" => announced = <<>> /\ callbackRegistered[h] = screen

\* The broadcasts of the queue for h alternate: the first differs from what h has heard (on or off), and
\* the last from the next to come.
Alternate(q, h, heard, next) ==
  /\ \A i, j \in 1..Len(q) :
       /\ i < j /\ IsScreen(q[i], h) /\ IsScreen(q[j], h)
       /\ \A k \in 1..Len(q) : i < k /\ k < j => ~IsScreen(q[k], h)
       => q[i][3] # q[j][3]
  /\ \A i \in 1..Len(q) :
       IsScreen(q[i], h) /\ (\A k \in 1..Len(q) : k < i => ~IsScreen(q[k], h)) => q[i][3] # heard
  /\ \A i \in 1..Len(q) :
       IsScreen(q[i], h) /\ (\A k \in 1..Len(q) : i < k => ~IsScreen(q[k], h)) => q[i][3] # next
  /\ (\A i \in 1..Len(q) : ~IsScreen(q[i], h)) => heard # next

NextTold == IF announced = <<>> THEN ~screen ELSE announced[1]
HearsAlternate ==
  \A h \in Helpers : helper[h] = "hears" => Alternate(posts, h, callbackRegistered[h], NextTold)

\* Of the list, its count and its timer: nobody is forgotten, and unless a change of the screen crossed the
\* start of a session nobody is counted twice.
ServiceOK ==
  /\ callbacks \subseteq Helpers \union {Fragment} /\ IsFiniteSet(callbacks)
  /\ callbacksCount \in Int /\ timer \in BOOLEAN
  /\ callbacksCount >= Cardinality(callbacks) /\ (timer <=> callbacksCount > 0)
Counted == ServiceOK /\ (~upset => CountedOnce)

Listed == FlagsAgree /\ InOrder /\ LiveConnects /\ Heard
Told == AnnouncedAlternate /\ (~upset => Fresh /\ HearsAlternate)
CallbackInv == CallbackTypeOK /\ Listed /\ Told /\ Counted

----------------------------------------------------------------------------
\* What a message of the main looper's queue is (setState(), sendBroadcast()).
LEMMA MessageParts ==
  /\ \A m \in Messages : /\ IsState(m) => m[2] \in States
                         /\ ~IsState(m) => m[1] = "screen" /\ m[2] \in Helpers /\ m[3] \in BOOLEAN
  /\ \A s \in States : LET m == <<"state", s>> IN m \in Messages /\ IsState(m) /\ m[2] = s
  /\ \A h \in Helpers, b \in BOOLEAN :
       LET m == <<"screen", h, b>>
       IN m \in Messages /\ ~IsState(m) /\ IsScreen(m, h) /\ m[2] = h /\ m[3] = b
BY DEF Messages, IsState, IsScreen

\* Removing a queue's first element moves the others up.
LEMMA Popped ==
  ASSUME NEW S, NEW q \in Seq(S), q # <<>>
  PROVE  /\ Tail(q) \in Seq(S) /\ Len(Tail(q)) = Len(q) - 1 /\ Len(q) \in Nat \ {0} /\ Len(Tail(q)) \in Nat
         /\ Head(q) = q[1] /\ Head(q) \in S
         /\ \A i \in 1..Len(q) - 1 : Tail(q)[i] = q[i + 1]
OBVIOUS

\* Appending leaves what is there where it is.
LEMMA Pushed ==
  ASSUME NEW S, NEW q \in Seq(S), NEW m \in S
  PROVE  /\ Append(q, m) \in Seq(S) /\ Len(Append(q, m)) = Len(q) + 1 /\ Len(q) \in Nat
         /\ \A i \in 1..Len(q) : Append(q, m)[i] = q[i]
         /\ Append(q, m)[Len(q) + 1] = m
OBVIOUS

\* So does appending two.
LEMMA PushedTwo ==
  ASSUME NEW S, NEW q \in Seq(S), NEW m \in S, NEW n \in S
  PROVE  /\ q \o <<m, n>> \in Seq(S) /\ Len(q \o <<m, n>>) = Len(q) + 2 /\ Len(q) \in Nat
         /\ \A i \in 1..Len(q) : (q \o <<m, n>>)[i] = q[i]
         /\ (q \o <<m, n>>)[Len(q) + 1] = m /\ (q \o <<m, n>>)[Len(q) + 2] = n
OBVIOUS

\* Two states behind the queue leave the broadcasts of a helper as they were (startRunner(), stopRunner()).
LEMMA AlternatePushedTwo ==
  ASSUME NEW q \in Seq(Messages), NEW m \in Messages, NEW n \in Messages, IsState(m), IsState(n),
         NEW h, NEW heard, NEW next, Alternate(q, h, heard, next)
  PROVE  Alternate(q \o <<m, n>>, h, heard, next)
<1> DEFINE p == q \o <<m, n>>
<1>1. /\ Len(p) = Len(q) + 2 /\ Len(q) \in Nat
      /\ \A i \in 1..Len(q) : p[i] = q[i]
      /\ p[Len(q) + 1] = m /\ p[Len(q) + 2] = n
      BY PushedTwo
<1>2. ~IsScreen(m, h) /\ ~IsScreen(n, h)
      BY DEF IsScreen, IsState
<1> HIDE DEF p
<1>3. \A i \in 1..Len(p) : IsScreen(p[i], h) => i \in 1..Len(q)
      BY <1>1, <1>2
<1>4. \A i \in 1..Len(q) : i \in 1..Len(p)
      BY <1>1
<1>5. Alternate(p, h, heard, next)
      BY <1>1, <1>3, <1>4 DEF Alternate
<1> QED BY <1>5 DEF p

\* The next broadcast of the screen behind the queue differs from the last one there, and what comes after
\* it differs from it (sendBroadcast()).
LEMMA AlternatePushed ==
  ASSUME NEW q \in Seq(Messages), NEW h \in Helpers, NEW heard \in BOOLEAN, NEW next \in BOOLEAN, NEW after \in BOOLEAN,
         Alternate(q, h, heard, next), after # next
  PROVE  Alternate(Append(q, <<"screen", h, next>>), h, heard, after)
<1> DEFINE m == <<"screen", h, next>>
           p == Append(q, m)
<1>0. m \in Messages /\ IsScreen(m, h) /\ m[3] = next
      BY MessageParts
<1> HIDE DEF m
<1>1. /\ Len(p) = Len(q) + 1 /\ Len(q) \in Nat
      /\ \A i \in 1..Len(q) : p[i] = q[i]
      /\ p[Len(q) + 1] = m
      BY <1>0, Pushed
<1> HIDE DEF p
<1>2. IsScreen(p[Len(q) + 1], h) /\ p[Len(q) + 1][3] = next
      BY <1>0, <1>1
<1>3. ASSUME NEW i \in 1..Len(p), NEW j \in 1..Len(p), i < j, IsScreen(p[i], h), IsScreen(p[j], h),
             \A k \in 1..Len(p) : i < k /\ k < j => ~IsScreen(p[k], h)
      PROVE  p[i][3] # p[j][3]
  <2>1. i \in 1..Len(q) /\ p[i] = q[i]
        BY <1>1, <1>3
  <2>2. CASE j \in 1..Len(q)
    <3>1. \A k \in 1..Len(q) : i < k /\ k < j => ~IsScreen(q[k], h)
          BY <1>1, <1>3
    <3>2. p[j] = q[j]
          BY <1>1, <2>2
    <3> QED BY <1>3, <2>1, <2>2, <3>1, <3>2 DEF Alternate
  <2>3. CASE j = Len(q) + 1
    <3>1. \A k \in 1..Len(q) : i < k => ~IsScreen(q[k], h)
          BY <1>1, <1>3, <2>3
    <3>2. q[i][3] # next
          BY <1>3, <2>1, <3>1 DEF Alternate
    <3> QED BY <1>2, <2>1, <2>3, <3>2
  <2> QED BY <1>1, <2>2, <2>3
<1>4. ASSUME NEW i \in 1..Len(p), IsScreen(p[i], h), \A k \in 1..Len(p) : k < i => ~IsScreen(p[k], h)
      PROVE  p[i][3] # heard
      BY <1>1, <1>2, <1>4 DEF Alternate
<1>5. ASSUME NEW i \in 1..Len(p), IsScreen(p[i], h), \A k \in 1..Len(p) : i < k => ~IsScreen(p[k], h)
      PROVE  p[i][3] # after
      BY <1>1, <1>2, <1>5 DEF Alternate
<1>6. Alternate(p, h, heard, after)
      BY <1>1, <1>2, <1>3, <1>4, <1>5 DEF Alternate
<1> QED BY <1>6 DEF p, m

\* Taking the first message off the queue, h has heard it if it is a broadcast to h (onReceive()).
LEMMA AlternatePopped ==
  ASSUME NEW q \in Seq(Messages), q # <<>>, NEW h, NEW heard, NEW next, Alternate(q, h, heard, next)
  PROVE  Alternate(Tail(q), h, IF IsScreen(Head(q), h) THEN Head(q)[3] ELSE heard, next)
<1> DEFINE p == Tail(q)
           v == IF IsScreen(q[1], h) THEN q[1][3] ELSE heard
<1>1. /\ Len(p) = Len(q) - 1 /\ Len(q) \in Nat \ {0} /\ Len(p) \in Nat /\ Head(q) = q[1]
      /\ \A i \in 1..Len(p) : p[i] = q[i + 1] /\ i + 1 \in 1..Len(q)
      BY Popped
<1> HIDE DEF p, v
<1>2. \A i \in 1..Len(q) : i = 1 \/ (i - 1 \in 1..Len(p) /\ p[i - 1] = q[i])
      BY <1>1
<1>3. ASSUME NEW i \in 1..Len(p), NEW j \in 1..Len(p), i < j, IsScreen(p[i], h), IsScreen(p[j], h),
             \A k \in 1..Len(p) : i < k /\ k < j => ~IsScreen(p[k], h)
      PROVE  p[i][3] # p[j][3]
  <2>1. \A k \in 1..Len(q) : i + 1 < k /\ k < j + 1 => ~IsScreen(q[k], h)
        BY <1>1, <1>2, <1>3
  <2>2. /\ i + 1 \in 1..Len(q) /\ j + 1 \in 1..Len(q) /\ i + 1 < j + 1
        /\ p[i] = q[i + 1] /\ p[j] = q[j + 1]
        BY <1>1, <1>3
  <2>3. IsScreen(q[i + 1], h) /\ IsScreen(q[j + 1], h)
        BY <1>3, <2>2
  <2>4. q[i + 1][3] # q[j + 1][3]
        BY <2>1, <2>2, <2>3 DEF Alternate
  <2> QED BY <2>2, <2>4
<1>4. ASSUME NEW i \in 1..Len(p), IsScreen(p[i], h), \A k \in 1..Len(p) : k < i => ~IsScreen(p[k], h)
      PROVE  p[i][3] # v
  <2>1. \A k \in 1..Len(q) : 1 < k /\ k < i + 1 => ~IsScreen(q[k], h)
        BY <1>1, <1>2, <1>4
  <2>2. CASE IsScreen(q[1], h)
        BY <1>1, <1>4, <2>1, <2>2 DEF Alternate, v
  <2>3. CASE ~IsScreen(q[1], h)
    <3>1. \A k \in 1..Len(q) : k < i + 1 => ~IsScreen(q[k], h)
          BY <2>1, <2>3
    <3> QED BY <1>1, <1>4, <3>1, <2>3 DEF Alternate, v
  <2> QED BY <2>2, <2>3
<1>5. ASSUME NEW i \in 1..Len(p), IsScreen(p[i], h), \A k \in 1..Len(p) : i < k => ~IsScreen(p[k], h)
      PROVE  p[i][3] # next
  <2>1. \A k \in 1..Len(q) : i + 1 < k => ~IsScreen(q[k], h)
        BY <1>1, <1>2, <1>5
  <2> QED BY <1>1, <1>5, <2>1 DEF Alternate
<1>6. ASSUME \A i \in 1..Len(p) : ~IsScreen(p[i], h)
      PROVE  v # next
  <2>1. \A k \in 1..Len(q) : 1 < k => ~IsScreen(q[k], h)
        BY <1>1, <1>2, <1>6
  <2> QED BY <1>1, <2>1 DEF Alternate, v
<1>7. Alternate(p, h, v, next)
      BY <1>3, <1>4, <1>5, <1>6 DEF Alternate
<1> QED BY <1>1, <1>7 DEF p, v

\* The states posted when a session starts end with CONNECTED (startRunner()).
LEMMA ConnectsPushedTwo ==
  ASSUME NEW q \in Seq(Messages), NEW state
  PROVE  Connects(q \o << <<"state", "CONNECTING">>, <<"state", "CONNECTED">> >>, state)
<1> DEFINE m == <<"state", "CONNECTING">>
           n == <<"state", "CONNECTED">>
           p == q \o <<m, n>>
<1>1. m \in Messages /\ n \in Messages /\ IsState(n) /\ n[2] = "CONNECTED"
      BY MessageParts DEF States
<1> HIDE DEF m, n
<1>2. Len(p) = Len(q) + 2 /\ Len(q) \in Nat /\ p[Len(q) + 2] = n
      BY <1>1, PushedTwo
<1> HIDE DEF p
<1>3. Connects(p, state)
      BY <1>1, <1>2 DEF Connects
<1> QED BY <1>3 DEF p, m, n

\* A broadcast behind the queue does not matter to the state (sendBroadcast()).
LEMMA ConnectsPushed ==
  ASSUME NEW q \in Seq(Messages), NEW m \in Messages, ~IsState(m), NEW state, Connects(q, state)
  PROVE  Connects(Append(q, m), state)
<1> DEFINE p == Append(q, m)
<1>1. /\ Len(p) = Len(q) + 1 /\ Len(q) \in Nat
      /\ \A i \in 1..Len(q) : p[i] = q[i]
      /\ p[Len(q) + 1] = m
      BY Pushed
<1> HIDE DEF p
<1>2. \A i \in 1..Len(p) : i \in 1..Len(q) \/ ~IsState(p[i])
      BY <1>1
<1>3. Connects(p, state)
      BY <1>1, <1>2 DEF Connects
<1> QED BY <1>3 DEF p

\* The state that is taken off the queue is the present one (the posted Runnable of setState()).
LEMMA ConnectsPopped ==
  ASSUME NEW q \in Seq(Messages), q # <<>>, NEW state, Connects(q, state)
  PROVE  Connects(Tail(q), IF IsState(Head(q)) THEN Head(q)[2] ELSE state)
<1> DEFINE p == Tail(q)
           s == IF IsState(q[1]) THEN q[1][2] ELSE state
<1>1. /\ Len(p) = Len(q) - 1 /\ Len(q) \in Nat \ {0} /\ Len(p) \in Nat /\ Head(q) = q[1]
      /\ \A i \in 1..Len(p) : p[i] = q[i + 1] /\ i + 1 \in 1..Len(q)
      BY Popped
<1> HIDE DEF p, s
<1>2. \A i \in 1..Len(q) : i = 1 \/ (i - 1 \in 1..Len(p) /\ p[i - 1] = q[i])
      BY <1>1
<1>3. ASSUME state = "CONNECTED" /\ \A i \in 1..Len(q) : ~IsState(q[i]) PROVE Connects(p, s)
      BY <1>1, <1>3 DEF Connects, s
<1>4. ASSUME NEW i \in 1..Len(q), IsState(q[i]), q[i][2] = "CONNECTED",
             \A j \in 1..Len(q) : i < j => ~IsState(q[j])
      PROVE  Connects(p, s)
  <2>1. \A j \in 1..Len(p) : i - 1 < j => ~IsState(p[j])
        BY <1>1, <1>4
  <2>2. CASE i = 1
        BY <1>4, <2>1, <2>2 DEF Connects, s
  <2>3. CASE i # 1
        BY <1>2, <1>4, <2>1, <2>3 DEF Connects
  <2> QED BY <2>2, <2>3
<1>5. \/ state = "CONNECTED" /\ \A i \in 1..Len(q) : ~IsState(q[i])
      \/ \E i \in 1..Len(q) :
           IsState(q[i]) /\ q[i][2] = "CONNECTED" /\ \A j \in 1..Len(q) : i < j => ~IsState(q[j])
      BY DEF Connects
<1>6. Connects(p, s)
      BY <1>3, <1>4, <1>5
<1> QED BY <1>1, <1>6 DEF p, s

\* While states are due to end with CONNECTED no session starts: the state is STOPPED and none is posted.
LEMMA ConnectsNotStopped ==
  ASSUME NEW q \in Seq(Messages), \A i \in DOMAIN q : q[i][1] # "state"
  PROVE  ~Connects(q, "STOPPED")
BY DEF Connects, IsState

----------------------------------------------------------------------------
\* Nobody has registered before the service runs (CallbackInit).
LEMMA CallbackInitInv == CallbackInit => CallbackInv
<1> SUFFICES ASSUME CallbackInit PROVE CallbackInv
    OBVIOUS
<1> USE DEF CallbackInit
<1>1. CallbackTypeOK
  <2>1. posts \in Seq(Messages) /\ announced \in Seq(BOOLEAN)
        OBVIOUS
  <2>2. helper \in [Helpers -> Stages] /\ callbackRegistered \in [Helpers -> BOOLEAN]
        BY DEF Stages
  <2>3. mState \in States /\ bound \in BOOLEAN /\ registered \in BOOLEAN /\ screenOn \in BOOLEAN
        BY DEF States
  <2>4. screen \in BOOLEAN /\ changes \in Nat /\ upset \in BOOLEAN
        OBVIOUS
  <2> QED BY <2>1, <2>2, <2>3, <2>4 DEF CallbackTypeOK
<1>2. Listed
      BY DEF Listed, FlagsAgree, InOrder, LiveConnects, Live, Heard
<1>3. Told
      BY DEF Told, AnnouncedAlternate, Fresh, HearsAlternate
<1>4. Counted
  <2>1. IsFiniteSet(callbacks) /\ Cardinality(callbacks) = 0
        BY FS_EmptySet
  <2>2. callbacksCount = 0 /\ timer = FALSE /\ callbacks = {}
        OBVIOUS
  <2>3. callbacksCount \in Int /\ callbacksCount >= Cardinality(callbacks) /\ ~(callbacksCount > 0)
        BY <2>1, <2>2
  <2>4. timer \in BOOLEAN /\ ~timer
        BY <2>2
  <2>5. CountedOnce /\ callbacks \subseteq Helpers \union {Fragment}
        BY <2>1, <2>2 DEF CountedOnce
  <2> QED BY <2>1, <2>3, <2>4, <2>5 DEF Counted, ServiceOK
<1> QED BY <1>1, <1>2, <1>3, <1>4 DEF CallbackInv

\* Whoever registers is counted; once, when he was not on the list (registerCallback()).
LEMMA RegisterCounts ==
  ASSUME ServiceOK, NEW c \in Helpers \union {Fragment}, Register(c)
  PROVE  ServiceOK' /\ (CountedOnce /\ c \notin callbacks => CountedOnce')
<1>1. /\ IsFiniteSet(callbacks') /\ Cardinality(callbacks) \in Nat
      /\ Cardinality(callbacks') = IF c \in callbacks THEN Cardinality(callbacks) ELSE Cardinality(callbacks) + 1
      BY FS_AddElement, FS_CardinalityType DEF ServiceOK, Register
<1>2. callbacksCount' = callbacksCount + 1 /\ callbacksCount' # 0 /\ callbacksCount' \in Int
      BY <1>1 DEF ServiceOK, Register
<1>3. timer' = TRUE
      BY <1>2, Zenon DEF Register
<1> QED BY <1>1, <1>2, <1>3 DEF ServiceOK, Register, CountedOnce

\* Whoever leaves the list leaves the count (unregisterCallback()).
LEMMA UnregisterCounts ==
  ASSUME ServiceOK, NEW c, Unregister(c)
  PROVE  ServiceOK' /\ (CountedOnce => CountedOnce') /\ callbacks' = callbacks \ {c}
<1>1. CASE c \in callbacks
  <2>1. /\ callbacks' = callbacks \ {c} /\ callbacksCount' = callbacksCount - 1
        /\ timer' = (timer /\ callbacksCount' # 0)
        BY <1>1 DEF Unregister
  <2>2. /\ IsFiniteSet(callbacks') /\ Cardinality(callbacks) \in Nat
        /\ Cardinality(callbacks') = Cardinality(callbacks) - 1
        /\ Cardinality(callbacks') \in Nat
        BY <1>1, <2>1, FS_RemoveElement, FS_CardinalityType DEF ServiceOK
  <2>3. callbacksCount' \in Int /\ callbacksCount' >= Cardinality(callbacks')
        BY <2>1, <2>2 DEF ServiceOK
  <2>4. timer' \in BOOLEAN /\ (timer' <=> callbacksCount' > 0)
    <3>1. timer
          BY <1>1, <2>2, <2>1 DEF ServiceOK
    <3>2. CASE callbacksCount' = 0
      <4>1. ~timer'
            BY <2>1, <3>2
      <4>2. timer' \in BOOLEAN
            BY <2>1
      <4> QED BY <3>2, <4>1, <4>2
    <3>3. CASE callbacksCount' > 0
      <4>1. callbacksCount' # 0
            BY <3>3
      <4>2. timer' = TRUE
            BY <2>1, <3>1, <4>1, Zenon
      <4> QED BY <3>3, <4>2
    <3> QED BY <2>2, <2>3, <3>2, <3>3
  <2> QED BY <2>1, <2>2, <2>3, <2>4 DEF ServiceOK, CountedOnce
<1>2. CASE c \notin callbacks
      BY <1>2 DEF Unregister, service, ServiceOK, CountedOnce
<1> QED BY <1>1, <1>2

\* update() leaves a notification registered just while the screen is on, and counts it twice only when it
\* is told twice that the screen is on.
LEMMA UpdateCounts ==
  ASSUME CallbackTypeOK, ServiceOK, FlagsAgree, NEW h \in Helpers, NEW on \in BOOLEAN, update(h, on)
  PROVE  /\ ServiceOK'
         /\ CountedOnce /\ ~(on /\ callbackRegistered[h]) => CountedOnce'
         /\ callbacks' = IF on THEN callbacks \union {h} ELSE callbacks \ {h}
         /\ callbackRegistered' = [callbackRegistered EXCEPT ![h] = on]
<1>1. CASE on
  <2>1. Register(h) /\ callbackRegistered' = [callbackRegistered EXCEPT ![h] = TRUE]
        BY <1>1 DEF update, HelperRegisters
  <2>2. h \in callbacks <=> callbackRegistered[h]
        BY DEF FlagsAgree
  <2>3. callbacks' = callbacks \union {h}
        BY <2>1 DEF Register
  <2> QED BY <1>1, <2>1, <2>2, <2>3, RegisterCounts
<1>2. CASE ~on /\ callbackRegistered[h]
  <2>1. Unregister(h) /\ callbackRegistered' = [callbackRegistered EXCEPT ![h] = FALSE]
        BY <1>2 DEF update, HelperUnregisters
  <2> QED BY <1>2, <2>1, UnregisterCounts
<1>3. CASE ~on /\ ~callbackRegistered[h]
  <2>1. UNCHANGED <<callbacks, callbacksCount, timer, callbackRegistered>>
        BY <1>3 DEF update, HelperUnregisters, service
  <2>2. h \notin callbacks
        BY <1>3 DEF FlagsAgree
  <2> QED BY <1>3, <2>1, <2>2 DEF ServiceOK, CountedOnce, CallbackTypeOK
<1> QED BY <1>1, <1>2, <1>3

\* The fragment's connection: it is on the list once when it believes so, and believes so only while it is
\* bound (RegisterFragment, UnregisterFragment with the field bgService).
LEMMA FragmentStep ==
  ASSUME CallbackInv, onServiceConnected \/ onStart \/ onStop \/ detachService
  PROVE  CallbackInv'
<1>1. Fragment \notin Helpers
      BY HelpersNumbered DEF Fragment
<1>2. UNCHANGED <<mState, posts, notification, display, upset>> /\ bound' \in BOOLEAN
      BY DEF onServiceConnected, onStart, onStop, detachService, CallbackInv, CallbackTypeOK
<1>3. /\ ServiceOK' /\ (CountedOnce => CountedOnce') /\ registered' \in BOOLEAN
      /\ \A h \in Helpers : h \in callbacks' <=> h \in callbacks
      /\ registered' <=> Fragment \in callbacks'
      /\ registered' => bound'
  <2> USE DEF CallbackInv, Listed, FlagsAgree, Counted
  <2>1. CASE Register(Fragment) /\ ~registered /\ registered' = TRUE /\ bound'
    <3>1. callbacks' = callbacks \union {Fragment}
          BY <2>1 DEF Register
    <3> QED BY <1>1, <2>1, <3>1, RegisterCounts
  <2>2. CASE Unregister(Fragment) /\ registered' = FALSE
    <3>1. callbacks' = callbacks \ {Fragment}
          BY <2>2, UnregisterCounts
    <3> QED BY <1>1, <2>2, <3>1, UnregisterCounts
  <2>3. CASE UNCHANGED <<service, registered>> /\ (registered => bound')
        BY <2>3 DEF service, ServiceOK, CountedOnce, CallbackTypeOK
  <2>4. CASE onServiceConnected \/ onStart
        BY <2>1, <2>3, <2>4 DEF onServiceConnected, onStart, RegisterFragment
  <2>5. CASE onStop \/ detachService
        BY <2>2, <2>3, <2>5 DEF onStop, detachService, UnregisterFragment
  <2> QED BY <2>4, <2>5
<1>4. CallbackTypeOK'
      BY <1>2, <1>3 DEF CallbackInv, CallbackTypeOK, notification, display
<1>5. Listed'
      BY <1>2, <1>3 DEF CallbackInv, Listed, FlagsAgree, InOrder, Live, LiveConnects, Heard, notification, display
<1>6. Told'
      BY <1>2 DEF CallbackInv, Told, AnnouncedAlternate, Fresh, HearsAlternate, NextTold, notification, display
<1>7. Counted'
      BY <1>2, <1>3 DEF CallbackInv, Counted
<1> QED BY <1>4, <1>5, <1>6, <1>7 DEF CallbackInv

\* The start of a session makes its notification the last, and the only one that lives (startRunner()).
LEMMA StartRunnerStep ==
  ASSUME CallbackInv, NEW h \in Helpers, StartRunner(h)
  PROVE  CallbackInv'
<1> DEFINE m == <<"state", "CONNECTING">>
           n == <<"state", "CONNECTED">>
<1>1. m \in Messages /\ n \in Messages /\ IsState(m) /\ IsState(n)
      BY MessageParts DEF States
<1>2. /\ UNCHANGED <<service, mState, fragment, callbackRegistered, display>>
      /\ posts' = posts \o <<m, n>> /\ helper' = [helper EXCEPT ![h] = "asks"] /\ screenOn' = screen
      /\ helper[h] = "none" /\ \A g \in Helpers : helper[g] = "none" => h <= g
      /\ upset' = (upset \/ announced # <<>>)
      BY DEF StartRunner
<1> HIDE DEF m, n
<1>3. \A g \in Helpers : ~Live(g)
  <2>1. ~Connects(posts, "STOPPED") /\ mState = "STOPPED"
        BY ConnectsNotStopped DEF StartRunner, CallbackInv, CallbackTypeOK
  <2> QED BY <2>1 DEF CallbackInv, Listed, LiveConnects
<1>4. /\ \A g \in Helpers : helper'[g] = IF g = h THEN "asks" ELSE helper[g]
      /\ helper' \in [Helpers -> Stages]
      BY <1>2 DEF CallbackInv, CallbackTypeOK, Stages
<1>5. CallbackTypeOK'
  <2>1. posts' \in Seq(Messages)
        BY <1>1, <1>2, PushedTwo DEF CallbackInv, CallbackTypeOK
  <2>2. upset' \in BOOLEAN
        BY <1>2
  <2> QED BY <1>2, <1>4, <2>1, <2>2 DEF CallbackInv, CallbackTypeOK, fragment, display
<1>6. Listed'
  <2>1. FlagsAgree'
        BY <1>2, <1>4 DEF CallbackInv, Listed, FlagsAgree, service, fragment
  <2>2. InOrder'
    <3>1. Helpers \subseteq Nat
          BY HelpersNumbered
    <3> QED BY <1>2, <1>3, <1>4, <3>1 DEF CallbackInv, Listed, InOrder, Live, CallbackTypeOK, Stages
  <2>3. LiveConnects'
        BY <1>2, ConnectsPushedTwo DEF CallbackInv, CallbackTypeOK, LiveConnects, m, n
  <2>4. Heard'
    <3>1. /\ Len(posts') = Len(posts) + 2 /\ Len(posts) \in Nat
          /\ \A i \in 1..Len(posts) : posts'[i] = posts[i]
          /\ posts'[Len(posts) + 1] = m /\ posts'[Len(posts) + 2] = n
          BY <1>1, <1>2, PushedTwo DEF CallbackInv, CallbackTypeOK
    <3>2. \A g \in Helpers : ~IsScreen(m, g) /\ ~IsScreen(n, g)
          BY <1>1 DEF IsState, IsScreen
    <3>3. \A g \in Helpers, i \in 1..Len(posts') : IsScreen(posts'[i], g) => i \in 1..Len(posts) /\ IsScreen(posts[i], g)
          BY <3>1, <3>2
    <3> QED BY <1>2, <1>4, <3>3 DEF CallbackInv, Listed, Heard
  <2> QED BY <2>1, <2>2, <2>3, <2>4 DEF Listed
<1>7. Told'
  <2>1. AnnouncedAlternate'
        BY <1>2 DEF CallbackInv, Told, AnnouncedAlternate, display
  <2>2. ~upset' => ~upset /\ announced = <<>>
        BY <1>2
  <2>3. ~upset' => Fresh'
        BY <1>2, <1>4, <2>2 DEF CallbackInv, Told, Fresh, display
  <2>4. HearsAlternate'
        BY <1>3, <1>4 DEF HearsAlternate, Live
  <2> QED BY <2>1, <2>3, <2>4 DEF Told
<1>8. Counted'
      BY <1>2 DEF CallbackInv, Counted, ServiceOK, CountedOnce, service
<1> QED BY <1>5, <1>6, <1>7, <1>8 DEF CallbackInv

\* The constructor of a notification registers it if the screen was on: it is not on the list yet (update()).
LEMMA ForcedUpdateStep ==
  ASSUME CallbackInv, NEW h \in Helpers, ForcedUpdate(h)
  PROVE  CallbackInv'
<1>1. /\ UNCHANGED <<mState, posts, fragment, screenOn, display, upset>>
      /\ helper[h] = "asks" /\ helper' = [helper EXCEPT ![h] = "updates"] /\ update(h, screenOn)
      BY DEF ForcedUpdate
<1>2. /\ CallbackTypeOK /\ ServiceOK /\ FlagsAgree /\ ~callbackRegistered[h] /\ screenOn \in BOOLEAN
      BY <1>1 DEF CallbackInv, Listed, Counted, FlagsAgree, CallbackTypeOK
<1>3. /\ ServiceOK' /\ (CountedOnce => CountedOnce')
      /\ callbacks' = IF screenOn THEN callbacks \union {h} ELSE callbacks \ {h}
      /\ callbackRegistered' = [callbackRegistered EXCEPT ![h] = screenOn]
      BY <1>1, <1>2, UpdateCounts
<1>4. /\ \A g \in Helpers : helper'[g] = IF g = h THEN "updates" ELSE helper[g]
      /\ \A g \in Helpers \ {h} : callbackRegistered'[g] = callbackRegistered[g] /\ (g \in callbacks' <=> g \in callbacks)
      /\ callbackRegistered'[h] = screenOn /\ (h \in callbacks' <=> callbackRegistered'[h])
      /\ helper' \in [Helpers -> Stages] /\ callbackRegistered' \in [Helpers -> BOOLEAN]
      /\ Fragment \in callbacks' <=> Fragment \in callbacks
  <2>1. \A g \in Helpers : helper'[g] = IF g = h THEN "updates" ELSE helper[g]
        BY <1>1, <1>2 DEF CallbackTypeOK
  <2>2. helper' \in [Helpers -> Stages]
        BY <1>1, <1>2 DEF CallbackTypeOK, Stages
  <2>3. callbackRegistered' \in [Helpers -> BOOLEAN]
        BY <1>2, <1>3 DEF CallbackTypeOK
  <2>4. \A g \in Helpers \ {h} : callbackRegistered'[g] = callbackRegistered[g]
        BY <1>2, <1>3 DEF CallbackTypeOK
  <2>5. callbackRegistered'[h] = screenOn
        BY <1>2, <1>3 DEF CallbackTypeOK
  <2>6. \A c : c # h => (c \in callbacks' <=> c \in callbacks)
        BY <1>3
  <2>7. h \in callbacks' <=> screenOn
        BY <1>3
  <2>8. Fragment # h
        BY HelpersNumbered DEF Fragment
  <2> QED BY <2>1, <2>2, <2>3, <2>4, <2>5, <2>6, <2>7, <2>8
<1>5. CallbackTypeOK'
      BY <1>1, <1>2, <1>4 DEF CallbackTypeOK, fragment, display
<1>6. Listed'
  <2>1. FlagsAgree'
        BY <1>1, <1>2, <1>4 DEF FlagsAgree, fragment
  <2>2. InOrder'
        BY <1>1, <1>4 DEF CallbackInv, Listed, InOrder, Live
  <2>3. LiveConnects'
        BY <1>1, <1>4 DEF CallbackInv, Listed, LiveConnects, Live
  <2>4. Heard'
        BY <1>1, <1>4 DEF CallbackInv, Listed, Heard
  <2> QED BY <2>1, <2>2, <2>3, <2>4 DEF Listed
<1>7. Told'
  <2>1. AnnouncedAlternate'
        BY <1>1 DEF CallbackInv, Told, AnnouncedAlternate, display
  <2>2. ~upset' => Fresh'
        BY <1>1, <1>4 DEF CallbackInv, Told, Fresh, display
  <2>3. ~upset' => HearsAlternate'
        BY <1>1, <1>4 DEF CallbackInv, Told, HearsAlternate, NextTold, display
  <2> QED BY <2>1, <2>2, <2>3 DEF Told
<1>8. Counted'
      BY <1>1, <1>3 DEF CallbackInv, Counted
<1> QED BY <1>5, <1>6, <1>7, <1>8 DEF CallbackInv

\* From then on broadcasts reach it, and none is on its way that it should have had (NotificationHelper()).
LEMMA RegisterReceiverStep ==
  ASSUME CallbackInv, NEW h \in Helpers, RegisterReceiver(h)
  PROVE  CallbackInv'
<1>1. /\ UNCHANGED <<service, mState, posts, fragment, callbackRegistered, screenOn, display, upset>>
      /\ helper[h] = "updates" /\ helper' = [helper EXCEPT ![h] = "hears"]
      BY DEF RegisterReceiver
<1>2. /\ \A g \in Helpers : helper'[g] = IF g = h THEN "hears" ELSE helper[g]
      /\ helper' \in [Helpers -> Stages]
      BY <1>1 DEF CallbackInv, CallbackTypeOK, Stages
<1>3. CallbackTypeOK'
      BY <1>1, <1>2 DEF CallbackInv, CallbackTypeOK, fragment, display
<1>4. Listed'
  <2>1. FlagsAgree'
        BY <1>1, <1>2 DEF CallbackInv, Listed, FlagsAgree, fragment, service
  <2>2. InOrder'
        BY <1>1, <1>2 DEF CallbackInv, Listed, InOrder, Live
  <2>3. LiveConnects'
        BY <1>1, <1>2 DEF CallbackInv, Listed, LiveConnects, Live
  <2>4. Heard'
        BY <1>1, <1>2 DEF CallbackInv, Listed, Heard
  <2> QED BY <2>1, <2>2, <2>3, <2>4 DEF Listed
<1>5. Told'
  <2>1. AnnouncedAlternate'
        BY <1>1 DEF CallbackInv, Told, AnnouncedAlternate, display
  <2>2. ~upset' => Fresh'
        BY <1>1, <1>2 DEF CallbackInv, Told, Fresh, display
  <2>3. ASSUME ~upset' PROVE HearsAlternate'
    <3>1. \A i \in 1..Len(posts) : ~IsScreen(posts[i], h)
          BY <1>1 DEF CallbackInv, Listed, Heard
    <3>2. callbackRegistered[h] = screen /\ NextTold = ~screen
          BY <1>1, <2>3 DEF CallbackInv, Told, Fresh, NextTold
    <3>3. Alternate(posts, h, callbackRegistered[h], NextTold)
          BY <3>1, <3>2 DEF Alternate, CallbackInv, CallbackTypeOK
    <3>4. NextTold' = NextTold
          BY <1>1 DEF NextTold, display
    <3> QED BY <1>1, <1>2, <2>3, <3>3, <3>4 DEF CallbackInv, Told, HearsAlternate
  <2> QED BY <2>1, <2>2, <2>3 DEF Told
<1>6. Counted'
      BY <1>1 DEF CallbackInv, Counted, ServiceOK, CountedOnce, service
<1> QED BY <1>3, <1>4, <1>5, <1>6 DEF CallbackInv

\* The end of a session takes its notification off the list (stopRunner(), destroy()).
LEMMA StopRunnerStep ==
  ASSUME CallbackInv, NEW h \in Helpers, StopRunner(h)
  PROVE  CallbackInv'
<1> DEFINE m == <<"state", "STOPPING">>
           n == <<"state", "STOPPED">>
<1>1. m \in Messages /\ n \in Messages /\ IsState(m) /\ IsState(n)
      BY MessageParts DEF States
<1>2. /\ UNCHANGED <<mState, fragment, screenOn, display, upset>>
      /\ posts' = posts \o <<m, n>> /\ helper' = [helper EXCEPT ![h] = "destroyed"]
      /\ helper[h] = "hears" /\ HelperUnregisters(h)
      BY DEF StopRunner, destroy
<1> HIDE DEF m, n
<1>3. /\ CallbackTypeOK /\ ServiceOK /\ FlagsAgree /\ update(h, FALSE)
      BY <1>2 DEF CallbackInv, Listed, Counted, update
<1>4. /\ ServiceOK' /\ (CountedOnce => CountedOnce') /\ callbacks' = callbacks \ {h}
      /\ callbackRegistered' = [callbackRegistered EXCEPT ![h] = FALSE]
      BY <1>3, UpdateCounts
<1>5. /\ \A g \in Helpers : helper'[g] = IF g = h THEN "destroyed" ELSE helper[g]
      /\ \A g \in Helpers \ {h} : callbackRegistered'[g] = callbackRegistered[g] /\ (g \in callbacks' <=> g \in callbacks)
      /\ ~callbackRegistered'[h] /\ h \notin callbacks'
      /\ helper' \in [Helpers -> Stages] /\ callbackRegistered' \in [Helpers -> BOOLEAN]
      /\ Fragment \in callbacks' <=> Fragment \in callbacks
  <2>1. \A g \in Helpers : helper'[g] = IF g = h THEN "destroyed" ELSE helper[g]
        BY <1>2, <1>3 DEF CallbackTypeOK
  <2>2. helper' \in [Helpers -> Stages]
        BY <1>2, <1>3 DEF CallbackTypeOK, Stages
  <2>3. callbackRegistered' \in [Helpers -> BOOLEAN]
        BY <1>3, <1>4 DEF CallbackTypeOK
  <2>4. \A g \in Helpers \ {h} : callbackRegistered'[g] = callbackRegistered[g]
        BY <1>3, <1>4 DEF CallbackTypeOK
  <2>5. ~callbackRegistered'[h]
        BY <1>3, <1>4 DEF CallbackTypeOK
  <2>6. \A c : c # h => (c \in callbacks' <=> c \in callbacks)
        BY <1>4
  <2>7. h \notin callbacks'
        BY <1>4
  <2>8. Fragment # h
        BY HelpersNumbered DEF Fragment
  <2> QED BY <2>1, <2>2, <2>3, <2>4, <2>5, <2>6, <2>7, <2>8
<1>6. \A g \in Helpers : ~Live(g)'
      BY <1>2, <1>5, HelpersNumbered DEF CallbackInv, Listed, InOrder, Live
<1>7. CallbackTypeOK'
  <2>1. posts' \in Seq(Messages)
        BY <1>1, <1>2, PushedTwo DEF CallbackInv, CallbackTypeOK
  <2> QED BY <1>2, <1>3, <1>5, <2>1 DEF CallbackTypeOK, fragment, display
<1>8. Listed'
  <2>1. FlagsAgree'
        BY <1>2, <1>3, <1>5 DEF FlagsAgree, fragment
  <2>2. InOrder'
        BY <1>2, <1>5, <1>6 DEF CallbackInv, Listed, InOrder
  <2>3. LiveConnects'
        BY <1>6 DEF LiveConnects
  <2>4. Heard'
    <3>1. /\ Len(posts') = Len(posts) + 2 /\ Len(posts) \in Nat
          /\ \A i \in 1..Len(posts) : posts'[i] = posts[i]
          /\ posts'[Len(posts) + 1] = m /\ posts'[Len(posts) + 2] = n
          BY <1>1, <1>2, PushedTwo DEF CallbackInv, CallbackTypeOK
    <3>2. \A g \in Helpers : ~IsScreen(m, g) /\ ~IsScreen(n, g)
          BY <1>1 DEF IsState, IsScreen
    <3>3. \A g \in Helpers, i \in 1..Len(posts') : IsScreen(posts'[i], g) => i \in 1..Len(posts) /\ IsScreen(posts[i], g)
          BY <3>1, <3>2
    <3> QED BY <1>2, <1>5, <3>3 DEF CallbackInv, Listed, Heard
  <2> QED BY <2>1, <2>2, <2>3, <2>4 DEF Listed
<1>9. Told'
  <2>1. AnnouncedAlternate'
        BY <1>2 DEF CallbackInv, Told, AnnouncedAlternate, display
  <2>2. Fresh' /\ HearsAlternate'
        BY <1>6 DEF Fresh, HearsAlternate, Live
  <2> QED BY <2>1, <2>2 DEF Told
<1>10. Counted'
      BY <1>2, <1>4 DEF CallbackInv, Counted
<1> QED BY <1>7, <1>8, <1>9, <1>10 DEF CallbackInv

\* A posted state becomes the present one (setState()).
LEMMA RunStateStep ==
  ASSUME CallbackInv, RunState
  PROVE  CallbackInv'
<1>1. /\ UNCHANGED <<service, fragment, notification, display, upset>>
      /\ posts # <<>> /\ IsState(Head(posts)) /\ mState' = Head(posts)[2] /\ posts' = Tail(posts)
      BY DEF RunState, IsState
<1>2. posts \in Seq(Messages) /\ Head(posts) \in Messages /\ posts' \in Seq(Messages)
      BY <1>1, Popped DEF CallbackInv, CallbackTypeOK
<1>3. \A h : ~IsScreen(Head(posts), h)
      BY <1>1 DEF IsState, IsScreen
<1>4. CallbackTypeOK'
  <2>1. mState' \in States
        BY <1>1, <1>2, MessageParts
  <2> QED BY <1>1, <1>2, <2>1 DEF CallbackInv, CallbackTypeOK, fragment, notification, display
<1>5. Listed'
  <2>1. FlagsAgree' /\ InOrder'
        BY <1>1 DEF CallbackInv, Listed, FlagsAgree, InOrder, Live, fragment, notification, service
  <2>2. LiveConnects'
        BY <1>1, <1>2, ConnectsPopped DEF CallbackInv, Listed, LiveConnects, Live, notification
  <2>3. Heard'
    <3>1. \A i \in 1..Len(posts') : i + 1 \in 1..Len(posts) /\ posts'[i] = posts[i + 1]
          BY <1>1, <1>2, Popped
    <3> QED BY <1>1, <3>1 DEF CallbackInv, Listed, Heard, notification
  <2> QED BY <2>1, <2>2, <2>3 DEF Listed
<1>6. Told'
  <2>1. AnnouncedAlternate' /\ (~upset' => Fresh') /\ NextTold' = NextTold
        BY <1>1 DEF CallbackInv, Told, AnnouncedAlternate, Fresh, NextTold, display, notification
  <2>2. ASSUME ~upset', NEW h \in Helpers, helper'[h] = "hears"
        PROVE  Alternate(posts', h, callbackRegistered'[h], NextTold')
    <3>1. Alternate(posts, h, callbackRegistered[h], NextTold)
          BY <1>1, <2>2 DEF CallbackInv, Told, HearsAlternate, notification
    <3> QED BY <1>1, <1>2, <1>3, <2>1, <3>1, AlternatePopped DEF notification
  <2> QED BY <2>1, <2>2 DEF Told, HearsAlternate
<1>7. Counted'
      BY <1>1 DEF CallbackInv, Counted, ServiceOK, CountedOnce, service
<1> QED BY <1>4, <1>5, <1>6, <1>7 DEF CallbackInv

\* A receiver that hears of the screen registers or leaves; unless a change crossed the start of the session
\* it is told what it did not know (onReceive()).
LEMMA OnReceiveStep ==
  ASSUME CallbackInv, onReceive
  PROVE  CallbackInv'
<1> DEFINE m == Head(posts)
           h == m[2]
           Acts == helper[h] = "hears" /\ mState = "CONNECTED"
<1>1. /\ UNCHANGED <<mState, fragment, helper, screenOn, display>>
      /\ posts # <<>> /\ ~IsState(m) /\ posts' = Tail(posts)
      /\ Acts => update(h, m[3]) /\ upset' = upset
      /\ ~Acts => UNCHANGED <<service, callbackRegistered>> /\ upset' = (upset \/ helper[h] = "hears")
      BY DEF onReceive, IsState
<1>2. posts \in Seq(Messages) /\ m \in Messages /\ posts' \in Seq(Messages) /\ posts[1] = m /\ 1 \in 1..Len(posts)
      BY <1>1, Popped DEF CallbackInv, CallbackTypeOK
<1>3. h \in Helpers /\ m[3] \in BOOLEAN /\ IsScreen(m, h) /\ \A g \in Helpers : IsScreen(m, g) => g = h
      BY <1>1, <1>2, MessageParts DEF IsScreen
<1>4. CallbackTypeOK /\ ServiceOK /\ FlagsAgree
      BY DEF CallbackInv, Listed, Counted
<1> HIDE DEF m, h
<1>5. ASSUME Acts
      PROVE  /\ ServiceOK'
             /\ CountedOnce /\ ~(m[3] /\ callbackRegistered[h]) => CountedOnce'
             /\ callbacks' = IF m[3] THEN callbacks \union {h} ELSE callbacks \ {h}
             /\ callbackRegistered' = [callbackRegistered EXCEPT ![h] = m[3]]
      BY <1>1, <1>3, <1>4, <1>5, UpdateCounts
<1>6. ServiceOK' /\ callbackRegistered' \in [Helpers -> BOOLEAN] /\ upset' \in BOOLEAN
  <2>1. upset' \in BOOLEAN
        BY <1>1, <1>4 DEF CallbackTypeOK
  <2>2. CASE Acts
    <3>1. [callbackRegistered EXCEPT ![h] = m[3]] \in [Helpers -> BOOLEAN]
          BY <1>3, <1>4 DEF CallbackTypeOK
    <3> QED BY <1>5, <2>1, <2>2, <3>1
  <2>3. CASE ~Acts
    <3>1. UNCHANGED <<callbacks, callbacksCount, timer, callbackRegistered>>
          BY <1>1, <2>3 DEF service
    <3> QED BY <1>4, <2>1, <3>1 DEF ServiceOK, CallbackTypeOK
  <2> QED BY <2>2, <2>3
<1>7. CallbackTypeOK'
      BY <1>1, <1>2, <1>4, <1>6 DEF CallbackTypeOK, fragment, display
<1>8. \A g \in Helpers : g # h => callbackRegistered'[g] = callbackRegistered[g] /\ (g \in callbacks' <=> g \in callbacks)
  <2>1. CASE Acts
        BY <1>4, <1>5, <2>1 DEF CallbackTypeOK
  <2>2. CASE ~Acts
        BY <1>1, <2>2 DEF service
  <2> QED BY <2>1, <2>2
<1>9. Listed'
  <2>1. FlagsAgree'
    <3>1. CASE Acts
      <4>1. callbackRegistered'[h] = m[3]
            BY <1>3, <1>4, <1>5, <3>1 DEF CallbackTypeOK
      <4>2. h \in callbacks' <=> m[3]
            BY <1>5, <3>1
      <4>3. Fragment \in callbacks' <=> Fragment \in callbacks
            BY <1>3, <1>5, <3>1, HelpersNumbered DEF Fragment
      <4>4. helper'[h] = "hears"
            BY <1>1, <3>1
      <4>5. callbackRegistered'[h] <=> h \in callbacks'
            BY <4>1, <4>2
      <4> QED BY <1>1, <1>4, <1>8, <4>3, <4>4, <4>5 DEF FlagsAgree, fragment
    <3>2. CASE ~Acts
          BY <1>1, <1>4, <3>2 DEF FlagsAgree, fragment, service
    <3> QED BY <3>1, <3>2
  <2>2. InOrder'
        BY <1>1 DEF CallbackInv, Listed, InOrder, Live
  <2>3. LiveConnects'
        BY <1>1, <1>2, ConnectsPopped DEF CallbackInv, Listed, LiveConnects, Live, m
  <2>4. Heard'
    <3>1. \A i \in 1..Len(posts') : i + 1 \in 1..Len(posts) /\ posts'[i] = posts[i + 1]
          BY <1>1, <1>2, Popped
    <3> QED BY <1>1, <3>1 DEF CallbackInv, Listed, Heard
  <2> QED BY <2>1, <2>2, <2>3, <2>4 DEF Listed
<1>10. Told'
  <2>1. AnnouncedAlternate' /\ NextTold' = NextTold
        BY <1>1 DEF CallbackInv, Told, AnnouncedAlternate, NextTold, display
  <2>2. ~upset' => ~upset /\ (Acts \/ helper[h] # "hears")
        BY <1>1
  <2>3. helper[h] = "updates" => ~Acts
        OBVIOUS
  <2>4. \A g \in Helpers : helper[g] = "updates" => callbackRegistered'[g] = callbackRegistered[g]
        BY <1>1, <1>8
  <2>5. ~upset' => Fresh'
        BY <1>1, <2>2, <2>4 DEF CallbackInv, Told, Fresh, display
  <2>6. ASSUME ~upset', NEW g \in Helpers, helper'[g] = "hears"
        PROVE  Alternate(posts', g, callbackRegistered'[g], NextTold')
    <3>1. Alternate(posts, g, callbackRegistered[g], NextTold)
          BY <1>1, <2>2, <2>6 DEF CallbackInv, Told, HearsAlternate
    <3>2. callbackRegistered'[g] = IF IsScreen(m, g) THEN m[3] ELSE callbackRegistered[g]
      <4>1. CASE g = h
        <5>1. Acts
              BY <1>1, <2>2, <2>6, <4>1
        <5> QED BY <1>3, <1>4, <1>5, <4>1, <5>1 DEF CallbackTypeOK
      <4>2. CASE g # h
            BY <1>3, <1>8, <4>2
      <4> QED BY <4>1, <4>2
    <3> QED BY <1>1, <1>2, <2>1, <3>1, <3>2, AlternatePopped DEF m
  <2> QED BY <2>1, <2>5, <2>6 DEF Told, HearsAlternate
<1>11. ~upset' => CountedOnce'
  <2> SUFFICES ASSUME ~upset' PROVE CountedOnce'
      OBVIOUS
  <2>0. ~upset
        BY <1>1
  <2>1. ~upset /\ CountedOnce
        BY <2>0 DEF CallbackInv, Counted
  <2>2. CASE Acts
    <3>1. Alternate(posts, h, callbackRegistered[h], NextTold)
          BY <1>3, <2>1, <2>2 DEF CallbackInv, Told, HearsAlternate
    <3>2. \A k \in 1..Len(posts) : ~(k < 1)
          BY <1>2
    <3>3. m[3] # callbackRegistered[h]
          BY <1>2, <1>3, <3>1, <3>2 DEF Alternate
    <3>4. ~(m[3] /\ callbackRegistered[h])
          BY <1>3, <1>4, <3>3 DEF CallbackTypeOK
    <3> QED BY <1>5, <2>1, <2>2, <3>4
  <2>3. CASE ~Acts
        BY <1>1, <2>1, <2>3 DEF CountedOnce, service
  <2> QED BY <2>2, <2>3
<1> QED BY <1>6, <1>7, <1>9, <1>10, <1>11 DEF CallbackInv, Counted

\* A change of the screen is announced after those before it, each unlike the one before (the screen).
LEMMA ScreenChangesStep ==
  ASSUME CallbackInv, ScreenChanges
  PROVE  CallbackInv'
<1>1. /\ UNCHANGED <<service, mState, posts, fragment, notification>> /\ changes' = changes + 1
      /\ screen' = ~screen /\ announced' = Append(announced, screen') /\ upset' = (upset \/ ~MainIdle)
      BY DEF ScreenChanges
<1>2. /\ announced \in Seq(BOOLEAN) /\ screen \in BOOLEAN /\ screen' \in BOOLEAN /\ Len(announced) \in Nat
      BY <1>1 DEF CallbackInv, CallbackTypeOK
<1>3. /\ announced' \in Seq(BOOLEAN) /\ Len(announced') = Len(announced) + 1
      /\ \A i \in 1..Len(announced) : announced'[i] = announced[i]
      /\ announced'[Len(announced) + 1] = screen'
      BY <1>1, <1>2, Pushed
<1>4. CallbackTypeOK'
  <2>1. upset' \in BOOLEAN /\ changes' \in Nat
        BY <1>1 DEF CallbackInv, CallbackTypeOK
  <2> QED BY <1>1, <1>2, <1>3, <2>1 DEF CallbackInv, CallbackTypeOK, fragment, notification
<1>5. Listed'
      BY <1>1 DEF CallbackInv, Listed, FlagsAgree, InOrder, Live, LiveConnects, Heard, fragment, notification, service
<1>6. announced = <<>> <=> Len(announced) = 0
      BY <1>2
<1>7. AnnouncedAlternate'
  <2>1. AnnouncedAlternate
        BY DEF CallbackInv, Told
  <2>2. ASSUME NEW k \in 1..Len(announced') - 1 PROVE announced'[k] # announced'[k + 1]
    <3>1. CASE k = Len(announced)
      <4>1. announced'[k] = screen /\ announced'[k + 1] = screen'
            BY <1>2, <1>3, <1>6, <2>1, <3>1, <2>2 DEF AnnouncedAlternate
      <4>2. screen # screen'
            BY <1>1, <1>2
      <4> QED BY <4>1, <4>2
    <3>2. CASE k # Len(announced)
          BY <1>2, <1>3, <2>1, <3>2, <2>2 DEF AnnouncedAlternate
    <3> QED BY <3>1, <3>2
  <2>3. announced'[Len(announced')] = screen'
        BY <1>3
  <2> QED BY <2>2, <2>3 DEF AnnouncedAlternate
<1>8. NextTold' = NextTold
  <2>1. announced' # <<>> /\ NextTold' = announced'[1]
        BY <1>2, <1>3 DEF NextTold
  <2>2. CASE announced = <<>>
        BY <1>1, <1>3, <1>6, <2>1, <2>2 DEF NextTold
  <2>3. CASE announced # <<>>
        BY <1>2, <1>3, <1>6, <2>1, <2>3 DEF NextTold
  <2> QED BY <2>2, <2>3
<1>9. ~upset' => ~upset /\ MainIdle
      BY <1>1
<1>10. ~upset' => Fresh'
      BY <1>1, <1>9 DEF Fresh, MainIdle, Constructing, notification
<1>11. ~upset' => HearsAlternate'
      BY <1>1, <1>8, <1>9 DEF CallbackInv, Told, HearsAlternate, notification
<1>12. Counted'
      BY <1>1, <1>9 DEF CallbackInv, Counted, ServiceOK, CountedOnce, service
<1> QED BY <1>4, <1>5, <1>7, <1>10, <1>11, <1>12 DEF CallbackInv, Told

\* The next broadcast goes to the one receiver that is registered, or to nobody (sendBroadcast()).
LEMMA BroadcastStep ==
  ASSUME CallbackInv, Broadcast
  PROVE  CallbackInv'
<1> DEFINE hearing == {h \in Helpers : helper[h] = "hears"}
           who == CHOOSE h \in hearing : TRUE
           m == <<"screen", who, Head(announced)>>
<1>1. /\ UNCHANGED <<service, mState, fragment, notification, screen, changes, upset>>
      /\ announced # <<>> /\ announced' = Tail(announced)
      /\ IF hearing = {} THEN posts' = posts ELSE posts' = Append(posts, m)
      BY DEF Broadcast
<1>2. /\ announced \in Seq(BOOLEAN) /\ posts \in Seq(Messages) /\ screen \in BOOLEAN
      BY DEF CallbackInv, CallbackTypeOK
<1>3. /\ announced' \in Seq(BOOLEAN) /\ Len(announced') = Len(announced) - 1 /\ Len(announced) \in Nat \ {0}
      /\ \A i \in 1..Len(announced) - 1 : announced'[i] = announced[i + 1]
      /\ Head(announced) = announced[1] /\ announced[1] \in BOOLEAN
      BY <1>1, <1>2, Popped
<1>4. hearing # {} => who \in Helpers /\ helper[who] = "hears"
      OBVIOUS
<1>5. \A h \in Helpers : helper[h] = "hears" => h = who
  <2>1. \A g, h \in Helpers : helper[g] = "hears" /\ helper[h] = "hears" => g = h
    <3>1. \A g, h \in Helpers : helper[g] = "hears" /\ helper[h] = "hears" => g <= h
          BY DEF CallbackInv, Listed, InOrder, Live
    <3> QED BY <3>1, HelpersNumbered
  <2> QED BY <1>4, <2>1
<1>6. hearing # {} => /\ m \in Messages /\ ~IsState(m) /\ IsScreen(m, who)
                      /\ \A g \in Helpers : IsScreen(m, g) => g = who
      BY <1>3, <1>4, MessageParts DEF IsScreen
<1>7. hearing = {} => \A h \in Helpers : helper[h] # "hears"
      OBVIOUS
<1>8. NextTold = announced[1]
      BY <1>1 DEF NextTold
<1> HIDE DEF hearing, who, m
<1>9. CallbackTypeOK'
  <2>1. posts' \in Seq(Messages)
        BY <1>1, <1>2, <1>6, Pushed
  <2> QED BY <1>1, <1>3, <2>1 DEF CallbackInv, CallbackTypeOK, fragment, notification
<1>10. Listed'
  <2>1. FlagsAgree' /\ InOrder'
        BY <1>1 DEF CallbackInv, Listed, FlagsAgree, InOrder, Live, fragment, notification, service
  <2>2. LiveConnects'
        BY <1>1, <1>2, <1>6, ConnectsPushed DEF CallbackInv, Listed, LiveConnects, Live, notification
  <2>3. Heard'
    <3>1. CASE hearing = {}
          BY <1>1, <3>1 DEF CallbackInv, Listed, Heard, notification
    <3>2. CASE hearing # {}
      <4>1. /\ Len(posts') = Len(posts) + 1 /\ Len(posts) \in Nat
            /\ \A i \in 1..Len(posts) : posts'[i] = posts[i]
            /\ posts'[Len(posts) + 1] = m
            BY <1>1, <1>2, <1>6, <3>2, Pushed
      <4>2. \A g \in Helpers, i \in 1..Len(posts') :
              IsScreen(posts'[i], g) => (i \in 1..Len(posts) /\ IsScreen(posts[i], g)) \/ g = who
            BY <1>6, <3>2, <4>1
      <4> QED BY <1>1, <1>4, <3>2, <4>2 DEF CallbackInv, Listed, Heard, notification
    <3> QED BY <3>1, <3>2
  <2> QED BY <2>1, <2>2, <2>3 DEF Listed
<1>11. AnnouncedAlternate'
  <2>1. AnnouncedAlternate
        BY DEF CallbackInv, Told
  <2>2. ASSUME NEW k \in 1..Len(announced') - 1 PROVE announced'[k] # announced'[k + 1]
        BY <1>3, <2>1, <2>2 DEF AnnouncedAlternate
  <2>3. ASSUME announced' # <<>> PROVE announced'[Len(announced')] = screen'
    <3>1. Len(announced') # 0
          BY <1>3, <2>3
    <3> QED BY <1>1, <1>3, <2>1, <3>1 DEF AnnouncedAlternate
  <2> QED BY <2>2, <2>3 DEF AnnouncedAlternate
<1>12. NextTold' \in BOOLEAN /\ NextTold' # announced[1]
  <2>1. AnnouncedAlternate
        BY DEF CallbackInv, Told
  <2>2. CASE announced' = <<>>
    <3>1. Len(announced) = 1
          BY <1>3, <2>2
    <3>2. announced[1] = screen /\ NextTold' = ~screen
          BY <1>1, <2>1, <2>2, <3>1 DEF AnnouncedAlternate, NextTold
    <3> QED BY <1>2, <3>2
  <2>3. CASE announced' # <<>>
    <3>1. Len(announced') # 0
          BY <1>3, <2>3
    <3>2. announced'[1] = announced[2] /\ announced[2] # announced[1] /\ announced'[1] \in BOOLEAN
          BY <1>3, <2>1, <3>1 DEF AnnouncedAlternate
    <3> QED BY <2>3, <3>2 DEF NextTold
  <2> QED BY <2>2, <2>3
<1>13. ~upset' => Fresh'
      BY <1>1 DEF CallbackInv, Told, Fresh, notification
<1>14. ASSUME ~upset', NEW h \in Helpers, helper'[h] = "hears"
       PROVE  Alternate(posts', h, callbackRegistered'[h], NextTold')
  <2>1. Alternate(posts, h, callbackRegistered[h], announced[1])
        BY <1>1, <1>8, <1>14 DEF CallbackInv, Told, HearsAlternate, notification
  <2>2. h = who /\ hearing # {} /\ callbackRegistered'[h] = callbackRegistered[h] /\ callbackRegistered[h] \in BOOLEAN
        BY <1>1, <1>5, <1>7, <1>14 DEF notification, CallbackInv, CallbackTypeOK
  <2>3. posts' = Append(posts, <<"screen", h, announced[1]>>)
        BY <1>1, <1>3, <2>2 DEF m
  <2> QED BY <1>2, <1>3, <1>12, <2>1, <2>2, <2>3, AlternatePushed
<1>15. Counted'
      BY <1>1 DEF CallbackInv, Counted, ServiceOK, CountedOnce, service
<1> QED BY <1>9, <1>10, <1>11, <1>13, <1>14, <1>15 DEF CallbackInv, Told, HearsAlternate

----------------------------------------------------------------------------
\* For any number of sessions and changes of the screen: whoever registered is told, whoever has gone is
\* not, and unless a change of the screen crossed the start of a session the count beside the list is
\* exact (registerCallback(), unregisterCallback(), NotificationHelper(), destroy(), detachService()).
THEOREM CallbackSafety == CallbackSpec => []CallbacksExact
<1>1. CallbackInv /\ [CallbackNext]_callbackVars => CallbackInv'
  <2> SUFFICES ASSUME CallbackInv, [CallbackNext]_callbackVars PROVE CallbackInv'
      OBVIOUS
  <2>1. CASE UNCHANGED callbackVars
        BY <2>1 DEF callbackVars, service, fragment, notification, display, CallbackInv, CallbackTypeOK, Listed, Told,
           Counted, FlagsAgree, InOrder, Live, LiveConnects, Heard, AnnouncedAlternate, Fresh, HearsAlternate,
           NextTold, ServiceOK, CountedOnce
  <2> QED BY <2>1, FragmentStep, StartRunnerStep, ForcedUpdateStep, RegisterReceiverStep, StopRunnerStep,
             RunStateStep, OnReceiveStep, ScreenChangesStep, BroadcastStep DEF CallbackNext
<1>2. CallbackInv => CallbacksExact
  <2> SUFFICES ASSUME CallbackInv PROVE CallbacksExact
      OBVIOUS
  <2>1. NobodyDeaf
    <3>1. callbacks # {} => Cardinality(callbacks) \in Nat \ {0}
          BY FS_EmptySet, FS_CardinalityType DEF CallbackInv, Counted, ServiceOK
    <3> QED BY <3>1 DEF NobodyDeaf, CallbackInv, Counted, ServiceOK
  <2>2. GoneIsForgotten
    <3>1. ASSUME NEW h \in Helpers, h \in callbacks PROVE Current(h) /\ helper[h] # "destroyed"
          BY <3>1 DEF CallbackInv, Listed, FlagsAgree, InOrder, Live, Current
    <3>2. Fragment \in callbacks => bound
          BY DEF CallbackInv, Listed, FlagsAgree
    <3>3. callbacks \subseteq Helpers \union {Fragment}
          BY DEF CallbackInv, Counted, ServiceOK
    <3> QED BY <3>1, <3>2, <3>3 DEF GoneIsForgotten
  <2> QED BY <2>1, <2>2 DEF CallbacksExact, CallbackInv, Counted
<1> QED BY <1>1, <1>2, CallbackInitInv, PTL DEF CallbackSpec

----------------------------------------------------------------------------
(* The threads at the socket files. *)

SocketPlaces == {"new", "delete", "bind", "unbound", "listen", "check", "read", "call", "accepting", "done"}

SocketTypeOK ==
  /\ pc \in [Sessions -> SocketPlaces]
  /\ isRunning \in [Sessions -> BOOLEAN] /\ mServerSocket \in [Sessions -> BOOLEAN]
  /\ socket \in [Sessions -> {"none", "bound", "listening", "closed"}]
  /\ file \in Sessions \union {0} /\ field \in Sessions \union {0}
  /\ stopping \in {"no", "close", "null"}
  /\ waiting \in [Sessions -> Nat] /\ connects \in Nat
  /\ crashed \in BOOLEAN /\ early \in BOOLEAN

\* stopThread() runs on a thread that is there.
FieldStops == stopping # "no" => field # 0

\* A thread that was not started has touched nothing.
NewHasNothing(t) ==
  pc[t] = "new" =>
    t # field /\ isRunning[t] /\ ~mServerSocket[t] /\ socket[t] = "none" /\ waiting[t] = 0

\* The session's own thread finds the path free, owns the file from then on, and has its socket in the
\* field until stopThread() forgets it; what stopThread() has closed, nobody waits at but for accept().
FieldServes(t) ==
  t = field =>
    /\ pc[t] # "new" /\ pc[t] # "unbound" /\ (isRunning[t] <=> stopping = "no")
    /\ pc[t] \in {"delete", "bind"} => socket[t] = "none" /\ ~mServerSocket[t]
    /\ pc[t] = "bind" => file = 0
    /\ pc[t] = "listen" => file = t /\ socket[t] = "bound" /\ ~mServerSocket[t]
    /\ pc[t] \in Serving \union {"done"} =>
         file = t /\ mServerSocket[t] /\ socket[t] = IF stopping = "null" THEN "closed" ELSE "listening"
    /\ stopping = "null" => pc[t] \in Serving \union {"done"}
    /\ waiting[t] > 0 => socket[t] # "closed" \/ pc[t] = "accepting"

\* A thread of an earlier session is past its start: it touches the file no more.
PastIsClosed(t) ==
  pc[t] # "new" /\ t # field =>
    /\ pc[t] \in Serving \union {"done"} /\ socket[t] = "closed"
    /\ waiting[t] > 0 => pc[t] = "accepting"

Apart == \A t \in Sessions : NewHasNothing(t) /\ FieldServes(t) /\ PastIsClosed(t)

SocketInv == SocketTypeOK /\ FieldStops /\ (~early => Apart)

\* In the first state of a process no thread is started, though a file may be left (SocketInit).
LEMMA SocketInitInv == SocketInit => SocketInv
<1> SUFFICES ASSUME SocketInit PROVE SocketInv
    OBVIOUS
<1>1. SocketTypeOK /\ FieldStops
      BY DEF SocketInit, SocketTypeOK, FieldStops, SocketPlaces
<1>2. ASSUME NEW t \in Sessions PROVE NewHasNothing(t) /\ FieldServes(t) /\ PastIsClosed(t)
      BY SessionsNumbered DEF SocketInit, NewHasNothing, FieldServes, PastIsClosed
<1> QED BY <1>1, <1>2 DEF SocketInv, Apart

\* The types of the fields and of the threads' places, and that only a thread that is there is stopped, are
\* kept by every step (run(), startRunner(), stopRunner()).
LEMMA SocketTypeStep == SocketTypeOK /\ FieldStops /\ [SocketNext]_socketVars => SocketTypeOK' /\ FieldStops'
<1> SUFFICES ASSUME SocketTypeOK, FieldStops, [SocketNext]_socketVars PROVE SocketTypeOK' /\ FieldStops'
    OBVIOUS
<1> USE SessionsNumbered DEF SocketTypeOK, FieldStops, SocketPlaces, Goto, Becomes, control, clients
<1>1. ASSUME NEW t \in Sessions, StartThread(t) PROVE SocketTypeOK' /\ FieldStops'
      BY <1>1 DEF StartThread
<1>2. CASE stopThread
      BY <1>2 DEF stopThread
<1>3. CASE closeServerSocket
  <2>1. CASE mServerSocket[field]
        BY <1>3, <2>1 DEF closeServerSocket
  <2>2. CASE ~mServerSocket[field]
        BY <1>3, <2>2 DEF closeServerSocket
  <2> QED BY <2>1, <2>2
<1>4. CASE Forget
      BY <1>4 DEF Forget
<1>5. ASSUME NEW t \in Sessions, DeleteFile(t) \/ Bind(t) \/ Listen(t) PROVE SocketTypeOK' /\ FieldStops'
      BY <1>5 DEF DeleteFile, Bind, Listen
<1>6. ASSUME NEW t \in Sessions, CheckRunning(t) \/ ReadSocket(t) \/ CallAccept(t) PROVE SocketTypeOK' /\ FieldStops'
      BY <1>6 DEF CheckRunning, ReadSocket, CallAccept
<1>7. ASSUME NEW t \in Sessions, Accept(t) \/ AcceptFails(t) PROVE SocketTypeOK' /\ FieldStops'
      BY <1>7 DEF Accept, AcceptFails
<1>8. CASE Connect
      BY <1>8 DEF Connect
<1>9. CASE UNCHANGED socketVars
      BY <1>9 DEF socketVars
<1> QED BY <1>1, <1>2, <1>3, <1>4, <1>5, <1>6, <1>7, <1>8, <1>9 DEF SocketNext, Run

\* While no thread was stopped early, a step of the service keeps the sessions apart: the new thread has
\* touched nothing, and the one that is let go has served and is closed (startRunner(), stopThread(),
\* closeServerSocket()).
LEMMA ServiceApart ==
  ASSUME SocketInv, SocketTypeOK', ~early',
         (\E t \in Sessions : StartThread(t)) \/ stopThread \/ closeServerSocket \/ Forget
  PROVE  Apart'
<1> SUFFICES ASSUME NEW u \in Sessions PROVE (NewHasNothing(u) /\ FieldServes(u) /\ PastIsClosed(u))'
    BY DEF Apart
<1> USE SessionsNumbered DEF SocketInv, SocketTypeOK, FieldStops, Apart, SocketPlaces, Goto, Becomes, control, clients, Serving
<1>1. ASSUME NEW t \in Sessions, StartThread(t) PROVE (NewHasNothing(u) /\ FieldServes(u) /\ PastIsClosed(u))'
      BY <1>1 DEF StartThread, NewHasNothing, FieldServes, PastIsClosed
<1>2. CASE stopThread
      BY <1>2 DEF stopThread, NewHasNothing, FieldServes, PastIsClosed
<1>3. CASE closeServerSocket
      BY <1>3 DEF closeServerSocket, NewHasNothing, FieldServes, PastIsClosed
<1>4. CASE Forget
      BY <1>4 DEF Forget, NewHasNothing, FieldServes, PastIsClosed
<1> QED BY <1>1, <1>2, <1>3, <1>4

\* So does a step of a thread: only the session's own deletes the file and binds (run()).
LEMMA ThreadApart ==
  ASSUME SocketInv, SocketTypeOK', ~early', NEW t \in Sessions, Run(t) \/ AcceptFails(t)
  PROVE  Apart'
<1> SUFFICES ASSUME NEW u \in Sessions PROVE (NewHasNothing(u) /\ FieldServes(u) /\ PastIsClosed(u))'
    BY DEF Apart
<1> USE SessionsNumbered DEF SocketInv, SocketTypeOK, FieldStops, Apart, SocketPlaces, Goto, Becomes, control, clients, Serving
<1>1. CASE DeleteFile(t)
      BY <1>1 DEF DeleteFile, NewHasNothing, FieldServes, PastIsClosed
<1>2. CASE Bind(t)
      BY <1>2 DEF Bind, NewHasNothing, FieldServes, PastIsClosed
<1>3. CASE Listen(t)
      BY <1>3 DEF Listen, NewHasNothing, FieldServes, PastIsClosed
<1>4. CASE CheckRunning(t)
      BY <1>4 DEF CheckRunning, NewHasNothing, FieldServes, PastIsClosed
<1>5. CASE ReadSocket(t)
      BY <1>5 DEF ReadSocket, NewHasNothing, FieldServes, PastIsClosed
<1>6. CASE CallAccept(t)
      BY <1>6 DEF CallAccept, NewHasNothing, FieldServes, PastIsClosed
<1>7. CASE Accept(t)
      BY <1>7 DEF Accept, NewHasNothing, FieldServes, PastIsClosed
<1>8. CASE AcceptFails(t)
      BY <1>8 DEF AcceptFails, NewHasNothing, FieldServes, PastIsClosed
<1> QED BY <1>1, <1>2, <1>3, <1>4, <1>5, <1>6, <1>7, <1>8 DEF Run

\* A client connects to the thread that owns the file: it listens, or waits in accept().
LEMMA ClientApart ==
  ASSUME SocketInv, SocketTypeOK', ~early', Connect
  PROVE  Apart'
BY SessionsNumbered DEF SocketInv, SocketTypeOK, Apart, SocketPlaces, Connect, control, clients, Serving, NewHasNothing,
   FieldServes, PastIsClosed

\* What the inductive invariant says of files and sockets is the property.
LEMMA ApartSuffices == SocketInv => SessionsApart
BY DEF SocketInv, SocketTypeOK, Apart, SessionsApart, PathIsNewest, NobodyWaitsForever, NewHasNothing, FieldServes,
   PastIsClosed, Serving

\* For any number of sessions and clients: unless a thread was stopped before it had a socket, the path
\* leads to the present session's thread and no client waits for ever at a socket of an earlier one
\* (run(), stopThread(), closeServerSocket()).
THEOREM SocketSafety == SocketSpec => []SessionsApart
<1>1. SocketInv /\ [SocketNext]_socketVars => SocketInv'
  <2> SUFFICES ASSUME SocketInv, [SocketNext]_socketVars, ~early' PROVE Apart'
      BY SocketTypeStep DEF SocketInv
  <2>1. SocketTypeOK'
        BY SocketTypeStep DEF SocketInv
  <2>2. CASE UNCHANGED socketVars
        BY <2>2 DEF socketVars, control, clients, SocketInv, Apart, NewHasNothing, FieldServes, PastIsClosed
  <2> QED BY <2>1, <2>2, ServiceApart, ThreadApart, ClientApart DEF SocketNext
<1> QED BY <1>1, SocketInitInv, ApartSuffices, PTL DEF SocketSpec

----------------------------------------------------------------------------
(* The event pipe. *)

\* What is raised is noted where pipecb() looks for it.
Noted ==
  /\ \A s \in raised \intersect Signals :
       pending[s] /\ (sig_pending \/ (at = "signals" /\ s \in scan))
  /\ \A a \in raised \intersect Asyncs :
       sent[a] /\ (async_pending \/ (at = "asyncs" /\ a \in scan))

\* pipecb() is going to run.
Coming == evfd \/ pipe_write_skipped \/ fed # {}

\* A flag that is set makes pipecb() run, which has not passed it yet if it is running.
Announced ==
  /\ sig_pending => Coming \/ at \in {"clears", "signals?"}
  /\ async_pending => Coming \/ at \in {"clears", "signals?", "signals", "asyncs?"}

\* The write is wanted from before the loop looks until the kernel has answered.
Wanted ==
  /\ pipe_write_wanted <=> at \in {"wants", "blocks", "polls", "polled"}
  /\ at \in {"wants", "blocks", "polls"} => fed = {}
  /\ at = "blocks" => ~pipe_write_skipped

IInv == PipeTypeOK /\ Noted /\ Announced /\ Wanted

-----------------------------------------------------------------------------
(* The steps of the handlers. *)

LEMMA RaiseKeeps == ASSUME IInv, NEW s \in Signals, RaiseSignal(s) PROVE IInv'
<1>1. PipeTypeOK'
  BY Zenon DEF IInv, PipeTypeOK, RaiseSignal, Wake
<1>. QED BY <1>1, Disjoint DEF IInv, PipeTypeOK, Noted, Coming, Announced, Wanted, RaiseSignal, Wake

LEMMA SendKeeps == ASSUME IInv, NEW a \in Asyncs, SendAsync(a) PROVE IInv'
<1>. QED BY Disjoint DEF IInv, PipeTypeOK, Noted, Coming, Announced, Wanted, SendAsync, Wake

LEMMA WatchKeeps == ASSUME IInv, NEW now \in SUBSET (Signals \union Asyncs), Watch(now) PROVE IInv'
<1>. QED BY Disjoint DEF IInv, PipeTypeOK, Noted, Coming, Announced, Wanted, Watch, Places, flags, noted

LEMMA WantKeeps == ASSUME IInv, Want PROVE IInv'
<1>. QED BY Disjoint DEF IInv, PipeTypeOK, Noted, Coming, Announced, Wanted, Want, Places, flags, noted

LEMMA LookKeeps == ASSUME IInv, NEW b \in BOOLEAN, Look(b) PROVE IInv'
<1>. QED BY Disjoint DEF IInv, PipeTypeOK, Noted, Coming, Announced, Wanted, Look, Places, flags, noted

LEMMA PollKeeps == ASSUME IInv, NEW b \in BOOLEAN, Poll(b) PROVE IInv'
<1>. QED BY Disjoint DEF IInv, PipeTypeOK, Noted, Coming, Announced, Wanted, Poll, Places, flags, noted

LEMMA UnwantKeeps == ASSUME IInv, Unwant PROVE IInv'
<1>. QED BY Disjoint DEF IInv, PipeTypeOK, Noted, Coming, Announced, Wanted, Unwant, Places, flags, noted

LEMMA CheckSkippedKeeps == ASSUME IInv, CheckSkipped PROVE IInv'
<1>. QED BY Disjoint DEF IInv, PipeTypeOK, Noted, Coming, Announced, Wanted, CheckSkipped, Places, flags, noted

LEMMA PipecbKeeps == ASSUME IInv, Pipecb PROVE IInv'
<1>. QED BY Disjoint DEF IInv, PipeTypeOK, Noted, Coming, Announced, Wanted, Pipecb, Places, flags, noted

LEMMA RenewKeeps == ASSUME IInv, Renew PROVE IInv'
<1>. QED BY Disjoint DEF IInv, PipeTypeOK, Noted, Coming, Announced, Wanted, Renew, Places, flags, noted

LEMMA ClearKeeps == ASSUME IInv, Clear PROVE IInv'
<1>. QED BY Disjoint DEF IInv, PipeTypeOK, Noted, Coming, Announced, Wanted, Clear, Places, flags, noted

LEMMA CheckSignalsKeeps == ASSUME IInv, CheckSignals PROVE IInv'
<1>. QED BY Disjoint DEF IInv, PipeTypeOK, Noted, Coming, Announced, Wanted, CheckSignals, Places, flags, noted

LEMMA FeedSignalKeeps == ASSUME IInv, NEW s \in Signals, FeedSignal(s) PROVE IInv'
<1>. QED BY Disjoint DEF IInv, PipeTypeOK, Noted, Coming, Announced, Wanted, FeedSignal, Places, flags, noted

LEMMA CheckAsyncsKeeps == ASSUME IInv, CheckAsyncs PROVE IInv'
<1>. QED BY Disjoint DEF IInv, PipeTypeOK, Noted, Coming, Announced, Wanted, CheckAsyncs, Places, flags, noted

LEMMA FeedAsyncKeeps == ASSUME IInv, NEW a \in Asyncs, FeedAsync(a) PROVE IInv'
<1>. QED BY Disjoint DEF IInv, PipeTypeOK, Noted, Coming, Announced, Wanted, FeedAsync, Places, flags, noted

-----------------------------------------------------------------------------
LEMMA InitEstablishes == PipeInit => IInv
<1>. QED BY DEF PipeInit, IInv, PipeTypeOK, Noted, Coming, Announced, Wanted, Places

LEMMA StepKeeps == IInv /\ [PipeNext]_pipe => IInv'
<1>. SUFFICES ASSUME IInv, [PipeNext]_pipe PROVE IInv'
  OBVIOUS
<1>1. ASSUME NEW s \in Signals, RaiseSignal(s) \/ FeedSignal(s) PROVE IInv'
  BY <1>1, RaiseKeeps, FeedSignalKeeps
<1>2. ASSUME NEW a \in Asyncs, SendAsync(a) \/ FeedAsync(a) PROVE IInv'
  BY <1>2, SendKeeps, FeedAsyncKeeps
<1>3. ASSUME NEW now \in SUBSET (Signals \union Asyncs), Watch(now) PROVE IInv'
  BY <1>3, WatchKeeps
<1>4. CASE Want \/ Unwant \/ CheckSkipped
  BY <1>4, WantKeeps, UnwantKeeps, CheckSkippedKeeps
<1>5. CASE Pipecb \/ Renew \/ Clear \/ CheckSignals \/ CheckAsyncs
  BY <1>5, PipecbKeeps, RenewKeeps, ClearKeeps, CheckSignalsKeeps, CheckAsyncsKeeps
<1>6. ASSUME NEW b \in BOOLEAN, Look(b) \/ Poll(b) PROVE IInv'
  BY <1>6, LookKeeps, PollKeeps
<1>7. CASE UNCHANGED pipe
  BY <1>7 DEF pipe, flags, noted, IInv, PipeTypeOK, Noted, Coming, Announced, Wanted
<1>. QED BY <1>1, <1>2, <1>3, <1>4, <1>5, <1>6, <1>7 DEF PipeNext

\* A loop that sleeps has nothing noted, or the eventfd wakes it: the flag of what is raised is set,
\* pipecb() is not running, pipe_w is not pending and nothing has been skipped.
LEMMA SleepsAlone == IInv => NoLostWakeup
<1>. SUFFICES ASSUME IInv, at = "blocks", NEW x \in raised PROVE evfd
  BY DEF NoLostWakeup
<1>1. x \in Signals \/ x \in Asyncs
  BY DEF IInv, PipeTypeOK
<1>2. sig_pending \/ async_pending
  BY <1>1 DEF IInv, Noted
<1>3. fed = {} /\ ~pipe_write_skipped
  BY DEF IInv, Wanted
<1>. QED BY <1>2, <1>3 DEF IInv, Announced, Coming

\* The variables of the pipe keep their types (evpipe_write(), pipecb()).
THEOREM PipeTypes == PipeSpec => []PipeTypeOK
<1>1. IInv => PipeTypeOK
  BY DEF IInv
<1>. QED BY <1>1, InitEstablishes, StepKeeps, PTL DEF PipeSpec

\* However many signals and asyncs there are, and whenever they are raised, the loop does not sleep on
\* one whose watcher is started (evpipe_write(), ev_run(), pipecb()).
THEOREM NoWakeupIsLost == PipeSpec => []NoLostWakeup
<1>. QED BY SleepsAlone, InitEstablishes, StepKeeps, PTL DEF PipeSpec

----------------------------------------------------------------------------
(* The guard. *)

USE DEF StartsAssumption
USE StartsAssumption

\* The first state satisfies the invariant: no guard, no child, nobody in
\* destroy() (the constructor and the fields' default values).
LEMMA InitInv == GuardInit => Inv
<1> SUFFICES ASSUME GuardInit PROVE Inv
    OBVIOUS
<1>1. TypeOK
  <2>1. dpc \in [Destroyers -> DestroyPc]
        BY DEF GuardInit, DestroyPc
  <2>2. starts \in 0..MaxSpawns /\ process \in 0..starts
        BY DEF GuardInit
  <2>3. /\ gpc \in GuardPc
        /\ owner \in {"new", "starting", "started"}
        /\ isDestroyed \in BOOLEAN /\ interrupted \in BOOLEAN /\ onRestartCallback \in BOOLEAN
        BY DEF GuardInit, GuardPc
  <2>4. permits \in Nat /\ tries \in 1..5
        BY DEF GuardInit
  <2>5. alive \subseteq 1..starts /\ signalled \subseteq 1..starts
        BY DEF GuardInit
  <2> QED BY <2>1, <2>2, <2>3, <2>4, <2>5 DEF TypeOK
<1>2. OneChild /\ FieldFollows /\ StartWaits /\ NoOrphan /\ ThrowsOnlyChildless
      BY DEF GuardInit, OneChild, FieldFollows, StartWaits, NoOrphan, ThrowsOnlyChildless
<1> QED BY <1>1, <1>2 DEF Inv

\* Every step of start() keeps the invariant.
LEMMA StartStep == Inv /\ (StartGuard \/ StartReturns) => Inv'
<1> SUFFICES ASSUME Inv, StartGuard \/ StartReturns PROVE Inv'
    OBVIOUS
<1> USE DEF Inv, TypeOK, OneChild, FieldFollows, StartWaits, NoOrphan,
            ThrowsOnlyChildless, GuardPc, DestroyPc, GuardMoves, sem, guardFields, children, callback
<1>1. CASE StartGuard
      BY <1>1 DEF StartGuard
<1>2. CASE StartReturns
      BY <1>2 DEF StartReturns
<1> QED BY <1>1, <1>2

\* Every step of the guard thread keeps the invariant.
LEMMA GuardStep == Inv /\ Guard => Inv'
<1> SUFFICES ASSUME Inv, Guard PROVE Inv'
    OBVIOUS
<1> USE DEF Inv, TypeOK, OneChild, FieldFollows, StartWaits, NoOrphan,
            ThrowsOnlyChildless, GuardPc, DestroyPc, GuardMoves, sem, guardFields, children, callback
<1>1. CASE Loop
      BY <1>1 DEF Loop
<1>2. CASE Spawn
      BY <1>2 DEF Spawn
<1>3. CASE SpawnFails
      BY <1>3 DEF SpawnFails
<1>4. CASE SetProcess
      BY <1>4 DEF SetProcess
<1>5. CASE Callback
      BY <1>5 DEF Callback
<1>6. CASE Sleep \/ SleepInterrupted
      BY <1>6 DEF Sleep, SleepInterrupted
<1>7. CASE SendFd
      BY <1>7 DEF SendFd
<1>8. CASE SendFdFails
      BY <1>8 DEF SendFdFails
<1>9. CASE Release
      BY <1>9 DEF Release
<1>10. CASE WaitFor \/ WaitForInterrupted
      BY <1>10 DEF WaitFor, WaitForInterrupted
<1>11. CASE CheckFast
      BY <1>11 DEF CheckFast
<1>12. CASE Caught
      BY <1>12 DEF Caught
<1>13. CASE Finally
      BY <1>13 DEF Finally
<1> QED BY <1>1, <1>2, <1>3, <1>4, <1>5, <1>6, <1>7, <1>8, <1>9, <1>10,
           <1>11, <1>12, <1>13 DEF Guard

\* Every step of a thread in destroy() keeps the invariant.
LEMMA DestroyStep == ASSUME NEW d \in Destroyers PROVE Inv /\ Destroy(d) => Inv'
<1> SUFFICES ASSUME Inv, Destroy(d) PROVE Inv'
    OBVIOUS
<1> USE DEF Inv, TypeOK, OneChild, FieldFollows, StartWaits, NoOrphan,
            ThrowsOnlyChildless, GuardPc, DestroyPc, DestroyMoves, sem, guardFields, children, callback
<1>1. CASE DestroyFlag(d)
      BY <1>1 DEF DestroyFlag
<1>2. CASE DestroyInterrupt(d)
      BY <1>2 DEF DestroyInterrupt
<1>3. CASE DestroyKill(d)
      BY <1>3 DEF DestroyKill
<1>4. CASE DestroyThrows(d)
      BY <1>4 DEF DestroyThrows
<1>5. CASE DestroyJoin(d)
      BY <1>5 DEF DestroyJoin
<1> QED BY <1>1, <1>2, <1>3, <1>4, <1>5 DEF Destroy

\* The exit of a child keeps the invariant.
LEMMA ExitStep == ASSUME NEW p PROVE Inv /\ Exit(p) => Inv'
  BY DEF Inv, TypeOK, OneChild, FieldFollows, StartWaits, NoOrphan,
         ThrowsOnlyChildless, Exit, sem, guardFields, callback

\* The invariant is inductive: the guard, start(), any number of destroy()
\* calls and the children interleave without breaking it.
THEOREM Invariant == GuardSpec => []Inv
<1>1. Inv /\ [GuardNext]_guardVars => Inv'
  <2> SUFFICES ASSUME Inv, [GuardNext]_guardVars PROVE Inv'
      OBVIOUS
  <2>1. CASE UNCHANGED guardVars
        BY <2>1 DEF Inv, TypeOK, OneChild, FieldFollows, StartWaits, NoOrphan,
                    ThrowsOnlyChildless, guardVars, sem, guardFields, children, callback
  <2>2. CASE GuardNext
        BY <2>2, StartStep, GuardStep, DestroyStep, ExitStep DEF GuardNext
  <2> QED BY <2>1, <2>2
<1> QED BY <1>1, InitInv, PTL DEF GuardSpec

\* No child outlives its guard without having been told to stop
\* (GuardedProcess.run and destroy()).
THEOREM GuardLeavesNoOrphan == GuardSpec => []NoOrphan
<1>1. Inv => NoOrphan
      BY DEF Inv
<1> QED BY <1>1, Invariant, PTL

\* destroy() throws only when no child was ever spawned.
THEOREM ThrowMeansNoChild == GuardSpec => []ThrowsOnlyChildless
<1>1. Inv => ThrowsOnlyChildless
      BY DEF Inv
<1> QED BY <1>1, Invariant, PTL

\* After a destroy() that returned or threw, the guard spawns nothing.
THEOREM DestroyIsFinal == GuardSpec => NoSpawnAfterDestroy
<1> DEFINE Over == \E d \in Destroyers : dpc[d] \in {"done", "npe"}
<1>1. Inv /\ Over => gpc = "dead"
      BY DEF Inv, StartWaits, ThrowsOnlyChildless
<1>2. gpc = "dead" /\ [GuardNext]_guardVars => starts' = starts
      BY DEF GuardNext, guardVars, children, GuardMoves, StartGuard, StartReturns, Guard,
             Loop, Spawn, SpawnFails, SetProcess, Callback, Sleep, SleepInterrupted,
             SendFd, SendFdFails, Release, WaitFor, WaitForInterrupted, CheckFast,
             Caught, Finally, Destroy, DestroyFlag, DestroyInterrupt, DestroyKill,
             DestroyThrows, DestroyJoin, Exit
<1>3. Inv /\ [GuardNext]_guardVars => [Over => starts' = starts]_starts
      BY <1>1, <1>2
<1> QED BY <1>3, Invariant, PTL DEF GuardSpec, NoSpawnAfterDestroy

\* A step after which a set within {starts} has lost elements, and nothing else
\* of the abstract state has changed, is the abstract Leave or a stutter.
LEMMA ShrinkMaps ==
  ASSUME Inv,
         alive' \ signalled' \subseteq alive \ signalled,
         starts' = starts, (gpc' = "dead") = (gpc = "dead")
  PROVE  [Managed!Next]_(Managed!vars)
<1>1. CASE alive' \ signalled' = alive \ signalled
      BY <1>1 DEF Managed!vars
<1>2. CASE alive' \ signalled' # alive \ signalled
  <2>1. alive' \ signalled' = {} /\ alive \ signalled # {}
        BY <1>2 DEF Inv, OneChild
  <2>2. Managed!Leave
        BY <2>1 DEF Managed!Leave
  <2> QED BY <2>2 DEF Managed!Next
<1> QED BY <1>1, <1>2

\* Every step of the guarded process is a step of ManagedProcess or a stutter:
\* a spawn is a spawn, an exit or a signal lets the child leave, and the guard's
\* last statement ends the abstract guard.
LEMMA StepMaps == Inv /\ [GuardNext]_guardVars => [Managed!Next]_(Managed!vars)
<1> SUFFICES ASSUME Inv, [GuardNext]_guardVars PROVE [Managed!Next]_(Managed!vars)
    OBVIOUS
<1> USE DEF GuardMoves, DestroyMoves, sem, guardFields, children, callback
<1>1. CASE Spawn
  <2>1. alive = {} /\ alive' = {starts'} /\ starts' = starts + 1
        BY <1>1 DEF Spawn, Inv, OneChild
  <2>2. starts' \notin signalled /\ signalled' = signalled
        BY <1>1, <2>1 DEF Spawn, Inv, TypeOK
  <2>3. Managed!Spawn
        BY <1>1, <2>1, <2>2 DEF Spawn, Managed!Spawn
  <2> QED BY <2>3 DEF Managed!Next
<1>2. CASE Finally
  <2>1. Managed!End
        BY <1>2 DEF Finally, Managed!End, Inv, NoOrphan
  <2> QED BY <2>1 DEF Managed!Next
<1>3. CASE Caught
      BY <1>3, ShrinkMaps DEF Caught
<1>4. ASSUME NEW d \in Destroyers, DestroyKill(d) PROVE [Managed!Next]_(Managed!vars)
      BY <1>4, ShrinkMaps DEF DestroyKill
<1>5. ASSUME NEW p \in 1..MaxSpawns, Exit(p) PROVE [Managed!Next]_(Managed!vars)
      BY <1>5, ShrinkMaps DEF Exit
<1>6. CASE StartGuard \/ StartReturns \/ UNCHANGED guardVars
      BY <1>6, ShrinkMaps DEF StartGuard, StartReturns, guardVars
<1>7. CASE \/ Loop \/ SpawnFails \/ SetProcess \/ Callback \/ Sleep
           \/ SleepInterrupted \/ SendFd \/ SendFdFails \/ Release \/ WaitFor
           \/ WaitForInterrupted \/ CheckFast
      BY <1>7, ShrinkMaps DEF Loop, SpawnFails, SetProcess, Callback, Sleep,
         SleepInterrupted, SendFd, SendFdFails, Release, WaitFor,
         WaitForInterrupted, CheckFast
<1>8. ASSUME NEW d \in Destroyers,
             DestroyFlag(d) \/ DestroyInterrupt(d) \/ DestroyThrows(d) \/ DestroyJoin(d)
      PROVE  [Managed!Next]_(Managed!vars)
      BY <1>8, ShrinkMaps DEF DestroyFlag, DestroyInterrupt, DestroyThrows, DestroyJoin
<1> QED BY <1>1, <1>2, <1>3, <1>4, <1>5, <1>6, <1>7, <1>8 DEF GuardNext, Guard, Destroy

\* The guarded process implements ManagedProcess: one untold child at most, and
\* none once the guard is over.
THEOREM Refinement == GuardSpec => Implements
<1>1. GuardInit => Managed!Init
      BY DEF GuardInit, Managed!Init
<1> QED BY <1>1, StepMaps, Invariant, PTL DEF GuardSpec, Implements, Managed!Spec
=============================================================================
