--------------------------- MODULE TrafficMonitor ---------------------------
(***************************************************************************)
(* The static counters of TrafficMonitor and the threads that share them   *)
(* without a lock: the pool thread of TrafficMonitorThread, which calls    *)
(* update() with what ss-local reports, the timer thread, which calls      *)
(* updateRate() every second, and the main thread, which calls updateRate()*)
(* for a new callback and reset() when a session starts or ends.           *)
(*                                                                         *)
(* A method is the sequence of its accesses to the shared fields. Received *)
(* bytes are treated as sent ones and share only the dirty flag with them; *)
(* one direction is modelled.                                              *)
(***************************************************************************)
EXTENDS Integers, Sequences

CONSTANTS
  Queriers,     \* threads that call updateRate()
  MaxBytes,     \* bound on what one ss-local counts
  MaxResets,    \* bound on calls of reset()
  MaxRestarts   \* bound on restarts of ss-local

ASSUME BoundAssumption == {MaxBytes, MaxResets, MaxRestarts} \subseteq Nat

VARIABLES
  txTotal, txLast, txRate, dirty,  \* the fields of these names
  prog,      \* the accesses each thread has still to make
  read,      \* the value of txTotal each thread has read
  counted,   \* what ss-local has counted since it was started
  reported,  \* has it reported that?
  resets,    \* calls of reset() so far
  restarts,  \* restarts of ss-local so far
  races      \* the methods that have run beside each other so far, in pairs

fields == <<txTotal, txLast, txRate, dirty>>
sslocal == <<counted, reported, restarts>>
monitorVars == <<fields, prog, read, sslocal, resets, races>>

Threads == Queriers \union {"pool", "main"}

MonitorInit ==
  /\ txTotal = 0 /\ txLast = 0 /\ txRate = 0 /\ dirty = TRUE
  /\ prog = [t \in Threads |-> <<>>]
  /\ read = [t \in Threads |-> 0]
  /\ counted = 0 /\ reported = TRUE
  /\ resets = 0 /\ restarts = 0 /\ races = {}

-----------------------------------------------------------------------------
Idle(t) == prog[t] = <<>>
At(t, op) == ~Idle(t) /\ Head(prog[t]) = op
Goes(t, steps) == prog' = [prog EXCEPT ![t] = steps \o Tail(@)]
Uses(t) == read' = [read EXCEPT ![t] = 0]   \* the value read is not needed again

\* The method a busy thread runs.
Method(t) ==
  CASE t = "pool" -> "update"
    [] t # "pool" /\ Head(prog[t]) \in {"zeroRate", "zeroTotal", "zeroLast", "mark"} -> "reset"
    [] OTHER -> "query"

Calls(t, method, steps) ==
  /\ Idle(t) /\ prog' = [prog EXCEPT ![t] = steps]
  /\ races' = races \union {{method, Method(u)} : u \in {v \in Threads : ~Idle(v)}}

\* updateRate(): a clock that has not moved since the last call ends it at once.
QueryRate(t) ==
  /\ Calls(t, "query", <<"dirty">>)
  /\ UNCHANGED <<fields, read, sslocal, resets>>

TestDirty(t) ==
  /\ At(t, "dirty")
  /\ Goes(t, IF dirty THEN <<"total", "rate", "total", "last", "clean">> ELSE <<"still">>)
  /\ UNCHANGED <<fields, read, sslocal, resets, races>>

ReadTotal(t) ==
  /\ At(t, "total") /\ Goes(t, <<>>)
  /\ read' = [read EXCEPT ![t] = txTotal]
  /\ UNCHANGED <<fields, sslocal, resets, races>>

\* The time since the last call scales the rate and leaves its sign.
SetRate(t) ==
  /\ At(t, "rate") /\ Goes(t, <<>>)
  /\ txRate' = read[t] - txLast /\ Uses(t)
  /\ UNCHANGED <<txTotal, txLast, dirty, sslocal, resets, races>>

SetLast(t) ==
  /\ At(t, "last") /\ Goes(t, <<>>)
  /\ txLast' = read[t] /\ Uses(t)
  /\ UNCHANGED <<txTotal, txRate, dirty, sslocal, resets, races>>

Clean(t) ==
  /\ At(t, "clean") /\ Goes(t, <<>>)
  /\ dirty' = FALSE
  /\ UNCHANGED <<txTotal, txLast, txRate, read, sslocal, resets, races>>

\* Variant: a rate is kept until the next bytes.
StillKeepsRate(t) ==
  /\ At(t, "still") /\ Goes(t, <<>>)
  /\ UNCHANGED <<fields, read, sslocal, resets, races>>

\* No news since the last query.
Still(t) ==
  /\ At(t, "still") /\ Goes(t, <<>>)
  /\ txRate' = 0
  /\ UNCHANGED <<txTotal, txLast, dirty, read, sslocal, resets, races>>

\* update(): ss-local reports what it has counted.
Update ==
  /\ ~reported /\ reported' = TRUE
  /\ \/ /\ txTotal # counted
        /\ Calls("pool", "update", <<"assign", "mark">>)
        /\ read' = [read EXCEPT !["pool"] = counted]
     \/ txTotal = counted /\ Calls("pool", "update", <<>>) /\ UNCHANGED read
  /\ UNCHANGED <<fields, counted, restarts, resets>>

Assign ==
  /\ At("pool", "assign") /\ Goes("pool", <<>>)
  /\ txTotal' = read["pool"] /\ Uses("pool")
  /\ UNCHANGED <<txLast, txRate, dirty, sslocal, resets, races>>

\* Variant: the total is assigned and not marked.
MarkNever(t) ==
  /\ At(t, "mark") /\ Goes(t, <<>>)
  /\ UNCHANGED <<fields, read, sslocal, resets, races>>

Mark(t) ==
  /\ At(t, "mark") /\ Goes(t, <<>>)
  /\ dirty' = TRUE
  /\ UNCHANGED <<txTotal, txLast, txRate, read, sslocal, resets, races>>

\* reset()
Reset ==
  /\ resets < MaxResets /\ resets' = resets + 1
  /\ Calls("main", "reset", <<"zeroRate", "zeroTotal", "zeroLast", "mark">>)
  /\ UNCHANGED <<fields, read, sslocal>>

ZeroStep ==
  /\ \/ At("main", "zeroRate")  /\ txRate' = 0  /\ UNCHANGED <<txTotal, txLast>>
     \/ At("main", "zeroTotal") /\ txTotal' = 0 /\ UNCHANGED <<txRate, txLast>>
     \/ At("main", "zeroLast")  /\ txLast' = 0  /\ UNCHANGED <<txRate, txTotal>>
  /\ Goes("main", <<>>)
  /\ UNCHANGED <<dirty, read, sslocal, resets, races>>

\* ss-local counts on, or is started anew by its guard.
Count ==
  /\ counted < MaxBytes
  /\ counted' = counted + 1 /\ reported' = FALSE
  /\ UNCHANGED <<fields, prog, read, restarts, resets, races>>

Restart ==
  /\ restarts < MaxRestarts /\ restarts' = restarts + 1
  /\ counted' = 0 /\ reported' = FALSE
  /\ UNCHANGED <<fields, prog, read, resets, races>>

Step(t) ==
  \/ TestDirty(t) \/ ReadTotal(t) \/ SetRate(t) \/ SetLast(t) \/ Clean(t)
  \/ Still(t) \/ Mark(t)

MonitorNext ==
  \/ \E t \in Queriers : QueryRate(t)
  \/ \E t \in Threads : Step(t)
  \/ Update \/ Assign \/ Reset \/ ZeroStep \/ Count \/ Restart

MonitorSpec == MonitorInit /\ [][MonitorNext]_monitorVars

\* The timer calls updateRate() every second and methods end.
MonitorFairness ==
  /\ \A t \in Threads : WF_monitorVars(Step(t))
  /\ WF_monitorVars(Assign) /\ WF_monitorVars(ZeroStep)
  /\ \A t \in Queriers : SF_monitorVars(QueryRate(t))

-----------------------------------------------------------------------------
Quiet == \A t \in Threads : Idle(t)

\* As long as no two methods have run at once: between calls, what no query has
\* looked at yet is marked, and no transferred byte is missing from the rates for
\* good (update, updateRate, reset).
NothingMissed == races = {} /\ Quiet /\ ~dirty => txLast = txTotal

\* Once nothing is transferred any more (the model's counts are bounded) the rate
\* goes to 0 and stays there, however the calls interleave.
RateSettles == <>[](txRate = 0)
=============================================================================
