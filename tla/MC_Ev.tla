------------------------------- MODULE MC_Ev -------------------------------
(***************************************************************************)
(* Programs for libev's loop: timers in a heap of three levels, io         *)
(* watchers over two descriptors, signals with children and an async, all  *)
(* kinds of timers with a clock that is set, ev_once() in turns; and a     *)
(* plain file that is stopped and started again.                           *)
(***************************************************************************)
EXTENDS Ev

TimerNames == {"t1", "t2", "t3", "t4", "t5", "t6", "t7", "t8", "t9", "t10"}
MCKind ==
  [w \in TimerNames \union {"ot"} |-> "timer"] @@ [w \in {"r3", "w3", "r4", "oi"} |-> "io"]
  @@ [w \in {"i"} |-> "idle"] @@ [w \in {"d", "e"} |-> "periodic"] @@ [w \in {"c0", "c1"} |-> "child"]
  @@ ("u" :> "signal") @@ ("p" :> "prepare") @@ ("k" :> "check") @@ ("f" :> "fork") @@ ("x" :> "cleanup")
  @@ ("y" :> "cleanup") @@ ("a" :> "async")
MCWatchers == DOMAIN MCKind
MCPriority == [w \in MCWatchers |-> IF w \in {"r3", "p", "oi", "a"} THEN 1 ELSE 0]

\* A heap in which the last is earlier than the children of the root's first child.
MCAfterOf ==
  ("t1" :> 0) @@ ("t2" :> 3) @@ ("t3" :> 0) @@ ("t4" :> 1) @@ ("t5" :> 2) @@ ("t6" :> 3) @@ ("t7" :> 3)
  @@ ("t8" :> 4) @@ ("t9" :> 4) @@ ("t10" :> 1) @@ ("ot" :> 1) @@ ("d" :> 0) @@ ("e" :> 0)
MCRepeat == [w \in TimerNames \union {"ot", "d", "e"} |-> CASE w \in {"t1", "d"} -> 2 [] w \in {"t4", "e"} -> 1 [] OTHER -> 0]
MCOffset == [w \in {"d", "e"} |-> 1]
MCFdOf == ("r3" :> 3) @@ ("w3" :> 3) @@ ("r4" :> 4) @@ ("oi" :> 3)
MCEventsOf == ("r3" :> {"READ"}) @@ ("w3" :> {"WRITE"}) @@ ("r4" :> {"READ"}) @@ ("oi" :> {"READ"})
MCSignalOf == "u" :> "USR"
MCPidOf == ("c0" :> 0) @@ ("c1" :> 1)
MCPartnerOf == ("oi" :> "ot") @@ ("ot" :> "oi")

On(op, ws) == {[op |-> op, w |-> w] : w \in ws}
Bounds(call, jump, async, run, usr) == [call |-> call, jump |-> jump, async |-> async, run |-> run, USR |-> usr, CHLD |-> 0]
Nowhere == [flags |-> "", open |-> <<>>, plain |-> {}, children |-> {}, jumps |-> {}]

Heaps == [time |-> 4, begin |-> <<"t1", "t2", "t3", "t4", "t5", "t6", "t7", "t8", "t9", "t10", "p">>,
          calls |-> On("stop", {"t1", "t3", "t6"}) \union On("again", {"t4", "t9"}),
          bounds |-> Bounds(2, 0, 0, 1, 0)] @@ Nowhere

Files == [time |-> 1, begin |-> <<"r3", "r4">>, open |-> <<3, 4>>, plain |-> {4},
          calls |-> On("start", {"r3", "w3"}) \union On("stop", {"r3", "r4"})
                    \union {[op |-> "fork"]}
                    \union {[op |-> "open", fd |-> 3, plain |-> b] : b \in BOOLEAN}
                    \union {[op |-> "close", fd |-> 3, shared |-> b] : b \in BOOLEAN},
          bounds |-> Bounds(4, 0, 0, 1, 0)] @@ Nowhere

Events == [time |-> 1, begin |-> <<"u", "c1", "c0", "f">>, children |-> {1, 2},
            calls |-> On("stop", {"u"}) \union {[op |-> "fork"]},
            bounds |-> Bounds(1, 0, 0, 1, 1)] @@ Nowhere

Clocks == [time |-> 4, begin |-> <<"t1", "t4", "d", "e", "i">>, jumps |-> {-2, 2},
           calls |-> On("stop", {"i", "e"}) \union On("again", {"d"}) \union {[op |-> "resume"], [op |-> "break"]},
           bounds |-> Bounds(1, 1, 0, 1, 0)] @@ Nowhere

Onces == [time |-> 2, begin |-> <<"x", "y", "i", "k", "a">>, open |-> <<3>>, flags |-> "ONCE",
          calls |-> On("once", {"oi"}) \union On("stop", {"i", "x", "a"}) \union On("feed", {"k"})
                    \union {[op |-> "feed fd", fd |-> 3]},
          bounds |-> Bounds(2, 0, 1, 2, 0)] @@ Nowhere

\* A plain file that is not watched for a while; p gives the program its turns.
Plain == [time |-> 0, begin |-> <<"r3", "p">>, open |-> <<3>>, plain |-> {3},
          calls |-> On("start", {"r3"}) \union On("stop", {"r3"}),
          bounds |-> Bounds(3, 0, 0, 1, 0)] @@ Nowhere

MCPlain == {Plain}

MCPrograms == {Heaps, Files, Events, Clocks, Onces}
=============================================================================
