--------------------------- MODULE ManagedProcess ---------------------------
(***************************************************************************)
(* What the service counts on a guarded command for: there is never more   *)
(* than one child that nobody has told to stop, and once the guard is over *)
(* there is none and there never will be one again.                        *)
(***************************************************************************)
EXTENDS Naturals

VARIABLES
  running,  \* children that run and that nobody has told to stop
  born,     \* children spawned so far, numbered from 1
  over      \* is the guard over?

vars == <<running, born, over>>

Init == running = {} /\ born = 0 /\ over = FALSE

\* A new child, only after the one before it.
Spawn ==
  /\ ~over
  /\ running = {}
  /\ born' = born + 1
  /\ running' = {born'}
  /\ UNCHANGED over

\* The child exits or is told to stop.
Leave ==
  /\ running # {}
  /\ running' = {}
  /\ UNCHANGED <<born, over>>

End ==
  /\ ~over
  /\ running = {}
  /\ over' = TRUE
  /\ UNCHANGED <<running, born>>

Next == Spawn \/ Leave \/ End

Spec == Init /\ [][Next]_vars
=============================================================================
