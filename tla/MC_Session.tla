----------------------------- MODULE MC_Session -----------------------------
(***************************************************************************)
(* Three parts of the application that live beside a session: the traffic  *)
(* counters, those who are told of them, and the threads at the socket     *)
(* files. They share no variable, so what holds of each while the others   *)
(* rest holds of them together; one is chosen at the start.                *)
(***************************************************************************)
EXTENDS TrafficMonitor, TrafficCallbacks, LocalServer

VARIABLE part

Init ==
  /\ MonitorInit /\ CallbackInit /\ SocketInit
  /\ part \in {"counters", "callbacks", "sockets"}
  /\ part # "callbacks" => screen
  /\ part # "sockets" => file = 0

Next ==
  /\ UNCHANGED part
  /\ \/ part = "counters" /\ MonitorNext /\ UNCHANGED <<callbackVars, socketVars>>
     \/ part = "callbacks" /\ CallbackNext /\ UNCHANGED <<monitorVars, socketVars>>
     \/ part = "sockets" /\ SocketNext /\ UNCHANGED <<monitorVars, callbackVars>>

Spec ==
  /\ Init /\ [][Next]_<<monitorVars, callbackVars, socketVars, part>>
  /\ part = "counters" => MonitorFairness
=============================================================================
