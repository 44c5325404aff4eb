------------------------------- MODULE MC_App -------------------------------
(***************************************************************************)
(* The service with its client, and the guard of one of the processes that *)
(* the service starts. They share no variable (of a guard VpnService has   *)
(* that start() returns, whether the first spawn failed, and that          *)
(* destroy() throws then and returns otherwise), so what holds of each     *)
(* while the other rests holds of both; one is chosen at the start.        *)
(***************************************************************************)
EXTENDS VpnApp, GuardedProcess

VARIABLE part

MCInit == AppInit /\ GuardInit /\ part \in {"app", "guard"}

MCNext ==
  /\ UNCHANGED part
  /\ \/ part = "app" /\ AppNext /\ UNCHANGED guardVars
     \/ part = "guard" /\ GuardNext /\ UNCHANGED appVars

\* The guard's fairness asks for nothing while it rests.
MCSpec ==
  /\ MCInit /\ [][MCNext]_<<appVars, guardVars, part>>
  /\ part = "app" => AppFairness
  /\ GuardFairness
=============================================================================
