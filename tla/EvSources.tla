------------------------------ MODULE EvSources ------------------------------
(* What wakes libev's loop up, besides files and time. *)

CONSTANTS Signals, Asyncs

ASSUME Disjoint == Signals \intersect Asyncs = {}
=============================================================================
