---- MODULE MCWhitePages ----
(* Every search of the three protocols, against a table with a user whose row is arbitrary and a crowd. *)
EXTENDS WhitePages

\* bound: none of the handlers is left out
ASSUME EveryHandler == Searches = DOMAIN Handlers
CrowdSymmetry == Permutations(Crowd)
====
