----------------------------- MODULE MCAnalytics -----------------------------
(* A small instance of Analytics for TLC: a Sunday, the Monday on which *)
(* a month begins, and the day after. *)
EXTENDS Analytics, TLC

Symmetric == Permutations(Orders) \cup Permutations(Categories) \cup Permutations(Names)
=============================================================================
