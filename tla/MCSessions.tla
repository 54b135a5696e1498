----------------------------- MODULE MCSessions -----------------------------
(* A small instance of Sessions for TLC. *)
EXTENDS Sessions, TLC

Symmetric == Permutations(Jtis) \cup Permutations(Handlers)
=============================================================================
