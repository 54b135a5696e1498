------------------------------ MODULE MCCodes ------------------------------
(* Small instances of Codes for TLC. *)
EXTENDS Codes, TLC

Symmetric == Permutations(Users) \cup Permutations(Addresses) \cup Permutations(Handlers)
=============================================================================
