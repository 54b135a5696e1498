---------------------------- MODULE MCOnboarding ----------------------------
(* A small instance of Onboarding for TLC. *)
EXTENDS Onboarding, TLC

Symmetric == Permutations(Partners) \cup Permutations(Handlers)
=============================================================================
