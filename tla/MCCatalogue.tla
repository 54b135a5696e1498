----------------------------- MODULE MCCatalogue -----------------------------
(* A small instance of Catalogue for TLC. *)
EXTENDS Catalogue, TLC

Symmetric == Permutations(Offers) \cup Permutations(Restaurants) \cup Permutations(Categories)
             \cup Permutations(Names)
=============================================================================
