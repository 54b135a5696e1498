------------------------------ MODULE MCOffers ------------------------------
(* Small instances of Offers for TLC. *)
EXTENDS Offers, TLC

SymEditors == Permutations(Editors)

AskedQuantities == {-1, 1, 2}
=============================================================================
