------------------------------ MODULE MCOrders ------------------------------
(* Small instances of Orders for TLC. *)
EXTENDS OrdersInvariant, OrdersShelf, TLC

CONSTANTS f1, r1

SymOrders == Permutations(Handlers) \cup Permutations(Orders)

OneRestaurant == [f \in Offers |-> r1]
OneBox == [f \in Offers |-> 1]
TwoBoxes == [f \in Offers |-> 2]
=============================================================================
