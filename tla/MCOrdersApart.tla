--------------------------- MODULE MCOrdersApart ---------------------------
EXTENDS OrdersApart, TLC

CONSTANTS f1, r1

SymOrders == Permutations(Handlers) \cup Permutations(Orders)

OneRestaurant == [f \in Offers |-> r1]
TwoBoxes == [f \in Offers |-> 2]
=============================================================================
