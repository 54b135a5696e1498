--------------------------- MODULE OrderLifecycle ---------------------------
(***************************************************************************)
(* What the order service promises: an order lives one life, from CREATED  *)
(* along canTransition, and a box is either in stock or held by one order  *)
(* that is not cancelled.  Every operation is a single step.               *)
(***************************************************************************)
EXTENDS OrderStatus, Integers, FiniteSets

CONSTANTS Orders, Offers, Total, NoOffer

VARIABLES
  status,  \* of an order; "NONE" before it is placed
  boxOf,   \* the offer an order took its box from
  stock    \* boxes for sale

lvars == <<status, boxOf, stock>>

Init ==
  /\ status = [o \in Orders |-> "NONE"]
  /\ boxOf = [o \in Orders |-> NoOffer]
  /\ stock = Total

\* CreateOrder
Reserve(o, f) ==
  /\ status[o] = "NONE"
  /\ stock[f] > 0
  /\ status' = [status EXCEPT ![o] = "CREATED"]
  /\ boxOf' = [boxOf EXCEPT ![o] = f]
  /\ stock' = [stock EXCEPT ![f] = @ - 1]

\* PayOrder, CompleteOrder
Advance(o, to) ==
  /\ status[o] # "NONE"
  /\ to # "CANCELLED"
  /\ CanTransition(status[o], to)
  /\ status' = [status EXCEPT ![o] = to]
  /\ UNCHANGED <<boxOf, stock>>

\* CancelOrder, cancelExpiredOrders
Cancel(o) ==
  /\ status[o] # "NONE"
  /\ CanTransition(status[o], "CANCELLED")
  /\ status' = [status EXCEPT ![o] = "CANCELLED"]
  /\ stock' = [stock EXCEPT ![boxOf[o]] = @ + 1]
  /\ UNCHANGED boxOf

Next ==
  \/ \E o \in Orders, f \in Offers : Reserve(o, f)
  \/ \E o \in Orders, to \in Status : Advance(o, to)
  \/ \E o \in Orders : Cancel(o)

Spec == Init /\ [][Next]_lvars

-----------------------------------------------------------------------------

\* The orders that hold a box of offer f.
Holders(f) == {o \in Orders : boxOf[o] = f /\ status[o] \in Live}

\* Boxes are neither lost nor made: those for sale and those held by orders that
\* are not cancelled add up to quantity_total (CreateOrder, CancelOrder and
\* cancelExpiredOrders change the stock and the status together).
BoxesConserved ==
  \A f \in Offers : stock[f] >= 0 /\ stock[f] + Cardinality(Holders(f)) = Total[f]
=============================================================================
