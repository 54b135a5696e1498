---------------------------- MODULE OrdersShelf ----------------------------
(* What the order service does to table offers, seen from the offer service. *)
EXTENDS Orders

ASSUME OrdersShelfAssumption ==
  NoRow \notin Int \cup BOOLEAN \cup [avail : Int, total : Int, active : BOOLEAN]

OffersShelf == INSTANCE Shelf WITH
  Quantities <- {},
  Keep       <- NoRow,
  shelf      <- [f \in Offers |-> [avail  |-> offers[f].avail,
                                   total  |-> Total[f],
                                   active |-> offers[f].active]],
  published  <- Offers,
  placed     <- [f \in Offers |-> Cardinality(OrdersOf(f))]

\* Every transaction of the order service, whatever it overlaps with, is for an offer
\* the sale of one box that is for sale, a box put back, or nothing: the last box is
\* taken and the sale ended in one step, and no half-done transaction is seen.
OffersOnlySold == [][OffersShelf!Sales]_OffersShelf!svars
=============================================================================
