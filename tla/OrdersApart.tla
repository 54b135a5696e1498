---------------------------- MODULE OrdersApart ----------------------------
(***************************************************************************)
(* The order service when no two goroutines work on one order at a time,   *)
(* whatever they do to the stock of one offer.  Then, and it takes no more *)
(* than that, it implements OrderLifecycle.                                *)
(***************************************************************************)
EXTENDS Orders

\* The orders of which a goroutine holds an unsaved copy.
Holds(a) ==
  (IF pc[a] \in {"save", "restock", "commit"} THEN {job[a].id} ELSE {})
  \cup (IF a = Worker THEN {b.id : b \in batch} ELSE {})

Apart == \A a, b \in Actors : a # b => Holds(a) \cap Holds(b) = {}

ApartSpec == Init /\ [][Next /\ Apart']_vars

-----------------------------------------------------------------------------
(* What then holds of the copies in memory, on top of what holds anyway     *)

\* A struct about to be saved is one step beyond the row that is there.
SavesNext ==
  \A a \in Actors : pc[a] \in {"save", "restock", "commit"} =>
    LET j == job[a]
    IN  /\ CanTransition(orders[j.id].status, j.row.status)
        /\ j.row = Advanced(orders[j.id], j.row.status)

\* The worker's slice holds the rows that are there, and not the order it is
\* expiring any more.
BatchCurrent ==
  \A b \in batch :
    /\ b.row = orders[b.id]
    /\ pc[Worker] \in {"save", "restock", "commit"} => b.id # job[Worker].id

-----------------------------------------------------------------------------
(* The refinement mapping: what is committed                               *)

Statuses == [o \in Orders |-> StatusOf(o)]
BoxOf    == [o \in Orders |-> IF Exists(o) THEN orders[o].offer ELSE NoRow]
Stock    == [f \in Offers |-> offers[f].avail]

Lifecycle == INSTANCE OrderLifecycle WITH
  NoOffer <- NoRow, status <- Statuses, boxOf <- BoxOf, stock <- Stock

\* Request by request the service is the life cycle README.md draws: every commit
\* is one transition canTransition allows from the row it replaces, and the stock
\* moves with it.
ImplementsLifecycle == Lifecycle!Spec

\* No box is lost or made: the boxes for sale and those of orders that are not
\* cancelled add up to quantity_total.
BoxesConserved == Lifecycle!BoxesConserved
=============================================================================
