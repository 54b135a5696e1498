------------------------------- MODULE Shelf -------------------------------
(***************************************************************************)
(* Table offers as partners and customers should see it: every operation   *)
(* is one step on the current row.  Orders changes offers only by Sell and *)
(* PutBack; the offer service adds the other steps.                        *)
(***************************************************************************)
EXTENDS Integers

CONSTANTS
  Offers,      \* the ids of offers
  Quantities,  \* the numbers a partner may send as a quantity
  NoRow,       \* an offer id without a row
  Keep         \* a field that a PATCH does not name

ASSUME ShelfAssumption == Quantities \subseteq Int /\ Keep \notin Int \cup BOOLEAN

VARIABLES
  shelf,      \* rows: quantity_available, quantity_total, is_active
  published,  \* ids that were given to offers
  placed      \* rows of table orders that refer to an offer

svars == <<shelf, published, placed>>

ShelfInit ==
  /\ shelf = [f \in Offers |-> NoRow]
  /\ published = {}
  /\ placed = [f \in Offers |-> 0]

OfferRow == [avail : Int, total : Int, active : BOOLEAN]

ASSUME NoRowAssumption == NoRow \notin OfferRow

\* What a PATCH may ask for.
Patch == [avail  : Quantities \cup {Keep},
          total  : Quantities \cup {Keep},
          active : BOOLEAN \cup {Keep}]

\* The columns that a patch names come from it, the others from the row.
Patched(row, patch) ==
  [c \in DOMAIN row |-> IF patch[c] = Keep THEN row[c] ELSE patch[c]]

\* Mutant: only the upper bound.
FitsTotal(row) == row.avail <= row.total

\* quantity_available is between 0 and quantity_total.
Fits(row) == row.avail \in 0 .. row.total

\* A new offer is for sale with all its boxes.
Publish(f, n) ==
  /\ f \notin published
  /\ n > 0
  /\ shelf' = [shelf EXCEPT ![f] = [avail |-> n, total |-> n, active |-> TRUE]]
  /\ published' = published \cup {f}
  /\ UNCHANGED placed

Edit(f, patch) ==
  /\ shelf[f] # NoRow
  /\ Fits(Patched(shelf[f], patch))
  /\ shelf' = [shelf EXCEPT ![f] = Patched(@, patch)]
  /\ UNCHANGED <<published, placed>>

\* orders.offer_id REFERENCES offers: an offer with orders stays.
Withdraw(f) ==
  /\ shelf[f] # NoRow
  /\ placed[f] = 0
  /\ shelf' = [shelf EXCEPT ![f] = NoRow]
  /\ UNCHANGED <<published, placed>>

\* An order takes a box of an offer that is for sale; the last box ends the sale.
Sell(f) ==
  /\ shelf[f] # NoRow
  /\ shelf[f].active
  /\ shelf[f].avail > 0
  /\ shelf' = [shelf EXCEPT ![f] =
                [avail |-> @.avail - 1, total |-> @.total, active |-> @.avail # 1]]
  /\ placed' = [placed EXCEPT ![f] = @ + 1]
  /\ UNCHANGED published

\* A cancellation puts a box back; whether the offer is for sale stays as it is.
PutBack(f) ==
  /\ placed[f] > 0
  /\ shelf' = [shelf EXCEPT ![f].avail = @ + 1]
  /\ UNCHANGED <<published, placed>>

Sales == \E f \in Offers : Sell(f) \/ PutBack(f)

ShelfNext ==
  \/ Sales
  \/ \E f \in Offers : \/ \E n \in Quantities : Publish(f, n)
                       \/ \E patch \in Patch : Edit(f, patch)
                       \/ Withdraw(f)

ShelfSpec == ShelfInit /\ [][ShelfNext]_svars
=============================================================================
