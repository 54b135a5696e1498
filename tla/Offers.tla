------------------------------- MODULE Offers -------------------------------
(***************************************************************************)
(* The offer service (internal/offers) against the sales of the order      *)
(* service.  UpdateOffer and DeleteOffer read the offer, check it and      *)
(* write it later; a sale or a cancellation holds the row's lock from its  *)
(* read to its commit (module Orders) and is a single step here.  Requests *)
(* of partners who are not approved or do not own the offer end in their   *)
(* checks and change nothing.                                              *)
(***************************************************************************)
EXTENDS Shelf

CONSTANTS
  Editors,    \* goroutines serving partners' requests
  NoEdit,     \* an editor without a pending write
  MaxOrders,  \* bound: orders placed for one offer
  MaxStock    \* bound: boxes of one offer that cancellations may return to

VARIABLE edit  \* the row an editor has read and the patch it will save, or the id it will delete

ovars == <<shelf, published, placed, edit>>

Init == ShelfInit /\ edit = [e \in Editors |-> NoEdit]

\* One INSERT.
CreateOffer(e, f, n) ==
  /\ edit[e] = NoEdit
  /\ Publish(f, n)
  /\ UNCHANGED edit

\* Mutant: the quantities are compared before the patch is applied.
UpdateOfferUnchecked(e, f, patch) ==
  /\ edit[e] = NoEdit
  /\ shelf[f] # NoRow
  /\ Fits(shelf[f])
  /\ edit' = [edit EXCEPT ![e] = [op |-> "save", id |-> f, patch |-> patch,
                                  read |-> shelf[f]]]
  /\ UNCHANGED svars

\* GetByID, the patch applied to the struct, and the check of its quantities.
UpdateOffer(e, f, patch) ==
  /\ edit[e] = NoEdit
  /\ shelf[f] # NoRow
  /\ Fits(Patched(shelf[f], patch))
  /\ edit' = [edit EXCEPT ![e] = [op |-> "save", id |-> f, patch |-> patch,
                                  read |-> shelf[f]]]
  /\ UNCHANGED svars

\* db.Save: UPDATE of every column, and an INSERT if there was no row to update.
Save(e) ==
  /\ edit[e] # NoEdit
  /\ edit[e].op = "save"
  /\ shelf' = [shelf EXCEPT ![edit[e].id] = Patched(edit[e].read, edit[e].patch)]
  /\ edit' = [edit EXCEPT ![e] = NoEdit]
  /\ UNCHANGED <<published, placed>>

\* GetByID and the check of its owner.
DeleteOffer(e, f) ==
  /\ edit[e] = NoEdit
  /\ shelf[f] # NoRow
  /\ edit' = [edit EXCEPT ![e] = [op |-> "delete", id |-> f]]
  /\ UNCHANGED svars

\* Mutant: the reference of orders to their offer is not enforced.
DeleteAnyway(e) ==
  /\ edit[e] # NoEdit
  /\ edit[e].op = "delete"
  /\ shelf' = [shelf EXCEPT ![edit[e].id] = NoRow]
  /\ edit' = [edit EXCEPT ![e] = NoEdit]
  /\ UNCHANGED <<published, placed>>

\* DELETE FROM offers WHERE id: an error if an order refers to the offer, a success
\* if there is no such row any more.
Delete(e) ==
  /\ edit[e] # NoEdit
  /\ edit[e].op = "delete"
  /\ shelf' = IF placed[edit[e].id] = 0
              THEN [shelf EXCEPT ![edit[e].id] = NoRow] ELSE shelf
  /\ edit' = [edit EXCEPT ![e] = NoEdit]
  /\ UNCHANGED <<published, placed>>

\* The request is cancelled or its statement fails.
Fail(e) ==
  /\ edit[e] # NoEdit
  /\ edit' = [edit EXCEPT ![e] = NoEdit]
  /\ UNCHANGED svars

\* The order service's transactions on the offer.
CreateOrder(f) == placed[f] < MaxOrders /\ Sell(f) /\ UNCHANGED edit

CancelOrder(f) == placed[f] > 0 /\ shelf[f].avail < MaxStock /\ PutBack(f) /\ UNCHANGED edit

Next ==
  \/ \E e \in Editors, f \in Offers :
       \/ \E n \in Quantities : CreateOffer(e, f, n)
       \/ \E patch \in Patch : UpdateOffer(e, f, patch)
       \/ DeleteOffer(e, f)
  \/ \E e \in Editors : Save(e) \/ Delete(e) \/ Fail(e)
  \/ \E f \in Offers : CreateOrder(f) \/ CancelOrder(f)

Spec == Init /\ [][Next]_ovars

-----------------------------------------------------------------------------

\* What an editor will save is a row that fits; every variable has its type.
TypeOK ==
  /\ shelf \in [Offers -> OfferRow \cup {NoRow}]
  /\ {f \in Offers : shelf[f] # NoRow} \subseteq published
  /\ published \subseteq Offers
  /\ placed \in [Offers -> Nat]
  /\ DOMAIN edit = Editors
  /\ \A e \in Editors : edit[e] # NoEdit =>
       /\ edit[e].id \in published
       /\ edit[e].op = "save" => /\ edit[e].patch \in Patch
                                 /\ edit[e].read \in OfferRow
                                 /\ Fits(Patched(edit[e].read, edit[e].patch))

\* Every variable has its type, and stale as the struct may be that a partner's edit
\* saves, it never makes the stock negative, nor can the sales that follow
\* (service.go:146, TestUpdateOffer_QuantityLogic).
StockNonNegative == TypeOK /\ \A f \in Offers : shelf[f] # NoRow => shelf[f].avail >= 0

\* An order never loses its offer: a deletion that was checked before the first sale
\* fails after it.
OrdersKeepOffer == \A f \in Offers : placed[f] > 0 => shelf[f] # NoRow

\* The offer service implements the shelf, but for one cause: whatever an edit does that
\* is not a step on the current row, it does because the offer was sold, returned, edited
\* or deleted between its read and its write (service.go:114-170).
ShelfUnlessStale ==
  [][ShelfNext \/ \E e \in Editors : Save(e) /\ shelf[edit[e].id] # edit[e].read]_svars

(* What the documentation says of the program                              *)

\* openapi.yaml:2858: quantityAvailable is what is left.  An edit that does not name a
\* column leaves it as it is.
EditsOnlyNamed ==
  [][\A e \in Editors :
       Save(e) /\ shelf[edit[e].id] # NoRow =>
         \A c \in DOMAIN edit[e].read :
           edit[e].patch[c] = Keep => shelf'[edit[e].id][c] = shelf[edit[e].id][c]]_ovars
=============================================================================
