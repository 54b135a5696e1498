---------------------------- MODULE OffersProofs ----------------------------
(***************************************************************************)
(* Theorems about Offers, for any sets of offers, editors and quantities   *)
(* and any bounds on orders and stock.                                     *)
(***************************************************************************)
EXTENDS Offers, TLAPS

\* Both safety invariants; together they are inductive.
OInv == StockNonNegative /\ OrdersKeepOffer

\* A row of the table is not the absence of one.
LEMMA RowIsThere == \A row \in OfferRow : row # NoRow
  BY NoRowAssumption

\* A patch of a row is a row.
LEMMA PatchedIsRow ==
  ASSUME NEW row \in OfferRow, NEW patch \in Patch
  PROVE  Patched(row, patch) \in OfferRow
<1>1. /\ row.avail \in Int /\ row.total \in Int /\ row.active \in BOOLEAN
      /\ row = [avail |-> row.avail, total |-> row.total, active |-> row.active]
  BY DEF OfferRow
<1>2. /\ patch.avail = Keep \/ patch.avail \in Int
      /\ patch.total = Keep \/ patch.total \in Int
      /\ patch.active = Keep \/ patch.active \in BOOLEAN
  BY ShelfAssumption DEF Patch
<1>3. DOMAIN row = {"avail", "total", "active"}
  BY DEF OfferRow
<1>4. Patched(row, patch) =
        [avail  |-> IF patch.avail = Keep THEN row.avail ELSE patch.avail,
         total  |-> IF patch.total = Keep THEN row.total ELSE patch.total,
         active |-> IF patch.active = Keep THEN row.active ELSE patch.active]
  BY <1>3 DEF Patched
<1>. QED
  BY <1>1, <1>2, <1>4 DEF OfferRow

\* What an editor may save fits: a row with a stock that is not negative.
LEMMA SavedRow ==
  ASSUME TypeOK, NEW e \in Editors, edit[e] # NoEdit, edit[e].op = "save"
  PROVE  /\ edit[e].id \in Offers
         /\ Patched(edit[e].read, edit[e].patch) \in OfferRow
         /\ Patched(edit[e].read, edit[e].patch).avail >= 0
<1>1. Patched(edit[e].read, edit[e].patch) \in OfferRow
  BY PatchedIsRow DEF TypeOK
<1>2. Patched(edit[e].read, edit[e].patch).total \in Int
  BY <1>1 DEF OfferRow
<1>3. Fits(Patched(edit[e].read, edit[e].patch))
  BY DEF TypeOK
<1>. QED
  BY <1>1, <1>2, <1>3 DEF TypeOK, Fits

LEMMA InitHolds == Init => OInv
  BY DEF Init, ShelfInit, OInv, StockNonNegative, OrdersKeepOffer, TypeOK

\* Only f's row changes, to one with a stock that is not negative: what OInv says of
\* rows is kept.
LEMMA RowsKept ==
  ASSUME OInv, NEW f \in Offers, NEW row \in OfferRow, row.avail >= 0,
         shelf' = [shelf EXCEPT ![f] = row]
  PROVE  /\ shelf' \in [Offers -> OfferRow \cup {NoRow}]
         /\ \A g \in Offers : shelf'[g] # NoRow => shelf'[g].avail >= 0
         /\ \A g \in Offers : shelf[g] # NoRow => shelf'[g] # NoRow
         /\ shelf'[f] # NoRow
<1>1. shelf \in [Offers -> OfferRow \cup {NoRow}]
  BY DEF OInv, StockNonNegative, TypeOK
<1>. QED
  BY <1>1, RowIsThere DEF OInv, StockNonNegative

\* A read remembers a row that fits, or an id: the tables are as they were.
LEMMA ReadKeeps ==
  ASSUME OInv, NEW e \in Editors, NEW f \in Offers
  PROVE  /\ \A patch \in Patch : UpdateOffer(e, f, patch) => OInv'
         /\ DeleteOffer(e, f) => OInv'
<1>1. TypeOK
  BY DEF OInv, StockNonNegative
<1>2. ASSUME UNCHANGED svars, TypeOK'
      PROVE  OInv'
  BY <1>2 DEF svars, OInv, StockNonNegative, OrdersKeepOffer
<1>3. shelf[f] # NoRow => shelf[f] \in OfferRow
  BY <1>1 DEF TypeOK
<1>4. ASSUME NEW patch \in Patch, UpdateOffer(e, f, patch)
      PROVE  TypeOK'
  BY <1>1, <1>3, <1>4 DEF TypeOK, UpdateOffer, svars
<1>5. ASSUME DeleteOffer(e, f)
      PROVE  TypeOK'
  BY <1>1, <1>5 DEF TypeOK, DeleteOffer, svars
<1>. QED
  BY <1>2, <1>4, <1>5 DEF UpdateOffer, DeleteOffer

\* What happens to editors while OInv is kept: an edit ends, the others go on.
LEMMA EditEnds ==
  ASSUME TypeOK, NEW e \in Editors, published' = published,
         edit' = [edit EXCEPT ![e] = NoEdit]
  PROVE  /\ DOMAIN edit' = Editors
         /\ \A d \in Editors : edit'[d] # NoEdit => edit'[d] = edit[d]
  BY DEF TypeOK

LEMMA SaveKeeps ==
  ASSUME OInv, NEW e \in Editors, Save(e)
  PROVE  OInv'
<1>. DEFINE row == Patched(edit[e].read, edit[e].patch)
            f == edit[e].id
<1>1. TypeOK /\ f \in Offers /\ row \in OfferRow /\ row.avail >= 0
  BY SavedRow DEF Save, OInv, StockNonNegative
<1>2. shelf' = [shelf EXCEPT ![f] = row] /\ UNCHANGED <<published, placed>>
  BY DEF Save
<1>. HIDE DEF row, f
<1>3. /\ shelf' \in [Offers -> OfferRow \cup {NoRow}]
      /\ \A g \in Offers : shelf'[g] # NoRow => shelf'[g].avail >= 0
      /\ \A g \in Offers : shelf[g] # NoRow => shelf'[g] # NoRow
  BY <1>1, <1>2, RowsKept
<1>4. {g \in Offers : shelf'[g] # NoRow} \subseteq published
  <2>1. f \in published
    BY <1>1 DEF f, TypeOK, Save
  <2>2. \A g \in Offers : g # f => shelf'[g] = shelf[g]
    BY <1>1, <1>2 DEF TypeOK
  <2>. QED
    BY <1>1, <2>1, <2>2 DEF TypeOK
<1>5. /\ DOMAIN edit' = Editors
      /\ \A d \in Editors : edit'[d] # NoEdit => edit'[d] = edit[d]
  BY <1>1, <1>2, EditEnds DEF Save
<1>6. TypeOK'
  BY <1>1, <1>2, <1>3, <1>4, <1>5 DEF TypeOK
<1>. QED
  BY <1>2, <1>3, <1>6 DEF OInv, StockNonNegative, OrdersKeepOffer

LEMMA DeleteKeeps ==
  ASSUME OInv, NEW e \in Editors, Delete(e)
  PROVE  OInv'
<1>. DEFINE f == edit[e].id
<1>1. TypeOK /\ f \in Offers
  BY DEF Delete, OInv, StockNonNegative, TypeOK
<1>2. /\ UNCHANGED <<published, placed>>
      /\ \/ placed[f] = 0 /\ shelf' = [shelf EXCEPT ![f] = NoRow]
         \/ shelf' = shelf
  BY DEF Delete
<1>3. /\ shelf' \in [Offers -> OfferRow \cup {NoRow}]
      /\ \A g \in Offers : shelf'[g] = shelf[g] \/ (shelf'[g] = NoRow /\ placed[g] = 0)
  <2>. HIDE DEF f
  <2>1. shelf \in [Offers -> OfferRow \cup {NoRow}]
    BY <1>1 DEF TypeOK
  <2>. QED
    BY <1>1, <1>2, <2>1
<1>4. /\ DOMAIN edit' = Editors
      /\ \A d \in Editors : edit'[d] # NoEdit => edit'[d] = edit[d]
  BY <1>1, <1>2, EditEnds DEF Delete
<1>5. TypeOK'
  BY <1>1, <1>2, <1>3, <1>4 DEF TypeOK
<1>6. ASSUME NEW g \in Offers, placed'[g] > 0
      PROVE  shelf'[g] # NoRow
  BY <1>1, <1>2, <1>3, <1>6 DEF OInv, OrdersKeepOffer, TypeOK
<1>. QED
  BY <1>1, <1>3, <1>5, <1>6 DEF OInv, StockNonNegative, OrdersKeepOffer

LEMMA FailKeeps ==
  ASSUME OInv, NEW e \in Editors, Fail(e)
  PROVE  OInv'
<1>1. TypeOK /\ UNCHANGED svars
  BY DEF OInv, StockNonNegative, Fail
<1>2. /\ DOMAIN edit' = Editors
      /\ \A d \in Editors : edit'[d] # NoEdit => edit'[d] = edit[d]
  BY <1>1, EditEnds DEF Fail, svars
<1>3. TypeOK'
  BY <1>1, <1>2 DEF TypeOK, svars
<1>. QED
  BY <1>1, <1>3 DEF OInv, StockNonNegative, OrdersKeepOffer, svars

\* An offer is published under an id that no offer has had.
LEMMA CreateOfferKeeps ==
  ASSUME OInv, NEW e \in Editors, NEW f \in Offers, NEW n \in Quantities,
         CreateOffer(e, f, n)
  PROVE  OInv'
<1>. DEFINE row == [avail |-> n, total |-> n, active |-> TRUE]
<1>1. TypeOK
  BY DEF OInv, StockNonNegative
<1>2. row \in OfferRow /\ row.avail >= 0
  BY ShelfAssumption DEF CreateOffer, Publish, OfferRow
<1>3. /\ shelf' = [shelf EXCEPT ![f] = row]
      /\ published' = published \cup {f}
      /\ UNCHANGED <<placed, edit>>
  BY DEF CreateOffer, Publish
<1>. HIDE DEF row
<1>4. /\ shelf' \in [Offers -> OfferRow \cup {NoRow}]
      /\ \A g \in Offers : shelf'[g] # NoRow => shelf'[g].avail >= 0
      /\ \A g \in Offers : shelf[g] # NoRow => shelf'[g] # NoRow
  BY <1>2, <1>3, RowsKept
<1>5. \A g \in Offers : g # f => shelf'[g] = shelf[g]
  BY <1>1, <1>3 DEF TypeOK
<1>6. TypeOK'
  BY <1>1, <1>3, <1>4, <1>5 DEF TypeOK
<1>. QED
  BY <1>3, <1>4, <1>6 DEF OInv, StockNonNegative, OrdersKeepOffer

\* Sales and cancellations change one row, which was there before.
LEMMA SalesKeep ==
  ASSUME OInv, NEW f \in Offers, CreateOrder(f) \/ CancelOrder(f)
  PROVE  OInv'
<1>1. TypeOK
  BY DEF OInv, StockNonNegative
<1>2. shelf[f] \in OfferRow /\ shelf[f].avail >= 0
  BY <1>1 DEF CreateOrder, CancelOrder, Sell, PutBack, TypeOK, OInv, StockNonNegative,
              OrdersKeepOffer
<1>3. /\ placed' \in [Offers -> Nat]
      /\ \A g \in Offers : g # f => placed'[g] = placed[g]
      /\ UNCHANGED <<published, edit>>
  BY <1>1 DEF CreateOrder, CancelOrder, Sell, PutBack, TypeOK
<1>4. PICK row \in OfferRow : row.avail >= 0 /\ shelf' = [shelf EXCEPT ![f] = row]
  <2>1. CASE CreateOrder(f)
    <3>. DEFINE row == [avail |-> shelf[f].avail - 1, total |-> shelf[f].total,
                        active |-> shelf[f].avail # 1]
    <3>1. row \in OfferRow /\ row.avail >= 0
      BY <1>2, <2>1 DEF OfferRow, CreateOrder, Sell
    <3>2. shelf' = [shelf EXCEPT ![f] = row]
      BY <2>1 DEF CreateOrder, Sell
    <3>. QED
      BY <3>1, <3>2
  <2>2. CASE CancelOrder(f)
    <3>. DEFINE row == [shelf[f] EXCEPT !.avail = @ + 1]
    <3>1. row \in OfferRow /\ row.avail >= 0
      BY <1>2 DEF OfferRow
    <3>2. shelf' = [shelf EXCEPT ![f] = row]
      BY <2>2 DEF CancelOrder, PutBack
    <3>. QED
      BY <3>1, <3>2
  <2>. QED
    BY <2>1, <2>2
<1>5. /\ shelf' \in [Offers -> OfferRow \cup {NoRow}]
      /\ \A g \in Offers : shelf'[g] # NoRow => shelf'[g].avail >= 0
      /\ \A g \in Offers : shelf[g] # NoRow => shelf'[g] # NoRow
      /\ shelf'[f] # NoRow
  BY <1>4, RowsKept
<1>6. \A g \in Offers : g # f => shelf'[g] = shelf[g]
  BY <1>1, <1>4 DEF TypeOK
<1>7. f \in published
  BY <1>1, <1>2, RowIsThere DEF TypeOK
<1>8. TypeOK'
  BY <1>1, <1>3, <1>5, <1>6, <1>7 DEF TypeOK
<1>. QED
  BY <1>3, <1>5, <1>6, <1>8 DEF OInv, StockNonNegative, OrdersKeepOffer

LEMMA NextKeeps == OInv /\ [Next]_ovars => OInv'
<1>. SUFFICES ASSUME OInv, [Next]_ovars
              PROVE  OInv'
  OBVIOUS
<1>1. CASE UNCHANGED ovars
  BY <1>1 DEF ovars, OInv, StockNonNegative, OrdersKeepOffer, TypeOK
<1>2. ASSUME NEW e \in Editors, NEW f \in Offers, NEW n \in Quantities,
             CreateOffer(e, f, n)
      PROVE  OInv'
  BY <1>2, CreateOfferKeeps
<1>3. ASSUME NEW e \in Editors, NEW f \in Offers, NEW patch \in Patch,
             UpdateOffer(e, f, patch)
      PROVE  OInv'
  BY <1>3, ReadKeeps
<1>4. ASSUME NEW e \in Editors, NEW f \in Offers, DeleteOffer(e, f)
      PROVE  OInv'
  BY <1>4, ReadKeeps
<1>5. ASSUME NEW e \in Editors, Save(e) \/ Delete(e) \/ Fail(e)
      PROVE  OInv'
  BY <1>5, SaveKeeps, DeleteKeeps, FailKeeps
<1>6. ASSUME NEW f \in Offers, CreateOrder(f) \/ CancelOrder(f)
      PROVE  OInv'
  BY <1>6, SalesKeep
<1>. QED
  BY <1>1, <1>2, <1>3, <1>4, <1>5, <1>6 DEF Next

LEMMA OffersInvariance == Spec => []OInv
  BY InitHolds, NextKeeps, PTL DEF Spec

\* No stale edit, and no sale that follows one, makes a stock negative, and every
\* variable keeps its type (UpdateOffer's check of its own struct, service.go:146).
THEOREM OffersNeverOversold == Spec => []StockNonNegative
<1>1. OInv => StockNonNegative
  BY DEF OInv
<1>. QED
  BY <1>1, OffersInvariance, PTL

\* An offer with orders stays, though DeleteOffer looks at it a step before its DELETE.
THEOREM OrdersNeverOrphaned == Spec => []OrdersKeepOffer
<1>1. OInv => OrdersKeepOffer
  BY DEF OInv
<1>. QED
  BY <1>1, OffersInvariance, PTL

-----------------------------------------------------------------------------

\* An edit of a row that is as it was read is a step of the shelf.
LEMMA SaveIsEdit ==
  ASSUME TypeOK, NEW e \in Editors, Save(e), shelf[edit[e].id] = edit[e].read
  PROVE  ShelfNext
<1>. DEFINE f == edit[e].id
            patch == edit[e].patch
<1>1. /\ f \in Offers /\ patch \in Patch /\ shelf[f] \in OfferRow
      /\ Fits(Patched(shelf[f], patch))
  BY DEF Save, TypeOK
<1>2. shelf[f] # NoRow
  BY <1>1, RowIsThere
<1>3. shelf' = [shelf EXCEPT ![f] = Patched(@, patch)] /\ UNCHANGED <<published, placed>>
  BY DEF Save
<1>. QED
  BY <1>1, <1>2, <1>3 DEF ShelfNext, Edit

LEMMA DeleteIsWithdraw ==
  ASSUME TypeOK, NEW e \in Editors, Delete(e)
  PROVE  ShelfNext \/ UNCHANGED svars
<1>. DEFINE f == edit[e].id
<1>1. f \in Offers
  BY DEF Delete, TypeOK
<1>2. CASE placed[f] = 0 /\ shelf[f] # NoRow
  BY <1>1, <1>2 DEF Delete, ShelfNext, Withdraw
<1>3. CASE placed[f] # 0
  BY <1>3 DEF Delete, svars
<1>4. CASE placed[f] = 0 /\ shelf[f] = NoRow
  <2>1. shelf' = [shelf EXCEPT ![f] = NoRow] /\ UNCHANGED <<published, placed>>
    BY <1>4 DEF Delete
  <2>2. shelf' = shelf
    BY <1>1, <1>4, <2>1 DEF TypeOK
  <2>. QED
    BY <2>1, <2>2 DEF svars
<1>. QED
  BY <1>2, <1>3, <1>4

LEMMA StepsOfShelf ==
  ASSUME TypeOK, [Next]_ovars
  PROVE  [ShelfNext \/ \E e \in Editors : Save(e) /\ shelf[edit[e].id] # edit[e].read]_svars
<1>1. CASE UNCHANGED ovars
  BY <1>1 DEF ovars, svars
<1>2. ASSUME NEW e \in Editors, NEW f \in Offers, NEW n \in Quantities,
             CreateOffer(e, f, n)
      PROVE  ShelfNext
  BY <1>2 DEF CreateOffer, ShelfNext
<1>3. ASSUME NEW e \in Editors, NEW f \in Offers, NEW patch \in Patch,
             UpdateOffer(e, f, patch)
      PROVE  UNCHANGED svars
  BY <1>3 DEF UpdateOffer
<1>4. ASSUME NEW e \in Editors, NEW f \in Offers, DeleteOffer(e, f)
      PROVE  UNCHANGED svars
  BY <1>4 DEF DeleteOffer
<1>5. ASSUME NEW e \in Editors, Save(e)
      PROVE  ShelfNext \/ shelf[edit[e].id] # edit[e].read
  BY <1>5, SaveIsEdit
<1>6. ASSUME NEW e \in Editors, Delete(e)
      PROVE  ShelfNext \/ UNCHANGED svars
  BY <1>6, DeleteIsWithdraw
<1>7. ASSUME NEW e \in Editors, Fail(e)
      PROVE  UNCHANGED svars
  BY <1>7 DEF Fail
<1>8. ASSUME NEW f \in Offers, CreateOrder(f) \/ CancelOrder(f)
      PROVE  ShelfNext
  BY <1>8 DEF CreateOrder, CancelOrder, ShelfNext, Sales
<1>. QED
  BY <1>1, <1>2, <1>3, <1>4, <1>5, <1>6, <1>7, <1>8 DEF Next

\* The offer service implements the abstract shelf, but for the saves of an edit whose
\* row has changed since it was read (UpdateOffer, service.go:114-170).
THEOREM StepsUnlessStale == Spec => ShelfUnlessStale
<1>1. OInv => TypeOK
  BY DEF OInv, StockNonNegative
<1>2. ASSUME OInv, [Next]_ovars
      PROVE  [ShelfNext \/ \E e \in Editors :
                Save(e) /\ shelf[edit[e].id] # edit[e].read]_svars
  BY <1>1, <1>2, StepsOfShelf
<1>. QED
  BY <1>2, OffersInvariance, PTL DEF Spec, ShelfUnlessStale
=============================================================================
