CONSTANTS
  Offers = {f1}
  Quantities <- AskedQuantities
  NoRow = NoRow
  Keep = Keep
  Editors = {e1, e2}
  NoEdit = NoEdit
  MaxOrders = 2
  MaxStock = 2
SPECIFICATION Spec
SYMMETRY SymEditors
INVARIANTS StockNonNegative OrdersKeepOffer
PROPERTY ShelfUnlessStale
CHECK_DEADLOCK FALSE
