CONSTANTS
  Offers = {f1, f2}
  Restaurants = {r1}
  Categories = {c1, c2}
  Names = {n1, n2}
  Handlers = {h1}
  MaxAvail = 1
  Unset = Unset
  NoRow = NoRow
  NoJob = NoJob
SPECIFICATION CatalogueSpec
SYMMETRY Symmetric
INVARIANT SaleAgrees
PROPERTIES AnswersAgree
CHECK_DEADLOCK FALSE
