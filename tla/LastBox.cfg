CONSTANTS
  f1 = f1  r1 = r1
  Offers = {f1}
  Users = {u1}
  Restaurants = {r1}
  RestaurantOf <- OneRestaurant
  Worker = Worker
  Free = Free
  NoRow = NoRow
  NoJob = NoJob
  Orders = {o1, o2}
  Total <- OneBox
  Handlers = {h1, h2}
SPECIFICATION Spec
SYMMETRY SymOrders
INVARIANTS StockNonNegative HistorySound NoticesSound
PROPERTY OffersOnlySold
CHECK_DEADLOCK FALSE
