CONSTANTS
  f1 = f1  r1 = r1
  Offers = {f1}
  Users = {u1}
  Restaurants = {r1}
  RestaurantOf <- OneRestaurant
  Worker = Worker
  Free = Free
  NoRow = NoRow
  NoJob = NoJob
  Orders = {o1}
  Total <- OneBox
  Handlers = {h1, h2}
SPECIFICATION Spec
PROPERTY CancelledNeverPaid
CHECK_DEADLOCK FALSE
