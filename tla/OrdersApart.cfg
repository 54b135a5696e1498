CONSTANTS
  f1 = f1  r1 = r1
  Offers = {f1}
  Users = {u1}
  Restaurants = {r1}
  RestaurantOf <- OneRestaurant
  Worker = Worker
  Free = Free
  NoRow = NoRow
  NoJob = NoJob
  Orders = {o1, o2}
  Total <- TwoBoxes
  Handlers = {h1, h2}
SPECIFICATION ApartSpec
INVARIANT BoxesConserved
PROPERTY ImplementsLifecycle
CHECK_DEADLOCK FALSE
