CONSTANTS
  Orders = {o1, o2}
  Reviews = {r1, r2, r3}
  Handlers = {h1, h2}
  NoOne = NoOne
  NoRow = NoRow
  Gone = Gone
  NoJob = NoJob
  NoAnswer = NoAnswer
  Restaurants = {q1, q2}
  Commissions = {0, 20}
  Browsers = {b1}
  NoPage = NoPage
  Unset = Unset
SPECIFICATION PartsSpec
INVARIANTS OneReviewPerOrder EditsAddUp
PROPERTIES RatingExact RequestsEnd
CHECK_DEADLOCK FALSE
