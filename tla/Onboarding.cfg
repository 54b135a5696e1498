CONSTANTS
  Partners = {p1, p2}
  Restaurants = {1, 2}
  Handlers = {h1, h2}
  MaxTokens = 1
  NoRow = NoRow
  None = None
  NoJob = NoJob
  NoAnswer = NoAnswer
SPECIFICATION Spec
SYMMETRY Symmetric
INVARIANTS RestaurantLinked ClaimsSound SellsAndHandsOver
PROPERTIES DecidedOnce SecondOnlyRaced RefusedUnchanged
CHECK_DEADLOCK FALSE
