CONSTANTS
  Users = {u1}
  Jtis = {s1, s2}
  Handlers = {h1, h2}
  NoRow = NoRow
  NoJob = NoJob
  NoAnswer = NoAnswer
SPECIFICATION Spec
SYMMETRY Symmetric
INVARIANTS BlockedSignsNothing RefusedUnchanged
PROPERTIES DeletedFrozen LoggedOutForGood DeletedWithoutOrders
CHECK_DEADLOCK FALSE
