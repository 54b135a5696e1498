CONSTANTS
  Orders = {o1, o2}
  Categories = {c1, c2}
  Names = {n1, n2}
  FirstDay = 7
  LastDay = 9
  NewMonth = 8
  NoRow = NoRow
  NoJob = NoJob
SPECIFICATION Spec
SYMMETRY Symmetric
INVARIANTS OrdersKeepCategory DaysExact SalesBooked PeriodsAddUp
CHECK_DEADLOCK FALSE
