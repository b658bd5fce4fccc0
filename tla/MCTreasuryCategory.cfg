SPECIFICATION ReadinessSpec
CONSTANTS
  o1 = o1
  o2 = o2
  g1 = g1
  b1 = b1
  p1 = p1
  p2 = p2
  f1 = f1
  f2 = f2
  Signers = {o1, o2}
  Gates = {g1}
  OfficeGates = {g1}
  RowIds = {1, 2}
  Banks = {b1}
  Posts = {p1, p2}
  Files = {f1, f2}
  LastDay = 1
  GoodFor = 1
INVARIANTS
  AccountsKeepTheirCategory
CHECK_DEADLOCK FALSE
