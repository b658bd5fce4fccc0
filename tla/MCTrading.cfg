SPECIFICATION MCSpec
CONSTANTS
  u1 = u1
  c1 = c1
  c2 = c2
  k1 = k1
  k2 = k2
  r1 = r1
  r2 = r2
  Users = {u1}
  ClientOrderIds = {c1, c2}
  ResetKeys = {k1, k2}
  Quantities = {1, 2}
  MidPrices = {3, 100, 104, 300}
  Spread = 2
  Scale = 10
  MinimumTrade = 5
  MaximumTrade = 40
  DemoInitialBalance = 45
  IsVirtual = TRUE
  Requests = {r1, r2}
  Inputs <- MCInputs
  MaxAttempts = 3
INVARIANTS
  BooksInOrder
  LockedBacksPositions
  JournalsMatchPositions
  ProjectionChecksPass
PROPERTIES
  SettlementsPayTheirPnl
  EveryRequestEnds
