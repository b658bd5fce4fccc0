SPECIFICATION TxSpec
CONSTANTS
  u1 = u1
  c1 = c1
  c2 = c2
  k1 = k1
  k2 = k2
  r1 = r1
  r2 = r2
  r3 = r3
  Users = {u1}
  ClientOrderIds = {c1, c2}
  ResetKeys = {k1, k2}
  Quantities = {1}
  MidPrices = {10, 14}
  Spread = 2
  Scale = 1
  MinimumTrade = 5
  MaximumTrade = 40
  DemoInitialBalance = 30
  IsVirtual = FALSE
  Requests = {r1, r2, r3}
  Inputs <- MCInputs
  MaxAttempts = 3
SYMMETRY MCSymmetry
INVARIANTS
  DoneOnce
  ConflictsAreRetriedAway
PROPERTIES
  AtomicCommands
