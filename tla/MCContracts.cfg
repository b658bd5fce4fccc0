SPECIFICATION ContractSpec
CONSTANTS
  u1 = u1
  k1 = k1
  k2 = k2
  w1 = w1
  w2 = w2
  Users = {u1}
  Askers = {k1, k2, w1, w2}
  Keys = {k1, k2}
  Workers = {w1, w2}
  Prices = {2, 5}
  MaxTime = 4
  ContractIds = {1, 2}
  Plans <- MCPlans
  FeeRates = {0, 2}
  FeeScale = 10
  StaleAfter = 1
  Limit = 1
  Grants = {6}
  MaxRestarts = 1
INVARIANTS
  ContractFundsInOrder
  SettledOnItsTerms
PROPERTIES
  NoForeknowledge
  DueContractsExamined
CHECK_DEADLOCK FALSE
