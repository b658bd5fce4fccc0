SPECIFICATION PredictionSpec
CONSTANTS
  u1 = u1
  u2 = u2
  Users = {u1, u2}
  Askers <- Settlers
  Prices = {2, 5}
  MaxTime = 3
  Questions = {1, 2}
  StakeIds = {1, 2, 3}
  Bets <- MCBets
  Target = 2
  Horizon = 1
  Hour = 2
  RetryAfter = 1
  GiveUpAfter = 1
  MaxOpen = 1
  Capacity = 3
  BatchLimit = 1
  Creators = {u1}
  Grants = {4}
INVARIANTS
  ContestedPoolsSettle
CHECK_DEADLOCK FALSE
