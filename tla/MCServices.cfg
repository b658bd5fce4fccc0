SPECIFICATION AllSpec
CONSTANTS
  SessionIds = {1, 2}
  Calls = {c1, c2, c3}
  Passwords = {1, 2}
  MaxFailures = 2
  Checks = {r1, r2, r3}
  LastTick = 2
  CodeLife = 2
  ResendAfter = 1
  MaxGuesses = 1
  o1 = o1
  o2 = o2
  o3 = o3
  Operators = {o1, o2, o3}
  ChangeIds = {1, 2}
  Customers = {u1}
  Methods = {m1}
  Settings = {0, 1}
  Roles = {"USER_CONTROLS"}
  FirstHolds <- MCFirstHolds
  Signers = {o1, o2}
  Gates = {g1}
  OfficeGates = {g1}
  RowIds = {1, 2}
  Banks = {b1}
  Posts = {p1, p2}
  Files = {f1}
  LastDay = 1
  GoodFor = 1
  LastEvent = 4
  PollSize = 1
  RecoverySize = 2
  MaxDrops = 1
  MaxPackets = 2
  MaxRecoveries = 2
  w1 = w1
  w2 = w2
  NoEvent = NoEvent
  Workers = {w1, w2}
  Events = {1, 2}
  Limit = 2
  Clients = {"PREDICTIONS", "FUNDING", "CONTRACTS"}
  Tabs = {t1, t2}
  MaxCommands = 2
  Views = {"A", "B"}
  Slots = {1, 2}
  LastRevision = 1
  MaxViews = 1
  MaxErrors = 1
  PageWindows = {1, 2}
  LastAccountEvent = 2
  OtherEvents = {2}
  EventPage = 1
  MaxVisits = 1
  Sockets = {s1, s2}
  Keys = {k1, k2}
  StreamStates = {1, 2, 3}
  NoKey = NoKey
  NoStream = NoStream
  Fetches = {1, 2}
  Backends = {d1, d2}
  LastMoment = 2
  MaxFaults = 1
  MaxPushed = 1
  SecurityKeys = {y1, y2}
  Uncounted = {y2}
  ChallengeIds = {1, 2}
  Verifications = {q1, q2}
  NoKeyYet = NoKeyYet
  Members = {v1}
  Reactions = {"LIKE", "DISLIKE"}
  Posters = {e1, e2}
  MaxComments = 1
  MaxTries = 2
  TradeWindows = {1, 2}
  x1 = x1
  Coins = {x1, x2}
  Prices = {1, 2}
  Quantities = {1}
  StartCash = 1
  OrdersKept = 2
  MaxOrders = 3
  Slugs = {i1}
  Replicas = {a1, a2}
  Passes = {n1, n2}
  LastQuarter = 1
  Retention = 1
  MaxStarts = 1
INVARIANTS
  EmailCodeServesOnce
  EvidenceIsSingleUse
  NothingLeftOut
  AtLeastOnce
  SettlementsAnnounced
  OneConnectionPerFeed
  ChallengesServeOnce
  CountersMatchRows
  OrdersCovered
  OneSamplePerProcess
PROPERTIES
  ReuseEndsTheFamily
  AppliedAsRequested
  CatchesUp
  LeaseIsExclusive
  EveryEventIsTried
  PendingCommandsKept
  ListsNeverGoBack
  PagesShowTheLatest
  ChartsCatchUp
CHECK_DEADLOCK FALSE
