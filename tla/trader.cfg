SPECIFICATION TraderSpec
CONSTANTS
  i1 = i1
  i2 = i2
  i3 = i3
  InstrumentIds = {i1, i2, i3}
  MaxQuoteSubs = 2
  MaxOrderBookSubs = 0
  MaxKlinesSubs = 1
  MaxTradeTickSubs = 0
  IdleTimeout = 1
  Timeouts = {0, 2}
  MaxTime = 4
  Subscriptions <- ClientSubscriptions
  NoHandler = NoHandler
  MaxQueue = 2
  MaxRefusals = 1
  Callers = {c1, c2}
  MaxOrders = 2
  WindowSeconds = 6
  MaxThrottleDelay = 3
  Instants = {1, 3, 5, 7, 9, 11, 13, 15, 17, 19, 21, 23}
  MaxAcquires = 6
  MomGroups = {m1, m2}
  NoMomGroup = NoMomGroup
  MomEntryType = "STOP_MARKET"
  Directions <- BothWays
  Window = 1
  MomSize = 1
  MomMaxPosition = 2
  MomMaxRejections = 2
  MomLossLimit = 1
  MaxEntries = 2
  MaxInterruptions = 1
  MaxClosings = 1
  MaxHeard = 3
  k1 = k1
  k2 = k2
  s1 = s1
  NoOrbState = NoOrbState
  RejectionKeys = {k1, k2}
  StrategyOf <- OneStrategy
  MaxConsecutive = 2
  CooldownTime = 1
  MaxRejections = 4
  MaxTicks = 3
  OpensAt = 2
  ClosesAt = 7
  DayLength = 8
  Holiday = {1}
  StaleTimeout = 1
  CheckInterval = 2
  MaxClock = 31
  h1 = h1
  h2 = h2
  Holdings = {h1, h2}
  OrderSize = 2
  NoRow = NoRow
  MaxFillsSeen = 2
  MaxReplays = 1
  MaxBoots = 1
  MaxDbErrors = 1
  Watched = {i1}
  Beat = 2
  BeatTimeout = 3
  FreshFor = 1
  BundlesLoaded = TRUE
  DayTicks = 5
  CheckAt = 2
  TradingDays = {1}
  MaxSecond = 9
  MaxHealthFaults = 1
  MaxHealthStops = 1
INVARIANTS QuotaRespected SubscriptionsKept BreakerLatched BreakerIsEarned HaltsAtStreaks SilenceNoticed TablesAgree HealthIsTold
PROPERTIES OvershootWasUnderWay ImmediateWithinLimit
SYMMETRY TraderSymmetry
CHECK_DEADLOCK FALSE
