SPECIFICATION ServicesSpec
CONSTANTS
  AskedDays = {1,2}
  Backoff = 4
  Capital = 100000
  ClosedDays = {1}
  DayBeforeHolidayIsShort = TRUE
  Days = {0,1,2,3,4}
  DefaultLoss = 1000
  DefaultSize = 500
  EarlyCloses <- EarlySets
  Files <- BundleFiles
  Closes = {96, 3800}
  Gone = Gone
  Holidays <- HolidaySets
  LastCatalogDay = 4
  Lookback = 2
  MaxDownloads = 2
  LastNight = 2
  MaxApplies = 1
  MaxBackups = 2
  MaxCandidates = 2
  MaxChanges = 1
  MaxConcentration = 10
  MaxDashboardRestarts = 1
  MaxDeployments = 1
  MaxDowns = 1
  MaxEdits = 1
  MaxErrors = 1
  MaxFailures = 2
  MaxGap = 20
  MaxInWindow = 2
  MaxMinutes = 9
  MaxMonitorCrashes = 1
  MaxNow = 4
  MaxPasses = 2
  MaxPrice = 5000
  MaxReloads = 1
  MaxRestores = 1
  MaxRuns = 2
  MaxSent = 1
  MinGap = 2
  MinPrice = 1
  Nav = 1000000
  NoAnswer = NoAnswer
  NoEntry = NoEntry
  NoMetric = NoMetric
  QuotePrices = {100, 4000}
  Instruments = {i1}
  NoDate = NoDate
  NoTotal = NoTotal
  Prices = {1, 3}
  Quantities = {1, 2}
  MaxFills = 3
  MaxDay = 1
  MaxStops = 1
  MaxRestarts = 1
  MaxFaults = 1
  Requests <- AskedRuns
  RestartWindow = 2
  Retention = 1
  RiskPerTrade = 1000
  Sent <- SentBundles
  Spreads = {1}
  Symbols = {s1, s2}
  Tradable = {s1, s2}
  TraderMarket = "US"
  Ttl = 2
  ValuesAtRisk = {2, 4}
  Weekends = {3}
  s1 = s1
  s2 = s2
INVARIANTS LotsMatchTheFills StoredKeepsUp BundlesWithinBudget DeployedIsSnapshot AnswersAreRecent VerdictsAreStored TestedOutOfSample RestartsBackOff LastBackupKept HolesAreExplained
CHECK_DEADLOCK FALSE
