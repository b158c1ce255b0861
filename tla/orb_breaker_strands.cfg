SPECIFICATION FairSpec
CONSTANTS
  Groups = {g1, g2}
  NoGroup = NoGroup
  NoState = NoState
  EntryMode = "BRACKET"
  Contingent = TRUE
  ReduceOnly = TRUE
  LegsMayReject = FALSE
  FirstCandleBars = 1
  ConfirmationBars = 1
  TradeSize = 1
  MaxPosition = 1
  MaxTradesPerDay = 1
  MaxConsecutiveRejections = 1
  LossLimit = 1
  Cooldown = FALSE
  AtrFilter = FALSE
  LunchPause = FALSE
  MaxCloses = 1
  MaxTrades = 1
  MaxStops = 0
  MaxRestarts = 0
  MaxDays = 0
PROPERTIES HardStopFlattens
CHECK_DEADLOCK FALSE
