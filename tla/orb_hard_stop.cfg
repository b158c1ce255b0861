SPECIFICATION HardStopSpec
CONSTANTS
  Groups = {g1, g2}
  NoGroup = NoGroup
  NoState = NoState
  EntryMode = "STOP_MARKET"
  Contingent = TRUE
  ReduceOnly = TRUE
  LegsMayReject = FALSE
  FirstCandleBars = 1
  ConfirmationBars = 1
  TradeSize = 2
  MaxPosition = 2
  MaxTradesPerDay = 0
  MaxConsecutiveRejections = 0
  LossLimit = 1
  Cooldown = FALSE
  AtrFilter = TRUE
  LunchPause = FALSE
  MaxCloses = 2
  MaxTrades = 1
  MaxStops = 0
  MaxRestarts = 0
  MaxDays = 1
PROPERTIES HardStopFlattens
CHECK_DEADLOCK FALSE
