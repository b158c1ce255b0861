SPECIFICATION FairSpec
CONSTANTS
  Markets = {"US", "HK"}
  NoMarket = NoMarket
  MaxSwitches = 2
  MaxRestarts = 1
  MaxQueue = 1
  MaxFaults = 1
  MaxDockerFaults = 1
  MaxTicks = 2
INVARIANTS EnvNamesTrader
PROPERTIES CompleteIsTrue FailureRestoresMarket SwitchKillsSavedOnly SwitchEnds
CHECK_DEADLOCK FALSE
