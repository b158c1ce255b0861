SPECIFICATION Spec
CONSTANTS
  Markets = {"US", "HK"}
  NoMarket = NoMarket
  MaxSwitches = 2
  MaxRestarts = 1
  MaxQueue = 1
  MaxFaults = 1
  MaxDockerFaults = 1
  MaxTicks = 3
INVARIANTS SchedulerUnderstood
CHECK_DEADLOCK FALSE
