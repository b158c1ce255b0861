SPECIFICATION FairSpec
CONSTANTS
  Strategies = {s1}
  Publishers = {"operator"}
  Commands = {"HALTED"}
  MaxCommands = 1
  MaxQueue = 2
  MaxFaults = 0
  MaxRestarts = 1
  MaxRejectionHalts = 0
PROPERTIES KeyGoverns
CHECK_DEADLOCK FALSE
