SPECIFICATION KillSpec
CONSTANTS
  s1 = s1
  s2 = s2
  Strategies = {s1, s2}
  Publishers = {"operator", "monitor"}
  Commands = {"RUNNING", "HALTED"}
  MaxCommands = 2
  MaxQueue = 2
  MaxFaults = 1
  MaxRestarts = 1
  MaxRejectionHalts = 1
 
PROPERTIES LastCommandWins BreachHalts
CHECK_DEADLOCK FALSE
