SPECIFICATION Spec
CONSTANTS
  Strategies = {s1}
  Publishers = {"operator"}
  Commands = {"HALTED"}
  MaxCommands = 1
  MaxQueue = 1
  MaxFaults = 0
  MaxRestarts = 0
  MaxRejectionHalts = 0
INVARIANTS KillCancelsAll
CHECK_DEADLOCK FALSE
