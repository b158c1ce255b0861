SPECIFICATION LimiterSpec
CONSTANTS
  Callers = {c1}
  MaxOrders = 2
  WindowSeconds = 7
  MaxThrottleDelay = 3
  Instants = {1, 3, 5, 7, 9, 11, 13, 15}
  MaxAcquires = 5
INVARIANTS WindowRespected
CHECK_DEADLOCK FALSE
