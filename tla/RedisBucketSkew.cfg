CONSTANTS
  Capacity = 2
  Unit = 3
  Refill = 2
  TicksPerSecond = 2
  MaxSkew = 3
  MaxTime = 14
SPECIFICATION Spec
INVARIANTS WindowBound RetryExact
