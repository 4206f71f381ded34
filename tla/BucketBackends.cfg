CONSTANTS
  Capacity = 3
  Unit = 3
  Refill = 2
  TicksPerSecond = 1
  MaxSkew = 0
  MaxTime = 24
SPECIFICATION BackendsSpec
PROPERTY ImplementsTokenBucket
