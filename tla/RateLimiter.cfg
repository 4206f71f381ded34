CONSTANTS
  Requests = {r1, r2}
  Probes = {p1}
  RedisCapacity = 1
  LocalCapacity = 1
  MaxRefills = 1
  MaxFlips = 2
  MaxCancels = 1
SPECIFICATION FairSpec
INVARIANTS EveryGrantPaid OneFailurePerConnection
PROPERTIES EveryCheckEnds HealsAfterOutage
