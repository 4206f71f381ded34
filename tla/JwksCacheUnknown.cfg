CONSTANTS
  Requests = {"r1", "r2"}
  Kids = {"k0", "k1"}
  Stable = {"k0"}
  STALE_FACTOR = 1
  MaxUnknown = 2
  MaxFailures = 1
SPECIFICATION Spec
INVARIANT UnknownOnlyAfterRefresh
