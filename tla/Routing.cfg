SPECIFICATION Spec
CONSTANTS
  h1 = "h1"
  h2 = "h2"
  r1 = r1
  r2 = r2
  r3 = r3
  s1 = s1
  s2 = s2
  None = None
  MaxAddress = 5
  NaN = NaN
  Documents <- MCDocuments
  Hosts <- MCHosts
  Paths <- MCPaths
INVARIANTS
  
  EveryRouteServed
  
  
CHECK_DEADLOCK FALSE
