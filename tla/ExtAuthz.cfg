CONSTANTS
  Slots = {r1, r2, r3}
  MaxConcurrent = 2
  ExitStatuses = {1000}
  EngineFails = TRUE
  MaxCancels = 1
  Reload = Reload
SPECIFICATION FairSpec
INVARIANTS PermitsConserved  
PROPERTY NobodyStarves
