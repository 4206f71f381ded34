CONSTANTS
  Configs = {c1, c2, bad, broken}
  Initial = c1
  Invalid = {bad}
  Broken = {broken}
  Reloads = {a1, a2}
  Requests = {r1, r2}
  Threads = {t1}
  MaxGeneration = 3
  None = None
SPECIFICATION Spec
INVARIANTS
  NoStaleInstance
  FileMatchesConfig
  
  AtomicReload
  PluginsAheadOnlyOfApply
SYMMETRY Slots
