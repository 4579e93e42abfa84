SPECIFICATION Spec
CONSTANTS
  r1 = r1
  r2 = r2
  Runs = {r1}
  LastDay = 1
  PoolDay = 3
  Most = 2
  Least = 1
  MaxAttempts = 2
  MaxReports = 2
  MaxCrashes = 1
SYMMETRY AnyRun
CHECK_DEADLOCK FALSE
INVARIANTS
  NothingHeldWhenOver
