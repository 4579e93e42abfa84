SPECIFICATION Explored
CONSTANTS
  r1 = r1
  r2 = r2
  i1 = i1
  noitem = noitem
  norun = norun
  a1 = a1
  a2 = a2
  t1 = t1
  t2 = t2
  nobody = nobody
  k1 = k1
  k2 = k2
  Runs = {r1, r2}
  LastDay = 1
  PoolDay = 3
  Most = 2
  Least = 1
  MaxAttempts = 2
  MaxReports = 1
  MaxCrashes = 1
SYMMETRY Alike
CHECK_DEADLOCK FALSE
INVARIANTS
  Typed
  BooksBalance
  
  NothingTwice
  FreedWhenOver
  RunsOnTheOwnersYes
  OutcomesAgree
  OnePlaceOneSandbox
  LimitsKept
  DoneAsRecorded
PROPERTIES
  EndsAndKills
