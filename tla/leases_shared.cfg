SPECIFICATION Spec
CONSTANTS
  r1 = r1
  r2 = r2
  i1 = i1
  noitem = noitem
  norun = norun
  Runs = {r1}
  Items = {i1}
  NoItem = noitem
  NoRun = norun
  ItemOf <- OnOneItem
  HqRoom = 1
  Room = 2
  Kept = 1
  ExitsAs = {"Failed"}
  MaxLeases = 2
  MaxRestarts = 1
  MaxCrashes = 1
  MayNotList = FALSE
SYMMETRY AnyRun
INVARIANTS
  OneSandboxEach
