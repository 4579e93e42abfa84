SPECIFICATION Explored
CONSTANTS
  c1 = c1
  c2 = c2
  r1 = r1
  i1 = i1
  noitem = noitem
  norun = norun
  None = None
  Calls = {c1, c2}
  Brains = {"claude", "deepseek", "house"}
  Reserve = 12
  Most = 11
  Prompts = {2}
  Asks = {4}
  Trusted = 2
  CacheLives = 3
  LongestReply = 1
  MaxCrashes = 1
CHECK_DEADLOCK FALSE
INVARIANTS
  Typed
  
  SpendingIsKnown
  EveryCallAnswered
  HasWhatItIsTold
PROPERTIES
  EveryCallIsOver
  RunnerAsSeen
  EveryContainerIsOver
  EndsOnce
