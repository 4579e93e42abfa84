SPECIFICATION Explored
CONSTANTS
  bo = bo
  rae = rae
  ada = ada
  nobody = nobody
  Members = {bo, rae}
  Rank <- Ranks
  Macs = {}
  StartRank = 6
  FailuresARank = 2
  MaxSpare = 1
  Nobody = nobody
  Askers = {"one", "two", "three"}
CHECK_DEADLOCK FALSE
INVARIANTS
  Typed
  AskIsServedOnce
  
PROPERTIES
  NoPassOfOnesOwn
  OnlyWordsWakeBlocked
  NoneIsLeftLying
