SPECIFICATION Explored
CONSTANTS
  bo = bo
  rae = rae
  ada = ada
  nobody = nobody
  Members = {bo, rae, ada}
  Rank <- Ranks
  Macs = {rae}
  StartRank = 6
  FailuresARank = 1
  MaxSpare = 0
  Nobody = nobody
  Askers = {"one"}
CHECK_DEADLOCK FALSE
INVARIANTS
  WorkedByWhomItIsFor
