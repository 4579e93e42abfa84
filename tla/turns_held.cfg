SPECIFICATION Spec
CONSTANTS
  a = a
  b = b
  z = z
  t1 = t1
  t2 = t2
  none = none
  nobody = nobody
  Members = {a, b, z}
  Tasks = {t1}
  NoTask = none
  Nobody = nobody
  Slots <- OneSlot
  Capacity = 1
  Brain <- House
  Holder <- NobodyHolds
  Urgency <- AllTheSame
  ProjectTasks = {}
  MaxIds = 3
  MaxRestarts = 0
  Raised <- OnT1
  Outcomes = {"Succeeded"}
  Acts = {"pause"}
SYMMETRY Alike
INVARIANTS
  HeldBehindATurn
