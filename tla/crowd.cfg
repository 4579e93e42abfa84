SPECIFICATION Explored
CONSTANTS
  a = a
  b = b
  z = z
  x = x
  y = y
  t1 = t1
  t2 = t2
  none = none
  nobody = nobody
  Members = {a, b}
  Tasks = {t1}
  NoTask = none
  Nobody = nobody
  Slots <- OneSlot
  Capacity = 1
  Brain <- House
  Holder <- NobodyHolds
  Urgency <- AllTheSame
  ProjectTasks = {}
  MaxIds = 3
  MaxRestarts = 0
  Raised <- News
  Outcomes = {"Succeeded"}
  Acts = {"pause", "stop", "ask", "furlough", "spend", "trip"}
SYMMETRY Alike
INVARIANTS
  TypeOK
  
  HeldOnce
  OneLiveTurn
  QueueKept
PROPERTIES
  ATaskIsALock
