SPECIFICATION OneStandstill
CONSTANTS
  a = a
  b = b
  z = z
  t1 = t1
  t2 = t2
  none = none
  nobody = nobody
  Members = {a, b}
  Tasks = {t1}
  NoTask = none
  Nobody = nobody
  Slots <- OneSlot
  Capacity = 1
  Brain <- House
  Holder <- NobodyHolds
  Urgency <- AllTheSame
  ProjectTasks = {}
  MaxIds = 2
  MaxRestarts = 1
  Raised <- OnT1
  Outcomes = {"Succeeded", "NeverStarted", "Vanished"}
  Acts = {"stop", "drain", "recover", "startfails", "retire", "ask", "spend"}

  
  
PROPERTIES
  EndedStaysEnded
  
