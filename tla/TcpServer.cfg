SPECIFICATION Spec
CONSTANTS
  Parent = Parent
  Child = {c1, c2, c3}
  TaskNumber = 2
  MaxDeaths = 4
  MaxKills = 2
  MaxForkFailures = 1
INVARIANTS
  TypeOK
  PidsAreChildren
  WorkerCount
PROPERTIES
  
  DeadAreReaped
CHECK_DEADLOCK FALSE
