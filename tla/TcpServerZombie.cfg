SPECIFICATION Spec
CONSTANTS
  Parent = Parent
  Child = {c1, c2}
  TaskNumber = 2
  MaxDeaths = 1
  MaxKills = 0
  MaxForkFailures = 0
PROPERTY
  NoZombieStays
CHECK_DEADLOCK FALSE
