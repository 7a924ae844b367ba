SPECIFICATION Spec
CONSTANTS
  Ids = {s1}
  Clients = {c1, c2}
  NoId = NoId
  MaxLaunches = 3
  MaxFaults = 1
CHECK_DEADLOCK FALSE
PROPERTIES
  LaunchEnds
