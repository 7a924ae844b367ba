SPECIFICATION Spec
CONSTANTS
  Ids = {s1, s2}
  Clients = {c1, c2}
  NoId = NoId
  MaxLaunches = 3
  MaxFaults = 1
CHECK_DEADLOCK FALSE
INVARIANTS
  OneActor
