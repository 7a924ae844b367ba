SPECIFICATION Spec
CONSTANTS
  Tasks = {alpha, beta}
  Turns = 2
  MaxEvents = 4
CHECK_DEADLOCK FALSE
INVARIANTS
  KnownChildIsReturned
