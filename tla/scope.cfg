SPECIFICATION SharedSpec
VIEW Recorded
CHECK_DEADLOCK FALSE
CONSTANTS
  MaxPositions = 4
  MaxEfforts = 2
  MaxClosed = 1
  MaxRevisions = 1
  MaxEnvironments = 2
  MaxInstantiations = 2
  MaxSessions = 2
  MaxActions = 1
  MaxDisciplines = 2
  MaxExecutions = 1
  MaxEvents = 1
INVARIANTS
  OccupationIsSound
  AuthorityWasReceived
PROPERTIES
  StaysInScope
