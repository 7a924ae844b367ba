SPECIFICATION ServicesSpec
CONSTANTS
  Tasks = {alpha, beta}
  Turns = 2
  MaxEvents = 4
  Releases = {"r1", "r2"}
  BrokerSessions = {"s1", "s2"}
  MaxOperations = 2
  MaxStarts = 2
  Heads = {"h1", "h2"}
  DecisionIds = {"d1", "d2", "d3"}
  MaxReviews = 2
  MaxMoves = 2
  Operators = {"o1", "o2"}
  Pulls = {"p1"}
  MaxRuns = 3
  MaxChanges = 1
  MaxPasses = 2
  Children = {"a", "b"}
  Controllers = {c1, c2}
  NativeIds = {"n1", "n2"}
  MaxResumes = 3
CHECK_DEADLOCK FALSE
SYMMETRY Interchangeable
INVARIANTS
  DelegationIsSound
  HomeIsSound
  EvidenceIsTrue
  AttestationIsSound
  AcceptanceIsEarned
  OneWriter
PROPERTIES
  SwitchIsDeclared
