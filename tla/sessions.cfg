SPECIFICATION SessionsSpec
CONSTANTS
  Ids = {s1, s2}
  Clients = {c1, c2}
  NoId = NoId
  MaxLaunches = 3
  MaxFaults = 1
  Recipients = {"b", "c"}
  Sender = "a"
  MaxMishaps = 1
CHECK_DEADLOCK FALSE
SYMMETRY Interchangeable
INVARIANTS
  DesignatedAlone
  StandingIsTrue
  OutcomeIsTrue
  HistoryIsFaithful
PROPERTY
  KeepsSeat
