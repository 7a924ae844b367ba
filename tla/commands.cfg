SPECIFICATION CommandsSpec
CONSTANTS
  Callers = {c1, c2}
  Keys = {k1, k2}
  Requests = {r1, r2}
  MaxFaults = 2
  Servers = {"v1", "v2"}
  CommandIds = {"k1", "k2"}
  Bodies = {"b1", "b2"}
  MaxRequests = 2
  MaxRecoveries = 1
  MaxLosses = 1
  Resumers = {"q1", "q2"}
  MaxCommits = 1
  MaxResumptions = 2
CHECK_DEADLOCK FALSE
INVARIANTS
  AtMostOnce
  AnswerIsTheEffect
  CommandIsOneRequest
  RecoveryIsAlone
  WorkIsAdmitted
  ContributionIsEarned
PROPERTIES
  KeepsPromise
