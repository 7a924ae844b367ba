SPECIFICATION RunsSpec
CONSTANTS
  Kinds = {"verified_sequence", "recurrent_operations"}
  LastPhase = 3
  MaxRemediations = 1
  MaxReturns = 2
  LastTurn = 1
  MaxMaintenance = 2
  Works = {"w1", "w2"}
  LastPath = 2
  MaxMeddling = 1
CHECK_DEADLOCK FALSE
INVARIANTS
  SerialReservation
  AcceptedWorkWasReviewed
  CoherentBasis
  ResultsAppliedOnce
  CopiesAreTrue
PROPERTIES
  KeepsPromise
  ApplyIsSound
