SPECIFICATION FairHarness
CONSTANTS
  Kinds = {"recurrent_operations"}
  LastPhase = 1
  MaxRemediations = 0
  MaxReturns = 0
  RoleResults <- CognitionResults
  MaxCrashes = 2
CHECK_DEADLOCK FALSE
INVARIANTS
  NothingReplayed
  CleanupIsTrue
PROPERTIES
  DriveEnds
  CancelIsHonoured
