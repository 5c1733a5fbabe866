SPECIFICATION FairSpec
CONSTANTS
  Scenarios <- Sound
  MaxMishaps = 3
INVARIANTS RestoredBeforeStopped OutageIsMended
PROPERTIES OutageEnds StopRestoresDNS
CHECK_DEADLOCK FALSE
