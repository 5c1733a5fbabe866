SPECIFICATION FairSpec
CONSTANTS
  Profiles = {home, work}
  None = none
  Scenarios <- Separate
  MaxMishaps = 3
INVARIANTS TypeOK RollbackRestores OutageIsMended
PROPERTIES OutageEnds InstallServes
