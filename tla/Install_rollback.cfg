SPECIFICATION Spec
CONSTANTS
  Profiles = {home, work}
  None = none
  Scenarios <- Failing
  MaxMishaps = 1
INVARIANT RecoveredIsSupervised
