SPECIFICATION FairSpec
CONSTANTS
  Daemon = daemon
  Commands = {upgrade}
  Releases <- SixReleases
  Dev = dev
  Absent = absent
  Partial = partial
  Overlap = FALSE
  MaxMishaps = 2
INVARIANTS TypeOK KeepsABinary OnlyVerified
PROPERTIES NeverDowngrades EventuallyUpdated
CHECK_DEADLOCK FALSE
