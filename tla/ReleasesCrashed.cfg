\* One worker process dies.
CONSTANTS
  Worker = {w1, w2}
  Release = {r1, r2}
  NoRelease = NoRelease
  IngressConfigured = TRUE
  MaxFaults = 0
  MaxCrashes = 1
SPECIFICATION Spec
CHECK_DEADLOCK FALSE
PROPERTY ReleaseDecided
