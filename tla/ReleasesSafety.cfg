\* Two workers and three releases: two successors of one release may interleave,
\* with a call that fails or goes unconfirmed and a worker that dies.
CONSTANTS
  Worker = {w1, w2}
  Release = {r1, r2, r3}
  NoRelease = NoRelease
  IngressConfigured = TRUE
  MaxFaults = 1
  MaxCrashes = 1
SPECIFICATION Spec
SYMMETRY Interchangeable
CHECK_DEADLOCK FALSE
INVARIANTS
  HealthyContainerKept
  RouteIsAccountedFor
  NoReleaseIsAbandoned
PROPERTIES
  RouteWasVerified
  ImplementsLifecycleSafety
