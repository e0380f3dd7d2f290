\* One worker that meets no fault, and a reconciler whose calls fail and are cut off.
CONSTANTS
  Worker = {w1}
  Release = {r1, r2, r3}
  NoRelease = NoRelease
  IngressConfigured = TRUE
  MaxFaults = 0
  MaxCrashes = 0
  MaxCalls = 2
SPECIFICATION IngressSpec
CHECK_DEADLOCK FALSE
INVARIANT RouteFollowsRecords
PROPERTIES
  TraefikFollowsRoute
  RoutesNeverGoBack
