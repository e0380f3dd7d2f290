\* Four scans, one container that docker does not remove, two deaths.
CONSTANTS
  Scan = {s1, s2, s3, s4}
  NoScan = NoScan
  MaxStrays = 1
  MaxCrashes = 2
SPECIFICATION Spec
CHECK_DEADLOCK FALSE
INVARIANTS
  CacheIsExclusive
  ApprovalHasEvidence
PROPERTY
  ScanEnds
