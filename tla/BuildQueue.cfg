\* Two workers on one build that may be claimed three times; no symmetry: it is
\* unsound for liveness.
CONSTANTS
  Worker = {w1, w2}
  Build = {b1}
  Key = {k1}
  NoKey = NoKey
  NoWorker = NoWorker
  NoJob = NoJob
  NoArtifact = NoArtifact
  MaxAttempts = 3
  MaxFaults = 1
SPECIFICATION Spec
INVARIANTS
  CompletedHasArtifact
  StoredIsApproved
PROPERTIES
  ResultIsFinal
  ImplementsQueue
