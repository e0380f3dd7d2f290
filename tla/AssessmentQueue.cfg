\* Two workers, so that one may overtake the other; no symmetry: it is unsound for liveness.
CONSTANTS
  Worker = {w1, w2}
  Assessment = {a1, a2}
  Key = {k1, k2}
  NoKey = NoKey
  NoWorker = NoWorker
  NoJob = NoJob
  MaxAttempts = 2
  MaxFaults = 1
SPECIFICATION Spec
INVARIANTS
  OneAnswerPerKey
  VerdictIsEarned
PROPERTIES
  ImplementsLifecycle
