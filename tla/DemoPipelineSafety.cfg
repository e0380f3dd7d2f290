\* A build, two Stage deployments and a Prod deployment; two dispatch calls that race
\* while at most two other rows are stored.
CONSTANTS
  Request = {q1, q2}
  Viewer = {}
  Run = {r1, r2, r3, r4}
  NoRun = NoRun
  HistoryLimit = 50
  MaxRaced = 2
  MaxFaults = 0
SPECIFICATION Spec
SYMMETRY Interchangeable
INVARIANTS
  DispatchedOnce
  WorkflowHoldsItsRow
  RecordIsTrue
  PromotionIsGated
PROPERTIES
  ImplementsPromotion
