\* One dispatch call and one polling page whose read may fail; no symmetry: it is
\* unsound for liveness.
CONSTANTS
  Request = {q1}
  Viewer = {v1}
  Run = {r1, r2}
  NoRun = NoRun
  HistoryLimit = 1
  MaxRaced = 0
  MaxFaults = 1
SPECIFICATION Spec
PROPERTY WorkflowIsRecorded
