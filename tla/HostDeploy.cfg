\* Three runs, three builds of two revisions, two mishaps.
CONSTANTS
  Deployment = {d1, d2, d3}
  NoDeployment = NoDeployment
  Build = {1, 2, 3}
  Revision <- RevisionOf
  MaxMishaps = 2
SPECIFICATION Spec
CHECK_DEADLOCK FALSE
INVARIANTS
  ReplacedOrUndone
  ProdRanOnStage
PROPERTIES
  PromotesStage
  OutageEnds
