\* Two companies that may claim one organization, two requests of one repository name,
\* two concurrent calls; a lost reply, connection or call, and two changes by the customer.
CONSTANTS
  Company = {c1, c2}
  Slug = {g1, g2}
  Org = {o1}
  Name = {n1}
  Key = {k1, k2}
  Call = {s1, s2}
  None = None
  ProjectLimit = 2
  MaxFaults = 1
  MaxChanges = 2
SPECIFICATION Spec
CHECK_DEADLOCK FALSE
INVARIANTS
  OneRepositoryPerRequest
  RecordedIsCreated
  ReadyIsComplete
PROPERTIES
  ImplementsOnboarding
  SetupOnlyAdvances
  CustomerWorkKept
  InitializingBecomesReady
