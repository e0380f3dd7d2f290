\* One company with one request; the customer installs the App and makes one change in the
\* repository that the platform has made.
CONSTANTS
  Company = {c1}
  Slug = {g1}
  Org = {o1}
  Name = {n1}
  Key = {k1}
  Call = {s1}
  None = None
  ProjectLimit = 1
  MaxFaults = 0
  MaxChanges = 2
SPECIFICATION Spec
CHECK_DEADLOCK FALSE
PROPERTY OnlyUntouchedReplaced
