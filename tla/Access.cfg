CONSTANTS
  t1 = t1
  t2 = t2
  alice = alice
  c1 = c1
  c2 = c2
  Token = {t1, t2}
  Subject = {alice}
  Company = {c1, c2}
  Browser = {b1, b2}
  State = {s1, s2}
  Request = {r1}
  Redirect = {k1, k2}
  Endpoint <- MCEndpoint
  None = None
  Holder <- MCHolder
  Acr <- MCAcr
  Amr <- MCAmr
  stepUpAuthenticationContexts <- MCContexts
  stepUpAuthenticationMethods <- MCMethods
  introspectionEnabled = TRUE
  MaxChanges = 3
SYMMETRY Symmetric
SPECIFICATION Spec
CHECK_DEADLOCK FALSE
INVARIANTS
  LoginIsSingleUse
  SessionOfItsBrowser
PROPERTIES
  EnteredIsAuthorized
  RefusalIsEarned
  EndedSessionAdmitsNoOne
