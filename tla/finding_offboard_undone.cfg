\* An employee is offboarded while a worker refreshes the token.
SPECIFICATION Spec

CONSTANTS
  w1 = w1  w2 = w2  l1 = l1  a1 = a1  g1 = g1  g2 = g2

  Callers = {w1, w2}
  Logins = {}
  Admins = {a1}
  Grants = {g1}
  SlowRefresh = FALSE
  Faults = {}
  None = None
  Orphan = Orphan

CHECK_DEADLOCK FALSE

INVARIANT OffboardedHasNoCredential
