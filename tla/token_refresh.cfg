\* Two workers, a login, an administrator, one authorization, every fault but a rejected client secret.
SPECIFICATION FairSpec

CONSTANTS
  w1 = w1  w2 = w2  l1 = l1  a1 = a1  g1 = g1  g2 = g2

  Callers = {w1, w2}
  Logins = {l1}
  Admins = {a1}
  Grants = {g1}
  SlowRefresh = FALSE
  Faults = {"db", "redis", "zoho", "crash"}
  None = None
  Orphan = Orphan

CHECK_DEADLOCK FALSE

INVARIANT TypeOK
PROPERTY NoRedundantRefresh
PROPERTY RevokedForCause
PROPERTY EventuallyFresh
