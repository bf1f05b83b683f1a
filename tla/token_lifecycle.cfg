\* An employee authorizes again beside two workers whose locks may expire.
SPECIFICATION FairSpec

CONSTANTS
  w1 = w1  w2 = w2  l1 = l1  a1 = a1  g1 = g1  g2 = g2

  Callers = {w1, w2}
  Logins = {l1}
  Admins = {}
  Grants = {g1, g2}
  SlowRefresh = TRUE
  Faults = {"zoho", "client", "crash"}
  None = None
  Orphan = Orphan

CHECK_DEADLOCK FALSE

PROPERTY LockKeptFromOthers
PROPERTY EventuallyDetected
