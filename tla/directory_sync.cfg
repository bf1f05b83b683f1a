\* Two accounts, an address that changes and is given to another, failing statements: one row per account, and the active are enrolled.
SPECIFICATION FairSpec

CONSTANTS
  ann = ann  ben = ben  a1 = a1  a2 = a2  b1 = b1
  i1 = i1  i2 = i2  i3 = i3  csv = csv

  People = {ann, ben}
  Emails = {a1, a2, b1}
  EmailsOf <- PassedOn
  Ids = {i1, i2, i3}
  Imports = {}
  ChangeKinds = {"hire", "status", "email", "login"}
  MaxChanges = 3
  Faults = {"db"}
  Hourly = Hourly
  None = None

INVARIANT TypeOK
INVARIANT NoAccountTwice
PROPERTY EventuallyEnrolled
