\* A CSV upload works beside the periodic run, both on snapshots: who left is not synced any more.
SPECIFICATION FairSpec

CONSTANTS
  ann = ann  ben = ben  a1 = a1  a2 = a2  b1 = b1
  i1 = i1  i2 = i2  i3 = i3  csv = csv

  People = {ann}
  Emails = {a1}
  EmailsOf <- OneAddress
  Ids = {i1}
  Imports = {csv}
  ChangeKinds = {"status", "rename", "invite", "login"}
  MaxChanges = 4
  Faults = {"db", "mail", "crash"}
  Hourly = Hourly
  None = None

PROPERTY EventuallyStopped
