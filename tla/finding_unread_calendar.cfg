\* A calendar cannot be read during a pass.
SPECIFICATION HistorySpec

CONSTANTS
  alice = alice  bob = bob
  acme = acme  globex = globex
  s1 = s1  s2 = s2  work = work  home = home
  k1 = k1  untimed = untimed
  d1 = d1  d2 = d2  d3 = d3
  w1 = w1  w2 = w2

  Employees = {alice, bob}
  Orgs = {acme}
  OrgOf <- OneOrg
  Workers = {w1}
  SourceIds = {s1}
  Calendars = {work}
  CalendarOf <- OneCalendar
  Personal = {}
  Keys = {k1, untimed}
  NoTime = untimed
  EventIds = {d1, d2}
  MaxVersion = 2
  MaxChanges = 3
  ChangeKinds = {"appear"}
  Faults = {"list"}
  AdminOrg = acme
  Pruning = FALSE
  None = None

PROPERTY RemovedOnlyIfWithdrawn
