\* Two invitations, two tabs, two callbacks; two logins and two callbacks of administrators, keys that change.
SPECIFICATION Spec

CONSTANTS
  e1 = e1  z1 = z1  z2 = z2  l1 = l1  l2 = l2  t1 = t1  t2 = t2  c1 = c1  c2 = c2
  p1 = p1  p2 = p2  p3 = p3  b1 = b1  b2 = b2  a1 = a1  a2 = a2
  r1 = r1  r2 = r2  k1 = k1  k2 = k2
  org_admin = org_admin

  Employees = {e1}
  Accounts = {z1, z2}
  EmailOwner <- FirstAccount
  Links = {l1, l2}
  LinkOf <- OneEmployee
  Tabs = {t1, t2}
  Callbacks = {c1, c2}
  Hitches = {"db", "mail", "zoho", "config"}
  NoAccount = NoAccount
  NoLink = NoLink
  NoTab = NoTab

  Persons = {p1, p2, p3}
  RoleOf <- TwoAdmins
  Browsers = {b1, b2}
  Attempts = {a1, a2}
  Returns = {r1, r2}
  Keys = {k1, k2}
  FirstKey = k1
  Commands = {"manage_employees", "connect_self"}
  Granted <- AdminManages
  Upsets = {"provider"}
  Stranger = Stranger
  NoBrowser = NoBrowser
  NoAttempt = NoAttempt
  NoReturn = NoReturn
  NoPerson = NoPerson
  NoKey = NoKey

CHECK_DEADLOCK FALSE

INVARIANT AccessTypeOK
INVARIANT LinkAuthorizesOnce
INVARIANT CredentialBound
INVARIANT SessionOfSignedIn
INVARIANT PagesActForTheirReader
PROPERTY LoginSucceeds
PROPERTY RotationSurvived
