\* Three sendings of a form; a connection, two clients and a worker; a webhook and a poll over two rows; three migrate processes; one rate limit.
SPECIFICATION Spec

CONSTANTS
  g1 = g1  g2 = g2  ga = ga  gs = gs  ca = ca  cb = cb  m1 = m1  k1 = k1  z1 = z1  z2 = z2
  s1 = s1  s2 = s2  s3 = s3
  r1 = r1  r2 = r2  u1 = u1  u2 = u2  a1 = a1  a2 = a2  w1 = w1  p1 = p1  p2 = p2  p3 = p3

  GoogleClients = {g1, g2}
  ZohoSecrets = {z1, z2}
  GoogleAccounts = {ga, gs}
  EnvAccount = gs
  CalendarOf <- OneEach
  Calendars = {ca, cb}
  Meetings = {m1}
  Saves = {s1, s2, s3}
  Consents = {k1}
  Snags = {"db", "google", "session"}
  Blank = Blank
  NoOne = NoOne
  Nowhere = Nowhere

  Rows = {r1, r2}
  Urls = {u1, u2}
  Recordings = {a1, a2}
  UrlOf <- OwnMeeting
  Subscriptions = {w1}
  PollPage = 1
  MaxMoves = 4
  LinkFaults = {"db", "lost", "crash"}
  NoUrl = NoUrl
  Null = Null

  Versions = {1, 2, 3}
  TableOf <- ThirdAlters
  Runners = {p1, p2, p3}
  MaxDowns = 2
  Stops = TRUE

  Limit = 2
  MaxHits = 4
  Lapses = TRUE

CHECK_DEADLOCK FALSE

INVARIANT OperationsTypeOK
INVARIANT ZohoSecretNewest
INVARIANT SchemaAsRecorded
PROPERTY NewMeetingsFollow
PROPERTY EventuallyLinked
PROPERTY DetailsArrive
PROPERTY MigratedBetweenThem
PROPERTY RefusedForAWindow
