CONSTANTS
  None = None
  MaxTime = 6
  Window = 3
  Second = 2
  Limits = {0, 1, 2}
  MaxRequests = 4
  Ttl = 2
  Visit = {q1, q2}
  MaxSid = 2
  MaxVisits = 2
  Content = {c1, c2}
  c1 = c1
  c2 = c2
  css = css
  logo = logo
  Key = {css, logo}
  Digest <- MCDigest
  MaxPuts = 2
  MaxEdgeTime = 4
  MaxAge = 2
  Hit = {h1, h2}
  Instance = {i1, i2}
  TokenTtl = 2
  MaxKey = 2
  MaxDb = 2
  MaxRuns = 3
  MaxDay = 3
  KEEP_DAYS = 1
  u1 = u1
  adm = adm
  Absent = Absent
  User = {u1, adm}
  Admin = {adm}
  Seller = {}
  MaxOrder = 2
  InitialBuyers <- MCBuyers
  OrderStatus = {"new", "packed"}
  EventSource = {e1}
  Socket = {s1}
  BUFFER_SIZE = 2
  MaxEvents = 3
  MaxDrops = 2
  MaxRestarts = 1
SPECIFICATION Spec
INVARIANTS
  RetryAfterHonest
  SessionLives
  AnswersInTime
  TokensSurvive
  BackupsStand
  StreamHasNoGap
  OnlyReadersListen
PROPERTIES
  ImplementsWindow
CHECK_DEADLOCK FALSE
