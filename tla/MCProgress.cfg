CONSTANTS
  None = None
  Nil = Nil
  Reader = {r1, r2}
  MaxVersion = 2
  Attempts = 2
  t1 = t1
  t2 = t2
  t3 = t3
  Tx = {t1, t2, t3}
  Delta <- MCDelta
  StartBalance = 10
  maxAttempts = 3
  Nobody = Nobody
  u1 = u1
  Customer = {u1, u2}
  Staff = {ad}
  Walk = {walk}
  PageLimits = {1, 2}
  FirstOrders <- MCOrders
  FirstProducts = 2
  MaxRows = 3
  Conn = {k1, k2}
  Server = {s1}
  MaxPassword = 3
  Job = {1, 2}
  Worker = {w1, w2, w3}
  MaxFaults = 2
  MIB = 1
  MAX_PART = 5
  MAX_PARTS = 3
  MAX_OBJECT = 15
  UploadSize = 11
  PageSize = 2
  Process = {p1, p2}
  MaxDeaths = 1
SPECIFICATION Spec
INVARIANTS
  SingleFlight
  StaleCardExplained
  NobodyGivesUp
  WalkIsExact
  BackendsCurrent
  ProcessedOnce
  ResumeIsExact
PROPERTIES
  CardConverges
  EveryGetAnswered
  ImplementsAdjust
  PoolComesBack
  NoJobAbandoned
  UploadGetsWhole
CHECK_DEADLOCK FALSE
