CONSTANTS
  Token = {1, 2, 3}
  Req = {r1, r2}
  None = None
  AccessTtl = 1
  RefreshTtl = 2
  MaxClock = 0
  MaxFaults = 1
SPECIFICATION FairSpec
PROPERTIES
  RequestsEnd
CHECK_DEADLOCK FALSE
