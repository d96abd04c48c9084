CONSTANTS
  Token = {1, 2, 3}
  Req = {r1, r2}
  None = None
  AccessTtl = 1
  RefreshTtl = 2
  MaxClock = 1
  MaxFaults = 0
SPECIFICATION Spec
SYMMETRY Symmetric
INVARIANTS
  LogoutEndsFamily
CHECK_DEADLOCK FALSE
