CONSTANTS
  Token = {1, 2, 3}
  Req = {r1, r2}
  None = None
  AccessTtl = 1
  RefreshTtl = 2
  MaxClock = 2
  MaxFaults = 1
SPECIFICATION Spec
SYMMETRY Symmetric
INVARIANTS
  FamilyIsChain
PROPERTIES
  LogoutHolds
  OnlyLiveTokensRotate
CHECK_DEADLOCK FALSE
