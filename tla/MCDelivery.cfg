CONSTANTS
  Event = {1, 2}
  Poison = poison
  None = None
  Copy = {m1, m2, m3}
  Relay = {r1, r2}
  Consumer = {c1, c2}
  BatchSize = 2
  Prefetch = 1
  DeliveryLimit = 1
  MaxFaults = 2
SYMMETRY MCSymmetry
SPECIFICATION Spec
INVARIANTS
  NoEventLost
  InboxMatchesEffect
PROPERTIES
  MarkedIsNotResent
CHECK_DEADLOCK FALSE
