CONSTANTS
  Event = {1, 2}
  Poison = poison
  None = None
  Copy = {m1, m2, m3}
  Relay = {r1}
  Consumer = {c1, c2}
  BatchSize = 1
  Prefetch = 1
  DeliveryLimit = 0
  MaxFaults = 1
SPECIFICATION AttendedSpec
PROPERTIES
  EventuallySettled
CHECK_DEADLOCK FALSE
