CONSTANTS
  Event = {1}
  Poison = poison
  None = None
  Copy = {m1, m2}
  Relay = {r1}
  Consumer = {c1}
  BatchSize = 1
  Prefetch = 1
  DeliveryLimit = 0
  MaxFaults = 1
SPECIFICATION UnattendedSpec
PROPERTIES
  EventuallyPublished
CHECK_DEADLOCK FALSE
