CONSTANTS
  Conn = {k1}
  Server = {s1}
  MaxPassword = 2
SPECIFICATION PasswordSpec
INVARIANTS
  SessionsCurrent
CHECK_DEADLOCK FALSE
