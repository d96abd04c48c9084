CONSTANTS
  File = {1}
  Key = {k1}
  FileSize = 12
  MIB = 3
  MAX_PART = 60
  MAX_PARTS = 7
  MAX_OBJECT = 400
  Call = {c1, c2}
  None = None
  MaxFaults = 1
SPECIFICATION FairSpec
PROPERTIES
  AssembledGetsCompleted
CHECK_DEADLOCK FALSE
