SPECIFICATION FairSpec
CONSTANTS
  c1 = c1
  c2 = c2
  Client <- OneClient
  Threshold = 2
  MaxChanges = 2
  MaxManual = 0
  MaxFaults = 0
PROPERTY Recovers
CHECK_DEADLOCK FALSE
