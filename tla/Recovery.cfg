SPECIFICATION FairSpec
CONSTANTS
  c1 = c1
  c2 = c2
  Client <- TwoClients
  Threshold = 2
  MaxChanges = 1
  MaxManual = 1
  MaxFaults = 1
INVARIANTS
  OneRunPerCooldown
  LeaseIsOnItsWay
  IndInv
PROPERTIES
  NeverOlder
  RecoversOutsideCooldown
CHECK_DEADLOCK FALSE
