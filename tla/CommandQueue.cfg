SPECIFICATION FairSpec
CONSTANTS
  n1 = n1
  n2 = n2
  Node <- TwoNodes
  MaxCmd = 2
  MaxFaults = 2
INVARIANTS
  InOrder
  HandledIsDurable
  IndInv
PROPERTIES
  ImplementsDelivery
  PendingIsHandled
