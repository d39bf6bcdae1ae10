SPECIFICATION FairSpec
CONSTANTS
  n1 = n1
  n2 = n2
  Node <- OneNode
  MaxCmd = 2
  MaxFaults = 2
PROPERTY
  RetryRecovers
