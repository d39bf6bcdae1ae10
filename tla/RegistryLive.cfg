SPECIFICATION FairSpec
CONSTANTS
  h1 = h1
  h2 = h2
  Handler <- OneHandler
  Node <- TwoNodes
  Domain <- OneDomain
  Iface <- OneIface
  View <- TwoViews
  Manual <- NoManual
  StartMembers <- BothMembers
  MaxFailures = 1
PROPERTY
  Repaired
