SPECIFICATION Spec
CONSTANTS
  h1 = h1
  h2 = h2
  Handler <- Handlers
  Node <- TwoNodes
  Domain <- OneDomain
  Iface <- OneIface
  View <- MoreViews
  Manual <- TwoManual
  StartMembers <- NoManual
  MaxFailures = 0
SYMMETRY Symmetry
VIEW Essential
INVARIANTS
  TypeOK
  AutoBindingsJoinApproved
  StaleBindingHasReconciler
  EndpointsAreOwn
PROPERTIES
  EveryLinkIsBound
  ImplementsAgreement
