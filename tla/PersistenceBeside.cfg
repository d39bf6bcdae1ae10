SPECIFICATION Spec
CONSTANTS
  n1 = n1
  n2 = n2
  manual = manual
  auto = auto
  None = None
  Empty = Empty
  Torn = Torn
  Node <- Nodes
  Binding <- TwoBindings
  AutoBindings <- AutoOnes
  Ends <- EndsOf
  Beside = TRUE
  MaxCrashes = 0
  MaxFaults = 0
INVARIANT SavedIsThere
