SPECIFICATION ApplySpec
CONSTANTS
  MaxLen = 4
  MaxSections = 3
  Key <- Keys
  Address <- Addresses
  Start <- Closed
  UciStart <- Configs
  MaxCrashes = 1
INVARIANTS
  TypeOK
  RepeatChangesNothing
  OldIsKept
  AppliedIsInEffect
  HalvesAreFailures
PROPERTY
  EndpointTakesEffect
