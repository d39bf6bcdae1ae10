SPECIFICATION Spec
CONSTANTS
  MaxLen = 3
  Key <- Keys
  Address <- Addresses
  Start <- Open
  MaxCrashes = 1
PROPERTY
  EndpointTakesEffect
CHECK_DEADLOCK FALSE
