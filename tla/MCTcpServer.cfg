SPECIFICATION Spec
CONSTANTS
  Subscribers = {s1}
  Setups <- MCSetups
  Capacity = 2
  MaxFaults = 1
  MaxRestarts = 1
  I64Max = 3
INVARIANTS
  PersistedBeforeSeen
  NoHole
  Accounted
PROPERTIES
  ImplementsBroadcast
  Released
CHECK_DEADLOCK FALSE
