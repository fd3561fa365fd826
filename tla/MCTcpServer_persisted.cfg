SPECIFICATION Spec
CONSTANTS
  Subscribers = {s1}
  Setups <- MCSetupsPostgres
  Capacity = 2
  MaxFaults = 1
  MaxRestarts = 1
  I64Max = 3
INVARIANTS
  Persisted
CHECK_DEADLOCK FALSE
