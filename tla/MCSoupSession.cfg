SPECIFICATION MCSpec
CONSTANTS
  NMsgs = 3
  StartSeqs = {1, 2}
  Capacities = {1, 3}
  Buffers = {2}
  Warmups = {0, 1}
  Chunk = 2
  InitialSequences = {0, 1}
  MaxAttempts = 2
  CountBound = 5
INVARIANT StoredBeforeSent
PROPERTIES ReplayMeetsLive EndComplete HandedExact SessionEnds
CHECK_DEADLOCK FALSE
