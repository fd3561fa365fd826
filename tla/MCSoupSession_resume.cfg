SPECIFICATION MCSpec
CONSTANTS
  NMsgs = 3
  StartSeqs = {1}
  Capacities = {1, 3}
  Buffers = {2}
  Warmups = {0, 1}
  Chunk = 2
  InitialSequences = {0, 1}
  MaxAttempts = 2
  CountBound = 5
CHECK_DEADLOCK FALSE
PROPERTY ResumeExact
