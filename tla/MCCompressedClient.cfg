SPECIFICATION CompressedSpec
CONSTANTS
  NMsgs = 5
  MaxDecompressed = 2
  MaxAttempts = 2
  MaxFaults = 3
INVARIANTS
  ExactWhileClean
  NothingSkipped
PROPERTIES
  AllSettled
CHECK_DEADLOCK FALSE
