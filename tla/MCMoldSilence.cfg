SPECIFICATION MCSpec
CONSTANTS
  Warns = {1, 2}
  Deads = {1, 3}
  MaxBatch = 2
  IdleBound = 9
  FireBound = 2
  SocketBound = 2
INVARIANTS SilentOnce ParkedIsArmed
PROPERTIES SilentIsTrue SilenceReported
