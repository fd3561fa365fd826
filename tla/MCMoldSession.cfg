SPECIFICATION MCSpec
CONSTANTS
  Session = {"A", "B"}
  BlankSession = "B"
  PubSession = "A"
  SeqMax = 3
  Body = {"x", "y", "bad"}
  Decodable = {"x", "y"}
  Source <- MCSource
  Stream <- MCStream
  Datagrams <- MCDatagrams
  Repairs <- MCRepairs
  SizeOf <- MCSizeOf
  StartSeq = 1
  Mtus = {4, 8}
  Header = 2
  MaxBlock = 1
  EosBurst = 1
  Capacities = {2}
  MaxResponse = 2
  Pins = {{}}
  Starts = {1}
  Caps = {1}
  NServers = 2
  Retries = 1
  DropBound = 1
  HeartbeatBound = 1
INVARIANTS TaskWellFounded PublishedIsSource CachedBeforeSent EndIsComplete
PROPERTIES MarksTruthful ServeEnds ImplementsReceiver SourceOrder RecoveryAdvances GapSettled
CHECK_DEADLOCK FALSE
