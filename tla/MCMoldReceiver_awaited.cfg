SPECIFICATION MCSpec
CONSTANTS
  Session = {"A", "B"}
  BlankSession = "B"
  SeqMax = 5
  Body <- MCBody
  Decodable <- MCDecodable
  Stream <- MCStream
  Datagrams <- MCDatagrams
  Repairs <- MCRepairs
  Pins <- MCPins
  Starts = {0, 1}
  Caps = {0, 1, 2}
  DropBound = 4
  OutboxBound = 6
INVARIANT AwaitedNotHeld
CHECK_DEADLOCK FALSE
