SPECIFICATION FairSessionSpec
CONSTANTS
  s1 = s1
  s2 = s2
  NoSession = NoSession
  Sessions = {s1, s2}
  Q = 1
  M = 2
  MaxConnections = 2
  MaxFaults = 1
  Modes = {"semi"}
  Links = {"tcp"}
  Hooks = {"none"}
  ChunkLens = {2}
  Expected = 1
  RowMajor = TRUE
  Retries = FALSE
  MaxPayload = 0
PROPERTIES
  QueuedConnectionsEnd
  SessionsEnd
CHECK_DEADLOCK FALSE
