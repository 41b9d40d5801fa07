SPECIFICATION SessionSpec
CONSTANTS
  s1 = s1
  s2 = s2
  NoSession = NoSession
  Sessions = {s1}
  Q = 2
  M = 2
  MaxConnections = 1
  MaxFaults = 0
  Modes = {"malicious"}
  Links = {"local", "tcp"}
  Hooks = {"none"}
  ChunkLens = {1, 2}
  Expected = 4
  RowMajor = FALSE
  Retries = FALSE
  MaxPayload = 4
INVARIANTS
  HonestOutputsAccepted
CHECK_DEADLOCK FALSE
