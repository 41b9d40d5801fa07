SPECIFICATION SessionSpec
CONSTANTS
  s1 = s1
  s2 = s2
  NoSession = NoSession
  Sessions = {s1}
  Q = 2
  M = 2
  MaxConnections = 2
  MaxFaults = 2
  Modes = {"native", "plain", "semi", "malicious"}
  Links = {"local", "loopback", "tcp"}
  Hooks = {"none", "oneOutput", "correlated", "reorder", "omit", "duplicate", "afterChallenge", "replayed"}
  ChunkLens = {1, 2}
  Expected = 3
  RowMajor = TRUE
  Retries = TRUE
  MaxPayload = 6
INVARIANTS
  ReturnedOutputsRight
  MsmAfterFinalize
  TokenSettled
  SpoolDeleted
  HonestOutputsAccepted
PROPERTIES
  ImplementsCommitment
CHECK_DEADLOCK FALSE
