SPECIFICATION TrafficSpec
CONSTANTS
  s1 = s1
  s2 = s2
  NoSession = NoSession
  Sessions = {s1, s2}
  Q = 2
  M = 2
  MaxConnections = 2
  MaxFaults = 1
  Total = 3
SYMMETRY Symmetry
INVARIANTS
  MsmAfterCompleteRequest
  MetricsMatchAnswer
CHECK_DEADLOCK FALSE
