SPECIFICATION SourceSpec
CONSTANTS
  a1 = a1
  a2 = a2
  p1 = p1
  s1 = s1
  s2 = s2
  P = 17
  W = 3
  Rounds = 2
  RoundConstant <- MCRoundConstant
  Audits = {a1, a2}
  Measurements = {a1, a2}
  Proofs = {p1}
  NonceOf <- MCNonceOf
  Workloads <- MCWorkloads
  FirstId = 2
  MerkleDomain = 6
  Torn = Torn
  MaxFiles = 2
  MaxFaults = 1
SYMMETRY SourceSymmetry
INVARIANTS
  RecordsAuthored
  ReplayedAsWanted
  PublishedWhole
  TemporariesOwned
CHECK_DEADLOCK FALSE
