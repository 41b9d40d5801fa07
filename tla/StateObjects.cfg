SPECIFICATION StateSpec
CONSTANTS
  s1 = s1
  s2 = s2
  a = a
  b = b
  None = None
  Stores = {s1, s2}
  Objects = {a}
  ChunkSize = 2
  Logical = 3
  MaxBytes = 3
  FullChunks = TRUE
  Retries = TRUE
  MaxNonce = 4
  MaxFaults = 1
INVARIANTS
  ScansRight
  SealedReadable
  DiskWithinBudget
  CleanedMeansGone
SYMMETRY Symmetry
CHECK_DEADLOCK FALSE
