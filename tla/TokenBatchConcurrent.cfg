SPECIFICATION BatchSpec
CONSTANTS
  Ids = {t1, t2}
  Contexts = {c1, c2}
  Preparers = {p1, p2}
  Loaders = {}
  BatchSizes = {1}
  NoManifest = NoManifest
  Empty = Empty
  Torn = Torn
  MaxFaults = 0
SYMMETRY BatchSymmetry
INVARIANTS
  OneLiveBatch
CHECK_DEADLOCK FALSE
