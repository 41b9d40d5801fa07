SPECIFICATION BatchSpec
CONSTANTS
  Ids = {t1, t2, t3}
  Contexts = {c1, c2}
  Preparers = {p1}
  Loaders = {l1, l2}
  BatchSizes = {1, 2}
  NoManifest = NoManifest
  Empty = Empty
  Torn = Torn
  MaxFaults = 2
SYMMETRY BatchSymmetry
INVARIANTS
  UsedTokensPublished
  LiveTokensListed
  PublishedTokensLoadable
  OneLiveBatch
CHECK_DEADLOCK FALSE
