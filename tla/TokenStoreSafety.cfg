SPECIFICATION Spec
CONSTANTS
  t1 = t1
  t2 = t2
  t3 = t3
  h1 = h1
  h2 = h2
  c1 = c1
  c2 = c2
  Handles = {h1, h2}
  Tokens = {t1, t2, t3}
  Contexts = {c1, c2}
  TokenCtx <- MCTokenCtx
  Bindings <- MCBindings
  MaxGeneration = 6
  MaxRecords = 2
  MaxFaults = 2
  NoHandle = NoHandle
  NoToken = NoToken
  NoBinding = NoBinding
SYMMETRY Symmetry
INVARIANTS
  OnlyInsertsRefused
  SingleUse
  GrantDurable
  SettledDurable
  Reopenable
PROPERTIES
  ImplementsOneTimeToken
