SPECIFICATION FairRunSpec
CONSTANTS
  t1 = t1
  t2 = t2
  h1 = h1
  h2 = h2
  c1 = c1
  Handles = {h1, h2}
  Tokens = {t1, t2}
  Contexts = {c1}
  TokenCtx <- MCTokenCtx
  Bindings <- MCBindings
  MaxGeneration = 6
  MaxRecords = 2
  MaxFaults = 1
  NoHandle = NoHandle
  NoToken = NoToken
  NoBinding = NoBinding
INVARIANTS
  ProofNeedsSpentToken
  NoForgottenReservation
  ExclusiveAttempts
PROPERTIES
  ReservationsResolved
  AttemptsEnd
