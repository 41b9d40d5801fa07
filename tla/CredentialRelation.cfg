SPECIFICATION RelationSpec
CONSTANTS
  P = 17
  W = 3
  Rounds = 2
  RoundConstant <- MCRoundConstant
  Builds <- MCBuilds
  Domain <- MCDomain
  Age = 3
  MinAge = 2
  MaxAge = 5
  Expiry = 6
  Today = 4
  LateDay = 7
  FirstRid = 2
  Nonce = 5
  RootEpoch = 6
  FieldChoices <- MCFieldChoices
  DisclosedChoices = {0}
  SiblingChoices = {0, 9}
  PaddedSizes = {64, 3000, 4096}
  MaxLog = 12
INVARIANTS
  SatisfiedMeansTrue
  AuditVerdicts
CHECK_DEADLOCK FALSE
