CONSTANTS
  c1 = c1
  c2 = c2
  i1 = i1
  i2 = i2
  i3 = i3
  Client <- MCClient
  Id <- MCId
  Payload = {"good", "client_error", "status"}
  MaxTries = 2
  Limit = 2
SYMMETRY ClientIdSymmetry
SPECIFICATION Spec
INVARIANTS
  TypeOK
  LedgerMatchesResponses
  ToldTheTruth
PROPERTY ImplementsJudge
CHECK_DEADLOCK FALSE
