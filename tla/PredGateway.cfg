CONSTANTS
  c1 = c1
  c2 = c2
  i1 = i1
  i2 = i2
  w1 = w1
  w2 = w2
  Client <- MCClient
  Id <- MCId
  Worker <- MCWorker
  Payload = {"solve", "malformed"}
  MaxTries = 1
  PredCalls = 2
  SolveCalls = 1
  Allowance <- MCAllowance
SYMMETRY GatewaySymmetry
SPECIFICATION Spec
INVARIANTS
  NoReservationLeaks
  ReleaseNeverRaises
  CompleteAtClose
PROPERTIES
  KeptIsFinal
  ImplementsMeter
CHECK_DEADLOCK FALSE
