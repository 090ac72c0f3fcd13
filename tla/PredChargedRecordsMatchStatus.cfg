CONSTANTS
  c1 = c1
  c2 = c2
  i1 = i1
  i2 = i2
  w1 = w1
  w2 = w2
  Client <- MCOneClient
  Id <- MCId
  Worker <- MCWorker
  Payload = {"solve", "create"}
  MaxTries = 2
  PredCalls = 2
  SolveCalls = 1
  Allowance <- MCAllowance
SPECIFICATION Spec
INVARIANT ChargedRecordsMatchStatus
CHECK_DEADLOCK FALSE
