CONSTANTS
  c1 = c1
  c2 = c2
  c3 = c3
  Call = {c1, c2, c3}
  Kinds = {"solve", "submit"}
  Generations = 2
  Actions = 1
  PredCalls = 1
  SolveCalls = 1
  Allowance <- MCAllowance
SPECIFICATION FairSpec
INVARIANTS
  TypeOK
  QuietLedgerAccepted
  OwnPartsAlwaysAccepted
PROPERTY PhaseEnds
CHECK_DEADLOCK FALSE
