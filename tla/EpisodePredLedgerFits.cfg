CONSTANTS
  c1 = c1
  c2 = c2
  c3 = c3
  c4 = c4
  Call = {c1, c2, c3, c4}
  Kinds = {"pred"}
  Generations = 2
  Actions = 2
  PredCalls = 4
  SolveCalls = 1
  Allowance <- MCAllowance
SYMMETRY Symmetry
SPECIFICATION Spec
INVARIANT PredLedgerFits
CHECK_DEADLOCK FALSE
