CONSTANTS
  SrcCfg = {a1, a2}
  TgtCfg = {b1, b2, b3}
  Value <- MCValue
  Infeasible = Infeasible
SPECIFICATION Spec
INVARIANTS
  AcceptedIsReal
  ExposedIsAccepted
CHECK_DEADLOCK FALSE
