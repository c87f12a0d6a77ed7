SPECIFICATION Spec
CONSTANTS
  Tab = {t1, t2}
  Call = {c1, c2}
  MaxSession = 2
  None = None
SYMMETRY Symmetry
INVARIANTS AtMostOnce RecoveryWorks ReuseHasCause
CHECK_DEADLOCK FALSE
