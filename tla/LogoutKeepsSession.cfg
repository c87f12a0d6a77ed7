SPECIFICATION Spec
CONSTANTS
  Tab = {t1}
  Call = {c1}
  MaxSession = 2
  None = None
INVARIANT LogoutEndsSession
CHECK_DEADLOCK FALSE
