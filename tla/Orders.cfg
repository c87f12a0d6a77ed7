SPECIFICATION FairSpec
CONSTANTS
  Piece = {p1}
  User = {anna}
  Staff = {clerk}
  Worker = {w1, w2}
  TransferId = {t1}
  IncidentId = {}
  ServiceId = {s1}
  None = None
PROPERTIES OrderSettledOnce EveryRequestAnswered
CHECK_DEADLOCK FALSE
