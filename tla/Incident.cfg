SPECIFICATION Spec
CONSTANTS
  Piece = {p1}
  User = {anna}
  Staff = {clerk}
  Worker = {w1, w2}
  TransferId = {}
  IncidentId = {i1, i2}
  ServiceId = {}
  None = None
SYMMETRY Symmetry
INVARIANTS OneOpenIncident ReportedHasOpenIncident
CHECK_DEADLOCK FALSE
