SPECIFICATION Spec
CONSTANTS
  Piece = {p1}
  User = {anna, bea, carl}
  Staff = {clerk}
  Worker = {w1, w2}
  TransferId = {t1, t2}
  IncidentId = {}
  ServiceId = {}
  None = None
SYMMETRY Symmetry
INVARIANTS ProvenanceChain AcceptedIsRecorded ClaimSpentIffOwned TitleInv
PROPERTIES HistoryAppendOnly SettledIsFinal ImplementsRegistry
CHECK_DEADLOCK FALSE
