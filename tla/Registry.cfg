SPECIFICATION Spec
CONSTANTS
  Worker = {w1, w2}
  Piece = {p1}
  QrCode = {q1, q2, q3, q4, q5}
  Certificate = {c1}
  FirstYear = 2026
  LastYear = 2027
  MaxNumber = 2
  None = None
SYMMETRY Symmetry
INVARIANTS CounterAccounts SerialsApart AlwaysACode CodesBounded
CHECK_DEADLOCK FALSE
