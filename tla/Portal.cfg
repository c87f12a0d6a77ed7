SPECIFICATION Spec
CONSTANTS
  Viewer = {"CUSTOMER", "STAFF"}
  Kind = {"piece", "transfer", "certificate", "service", "notice", "incident"}
  Call = {c1, c2}
  MaxPieceCalls = 1
  PlainKind = {"notice", "certificate"}
  Nothing = Nothing
SYMMETRY Symmetry
INVARIANTS TypeOK NothingHangs
PROPERTIES RefusalsExplained
CHECK_DEADLOCK FALSE
