SPECIFICATION Spec
CONSTANTS
  Worker = {w1, w2}
  Session = {s1, s2, s3}
  MailToken = {}
  ResetToken = {r1}
  Challenge = {}
  Ip = {}
  Code = {}
  MaxPassword = 2
  MaxSetups = 0
  MaxFailed = 0
  MAX_FAILED_ATTEMPTS = 5
  ESCALATED_LOCKOUT_THRESHOLD = 8
  SEVERE_LOCKOUT_THRESHOLD = 10
  MAX_CHALLENGE_ATTEMPTS = 5
  None = None
SYMMETRY Symmetry
INVARIANTS SurvivorsStraddle RotationSpendsParent
PROPERTIES EndedFamilyStaysEnded
CHECK_DEADLOCK FALSE
