SPECIFICATION Spec
CONSTANTS
  Worker = {w1, w2}
  Session = {}
  MailToken = {m1}
  ResetToken = {}
  Challenge = {c1}
  Ip = {i1, i2}
  Code = {k1}
  MaxPassword = 1
  MaxSetups = 2
  MaxFailed = 2
  MAX_FAILED_ATTEMPTS = 2
  ESCALATED_LOCKOUT_THRESHOLD = 3
  SEVERE_LOCKOUT_THRESHOLD = 4
  MAX_CHALLENGE_ATTEMPTS = 2
  None = None
SYMMETRY Symmetry
INVARIANTS StageMatchesMfa LockNeedsTwoSources ActiveIffVerified
PROPERTIES ChallengeStaysOver
CHECK_DEADLOCK FALSE
