SPECIFICATION FairSpec
CONSTANTS
  Request = {r1, r2, r3}
  None = None
INVARIANTS ReplayIsReal TwiceHasACause SlotInv
PROPERTIES StoredStays RetryIsAnswered
CHECK_DEADLOCK FALSE
