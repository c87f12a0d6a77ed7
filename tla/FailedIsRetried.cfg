SPECIFICATION FairSpec
CONSTANTS
  MaxDeliveries = 2
  Ticker = {t1}
  Caller = {c1}
  MaxFailures = 2
  MaxAttempts = 2
  Batch = 2
  MaxCrashes = 0
  MaxUpdates = 0
PROPERTIES DueIsAttempted
CHECK_DEADLOCK FALSE
