SPECIFICATION FairSpec
CONSTANTS
  MaxDeliveries = 3
  Ticker = {t1}
  Caller = {c1}
  MaxFailures = 3
  MaxAttempts = 2
  Batch = 2
  MaxCrashes = 1
  MaxUpdates = 1
INVARIANTS OneSender PostsAreCounted DeliveryInv
PROPERTIES ImplementsOutbox OnlyFailuresStarve StaysQuiet
CHECK_DEADLOCK FALSE
