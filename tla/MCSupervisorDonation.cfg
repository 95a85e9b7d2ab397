CONSTANTS
  PoolCount = 3
  BadPools = {1}
  Mining = TRUE
  DonateLevel = 1
  CycleMinutes = 3
  Minute = 2
  Second = 2
  RetryLimits = {0}
  BaseDelay = 1
  MaxDelay = 5
  RunLimits = {23}
  MaxAttempt = 6
  MaxTime = 26
SPECIFICATION Spec
PROPERTIES DonationFailureReturns
