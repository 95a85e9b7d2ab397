\* Three pools, the second with an invalid url; with and without limits.
CONSTANTS
  PoolCount = 3
  BadPools = {1}
  Mining = TRUE
  DonateLevel = 1
  CycleMinutes = 3
  Minute = 2
  Second = 2
  RetryLimits <- MCRetryLimits
  BaseDelay = 1
  MaxDelay = 5
  RunLimits = {0, 23}
  MaxAttempt = 6
  MaxTime = 26
SPECIFICATION FairSpec
INVARIANTS LoopSound DonationShare
PROPERTIES NoOversleep Reconnects
