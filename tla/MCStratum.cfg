\* Two notifications, four builds of a job and a table of two pending shares:
\* half-stored templates, evicted shares and an extranonce2 that outgrows its size.
CONSTANTS
  EnableMining = TRUE
  StopAt = FALSE
  SessionSeconds = TRUE
  SuggestDifficulty = TRUE
  Fields = 2
  PendingShares = 2
  Radix = 2
  MaxDigits = 4
  En2Buffer = 5
  Extranonces = {1, 2}
  Sizes = {1}
  Difficulties = {1, 2}
  MaxNonce = 0
  Capacity = 1
  MaxNotify = 2
  MaxCounter = 2
  MaxRolled = 3
SPECIFICATION FairSpec
INVARIANTS TypeOK JobFromOneNotify FreshJob NoDuplicateSubmit PendingExact
PROPERTIES ExhaustedJobReplaced ShareSubmitted
