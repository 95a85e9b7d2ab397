\* One notification and two difficulties.
CONSTANTS
  EnableMining = TRUE
  StopAt = TRUE
  SessionSeconds = FALSE
  SuggestDifficulty = TRUE
  Fields = 2
  PendingShares = 2
  Radix = 2
  MaxDigits = 4
  En2Buffer = 5
  Extranonces = {1}
  Sizes = {1}
  Difficulties = {1, 2}
  MaxNonce = 0
  Capacity = 1
  MaxNotify = 1
  MaxCounter = 2
  MaxRolled = 2
SPECIFICATION Spec
INVARIANTS DifficultyAppliesToNextNotify
