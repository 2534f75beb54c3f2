SPECIFICATION FairSpec
CONSTANTS
  h1 = h1
  h2 = h2
  f1 = f1
  null = null
  Own <- MCOwn
  Foreign <- NoForeign
  NoHandle <- null
  Faults <- AllFaults
  MaxTrouble = 1
  CreateIfMissing = TRUE
  LinkCheck = TRUE
  SafetyRecheck = FALSE
  Debounce = TRUE
  WarnAfter = 2
  AttemptsMax = 1
PROPERTIES StaysOnline
CHECK_DEADLOCK FALSE
