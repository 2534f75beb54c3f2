SPECIFICATION Spec
CONSTANTS
  h1 = h1
  h2 = h2
  f1 = f1
  null = null
  Own <- MCOwn
  Foreign <- NoForeign
  NoHandle <- null
  Faults = {"timeout"}
  MaxTrouble = 1
  CreateIfMissing = TRUE
  LinkCheck = TRUE
  SafetyRecheck = FALSE
  Debounce = TRUE
  WarnAfter = 2
  AttemptsMax = 1
PROPERTIES OnlineNeverHungUp
CHECK_DEADLOCK FALSE
