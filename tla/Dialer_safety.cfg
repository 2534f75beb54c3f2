SPECIFICATION Spec
CONSTANTS
  h1 = h1
  h2 = h2
  f1 = f1
  null = null
  Own <- MCOwn
  Foreign <- MCForeign
  NoHandle <- null
  Faults <- AllFaults
  MaxTrouble = 2
  CreateIfMissing = TRUE
  LinkCheck = TRUE
  SafetyRecheck = FALSE
  Debounce = TRUE
  WarnAfter = 2
  AttemptsMax = 1
SYMMETRY Symmetry
INVARIANTS TypeOK NoLostWakeup WatchdogConfined CallbackNeverDangles
PROPERTIES Implements OtherEntriesUntouched TearsDownOnlyWhileDialling
CHECK_DEADLOCK FALSE
