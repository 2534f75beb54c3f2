SPECIFICATION FairSpec
CONSTANTS
  h1 = h1
  h2 = h2
  f1 = f1
  null = null
  Own <- OneOwn
  Foreign <- NoForeign
  NoHandle <- null
  Faults <- StopFaults
  MaxTrouble = 2
  CreateIfMissing = TRUE
  LinkCheck = TRUE
  SafetyRecheck = FALSE
  Debounce = TRUE
  WarnAfter = 2
  AttemptsMax = 1
INVARIANTS FailedDialLetGo
PROPERTIES StopCompletes KeepsPromises
CHECK_DEADLOCK FALSE
