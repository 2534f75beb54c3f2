SPECIFICATION FairSpec
CONSTANTS
  h1 = h1
  h2 = h2
  f1 = f1
  null = null
  Own <- MCOwn
  Foreign <- MCForeign
  NoHandle <- null
  Faults <- OnceFaults
  MaxTrouble = 2
INVARIANTS TypeOK NothingLeftBehind
PROPERTIES LeavesOthersAlone Ends
CHECK_DEADLOCK FALSE
