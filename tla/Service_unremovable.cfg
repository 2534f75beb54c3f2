SPECIFICATION InstallSpec
CONSTANTS
  Faults = {}
  MaxTrouble = 0
  CheckpointMax = 3
  Console <- MCConsole
  Allowed <- MCAllowed
  Files <- MCAnyFiles
INVARIANT RemovableWhateverTheFile
CHECK_DEADLOCK FALSE
