SPECIFICATION InstallSpec
CONSTANTS
  Faults = {"event", "register", "exe_dir", "spawn", "worker", "crash",
            "create", "recovery", "source", "open", "start", "control", "query",
            "delete", "unregister", "kill", "reboot"}
  MaxTrouble = 1
  CheckpointMax = 3
  Console <- MCConsole
  Allowed <- MCAllowed
  Files <- MCFiles
INVARIANTS InstallTypeOK StopSticks StoppedMeansIdle EndIsReported SignalsOpenEvent NoGhostDialler
PROPERTIES OrderedUnlessFailed CompleteInstall StopEndsInStopped RemovalTakesEffect CommandsEnd
CHECK_DEADLOCK FALSE
