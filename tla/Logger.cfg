SPECIFICATION Spec
CONSTANTS
  t1 = t1
  t2 = t2
  t3 = t3
  Process <- MCProcess
  Thread <- MCThread
  Of <- MCOf
  LastDay = 4
  max_files = 3
  Faults = {"read_dir", "open"}
  MaxTrouble = 1
SYMMETRY Symmetry
INVARIANTS TypeOK TodayKept Bounded
PROPERTY OwnDay
