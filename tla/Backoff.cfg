SPECIFICATION Spec
CONSTANTS
  Seconds <- MCSeconds
  U64Max = 20
  U32Max = 11
  ShiftMax = 3
  Floor = 6
  Millis = 1
INVARIANTS TypeOK FollowsSeries DelayBounded SleepMatchesDelay
PROPERTY StartsOver
