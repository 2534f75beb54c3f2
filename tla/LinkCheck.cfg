SPECIFICATION Spec
CONSTANTS
  Adapters <- MCAdapters
  Rows = 3
INVARIANTS TypeOK UpMeansCable RealCardNotMasked
PROPERTY Monotone
