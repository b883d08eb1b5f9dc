SPECIFICATION Spec
CONSTANTS
  a = a
  b = b
  NoTask = NoTask
  Task <- Pair
  MaxAttempts = 2
  MaxMishaps = 3
  Faults <- AllFaults
  Tears <- WholeChars
SYMMETRY PairSymmetry
CHECK_DEADLOCK FALSE
INVARIANTS BegunNeverResumable BegunIsFound
PROPERTIES ToldOnce
