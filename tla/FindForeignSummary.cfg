SPECIFICATION Spec
CONSTANTS
  a = a
  b = b
  NoConv = NoConv
  Conv <- Both
  Batch <- NoBatch
  KeepTail = 1
  KeepRounds = 1
  Trigger = 2
  Target = 2
  LargeWeight = 3
  Sizes = {"large", "huge"}
  MaxReuse = 1
  MaxMade <- Short
  MaxSwitches = 2
  MaxMishaps = 0
CHECK_DEADLOCK FALSE
INVARIANTS SummaryIsFaithful
