SPECIFICATION Spec
CONSTANTS
  a = a
  b = b
  NoConv = NoConv
  Conv <- Both
  Batch <- Batches
  KeepTail = 1
  KeepRounds = 1
  Trigger = 4
  Target = 3
  LargeWeight = 3
  Sizes = {"large", "huge"}
  MaxReuse = 1
  MaxMade <- Lengths
  MaxSwitches = 2
  MaxMishaps = 1
CHECK_DEADLOCK FALSE
INVARIANTS WirePaired OmissionsAreCovered
 
