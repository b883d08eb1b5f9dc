SPECIFICATION EndingSpec
CONSTANTS
  a = a
  b = b
  c = c
  NoTask = NoTask
  Task <- Pair
  Class <- OneClass
  ClassOf <- PairClass
  Limit <- OnePermit
  PriorityOf <- PairFlat
  ParentOf <- PairTree
  DependsOn <- PairChain
  MaxAttempts <- PairRetryA
  Timed <- OnlyA
  Pausable <- OnlyB
  MayPanic <- Nobody
  Awaited <- Pair
  ResumeBound = 4
CHECK_DEADLOCK FALSE
INVARIANTS SettledMeansOver
PROPERTIES CallersAnswered
