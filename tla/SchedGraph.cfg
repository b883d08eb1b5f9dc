SPECIFICATION Spec
CONSTANTS
  a = a
  b = b
  c = c
  NoTask = NoTask
  Task <- Trio
  Class <- OneClass
  ClassOf <- TrioClass
  Limit <- OnePermit
  PriorityOf <- TrioFlat
  ParentOf <- TrioTree
  DependsOn <- TrioChain
  MaxAttempts <- TrioRetryA
  Timed <- OnlyA
  Pausable <- Nobody
  MayPanic <- OnlyA
  Awaited <- Trio
  ResumeBound = 0
CHECK_DEADLOCK FALSE
INVARIANTS TypeOK PermitConservation NoStrandedTask AnswerIsOutcome
PROPERTIES FollowsLifecycle
