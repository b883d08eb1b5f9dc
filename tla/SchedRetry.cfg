SPECIFICATION Spec
CONSTANTS
  a = a
  b = b
  c = c
  NoTask = NoTask
  Task <- Trio
  Class <- TwoClasses
  ClassOf <- SplitClass
  Limit <- OneOfEach
  PriorityOf <- TrioMixed
  ParentOf <- TrioNoParent
  DependsOn <- TrioNoDeps
  MaxAttempts <- TrioRetryA
  Timed <- Nobody
  Pausable <- OnlyA
  MayPanic <- Nobody
  Awaited <- Nobody
  ResumeBound = 3
CHECK_DEADLOCK FALSE
INVARIANTS OneAttempt AttemptsBounded NoLostWakeup
PROPERTIES NoResurrection OvertakenOnlyByRelease
