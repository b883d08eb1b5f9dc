SPECIFICATION Spec
CONSTANTS
  Clockface <- Steady
  Hours = 2
  Minutes = 1
  DaysInMonth = 3
  DaysInWeek = 2
  Fine = 2
  Trigger = {t1}
  None = None
  Expression <- Schedules
  TickMs = 2
  GraceMs = 1
  BackfillCap = 2
  Horizon = 12
  MaxEdits = 2
  MaxCrashes = 1
INVARIANTS WalkIsExact NoFireTwice
PROPERTIES OnTimeRuns
CHECK_DEADLOCK FALSE
