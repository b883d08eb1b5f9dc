SPECIFICATION Spec
CONSTANTS
  MaxJobs = 2
  Slots = 1
  Key = {k1}
  NoKey = NoKey
  Caller = {c1}
  Wanted <- MCWanted
INVARIANTS BodiesWithinSlots DeliveredOnce
PROPERTIES JoinIsComplete JoinIsWoken CancelSettlesAll
CHECK_DEADLOCK FALSE
