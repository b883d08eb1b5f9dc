CONSTANTS
  Sidecar = {s1, s2}
  Command = {c2}
  Service = {v1}
  Deadline = {v1}
  Fault = {"wedged"}
  Boot = Boot
  None = None
  MaxFailures = 2
  MaxFaults = 1
  MaxStops = 0
SPECIFICATION FairSpec
PROPERTIES StartEnds CallsSettle 
CHECK_DEADLOCK FALSE
