CONSTANTS
  Sidecar = {s1, s2}
  Command = {c1}
  Service = {v1}
  Deadline = {v1}
  Fault = {"throws", "absent", "refuses", "bad"}
  Boot = Boot
  None = None
  MaxFailures = 2
  MaxFaults = 1
  MaxStops = 1
SPECIFICATION Spec
SYMMETRY Alike
INVARIANTS RunsOnce NoOrphan ListedServiceIsReal StartsAreBounded
CHECK_DEADLOCK FALSE
