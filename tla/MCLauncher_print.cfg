SPECIFICATION Spec
CONSTANTS
  Procs = {p1}
  Ports = {a}
  None = None
  Empty = Empty
  Garbled = Garbled
  Beginnings <- Machines
  MaxIssued = 1
  Manners = {}
  MaxRuns = 1
INVARIANTS
  SuccessReported
CHECK_DEADLOCK FALSE
