SPECIFICATION Spec
CONSTANTS
  Procs = {p1, p2}
  Ports = {a}
  None = None
  Empty = Empty
  Garbled = Garbled
  Beginnings <- Machines
  MaxIssued = 2
  Manners = {"silent"}
  MaxRuns = 2
INVARIANTS
  WholeUnlessRaced
  PrivateUnlessPortTaken
  PrivatePortNotSaved
PROPERTIES
  ReauthReplacesToken
  Settles
CHECK_DEADLOCK FALSE
