SPECIFICATION Spec
CONSTANTS
  Requests = {q1, q2, q3}
  NoRequest = NoRequest
  Immediate = {}
  Capacity = 2
  DrainOnStop = FALSE
  FaultKinds = {"fence"}
  MaxSteps = 1
  MaxAborts = 0
  MaxUtility = 0
  MaxFaults = 1
INVARIANTS
  WaitsOnlyForGeneration
CHECK_DEADLOCK FALSE
