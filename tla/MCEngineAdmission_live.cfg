SPECIFICATION FairSpec
CONSTANTS
  Requests = {q1, q2}
  NoRequest = NoRequest
  Immediate = {}
  Capacity = 1
  DrainOnStop = TRUE
  FaultKinds = {"scheduler", "step", "utility", "worker"}
  MaxSteps = 1
  MaxAborts = 1
  MaxUtility = 1
  MaxFaults = 1
PROPERTIES
  AddsAnswered
  ShutdownEnds
CHECK_DEADLOCK FALSE
