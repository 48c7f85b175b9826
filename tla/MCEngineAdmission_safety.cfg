SPECIFICATION Spec
CONSTANTS
  Requests = {q1, q2, q3}
  NoRequest = NoRequest
  Immediate = {q3}
  Capacity = 1
  DrainOnStop = FALSE
  FaultKinds = {"fence", "scheduler", "step", "utility", "worker"}
  MaxSteps = 1
  MaxAborts = 1
  MaxUtility = 0
  MaxFaults = 1
INVARIANTS
  AdmissionInv
  AnsweredOnce
  OneAtATime
  FirstComeFirstServed
  AbortHonoured
CHECK_DEADLOCK FALSE
