SPECIFICATION Spec
CONSTANTS
  NoRequest = NoRequest
  OutputRank = r1
  Ranks = {r1, r2}
  Requests = {q1, q2}
  SpecDecode = TRUE
  MaxSteps = 2
  MaxUtility = 1
  MaxFaults = 1
INVARIANTS
  QuiescentBetween
  NoOrphanGeneration
  HealthyServes
  LifecycleInv
PROPERTIES
  AdmissionFenced
  CommitUnanimous
  PoisonFinal
  FenceSpec
CHECK_DEADLOCK FALSE
