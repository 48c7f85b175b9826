SPECIFICATION FairSpec
CONSTANTS
  NoRequest = NoRequest
  OutputRank = r1
  Ranks = {r1, r2}
  Requests = {q1}
  SpecDecode = TRUE
  MaxSteps = 1
  MaxUtility = 0
  MaxFaults = 1
PROPERTIES
  PoisonReported
CHECK_DEADLOCK FALSE
