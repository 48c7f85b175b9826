SPECIFICATION FairSpec
CONSTANTS
  NoRequest = NoRequest
  OutputRank = r1
  Ranks = {r1, r2}
  Requests = {q1, q2}
  SpecDecode = TRUE
  MaxSteps = 1
  MaxUtility = 1
  MaxFaults = 1
PROPERTIES
  GenerationEnds
  DeathReported
CHECK_DEADLOCK FALSE
