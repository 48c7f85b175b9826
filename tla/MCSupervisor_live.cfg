SPECIFICATION FairSpec
CONSTANTS
  Troubles = {"inspect", "refuse", "monitor", "exit"}
  MaxTroubles = 1
  MaxFaults = 1
  MaxCrashes = 0
  MaxGap = 1
INVARIANT ReceiptFollowsIncident
PROPERTIES StopCompletes LostStopRetried FaultLatched
CHECK_DEADLOCK FALSE
