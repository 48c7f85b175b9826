SPECIFICATION Spec
CONSTANTS
  Troubles = {"inspect", "popen", "refuse", "monitor", "identity", "log", "exit", "busy", "settling"}
  MaxTroubles = 1
  MaxFaults = 1
  MaxCrashes = 1
  MaxGap = 3
INVARIANTS FaultHeld CursorBehindLatch RevokedBeforeStop StopFollowed
PROPERTY ImplementsOwned
CHECK_DEADLOCK FALSE
