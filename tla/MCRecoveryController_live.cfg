SPECIFICATION FairSpec
CONSTANTS
  Evidences = {"tp", "stall", "slow", "hardware", "reboot", "supervisor"}
  MaxStarts = 2
  MaxFaults = 2
  MaxFailures = 1
  MaxCrashes = 1
PROPERTIES KillsOwner  RecoveryEnds
CHECK_DEADLOCK FALSE
