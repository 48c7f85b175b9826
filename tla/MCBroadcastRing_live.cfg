SPECIFICATION FairSpec
CONSTANTS
  Readers = {r1, r2}
  Slots = 2
  Large = {2}
  Faults = {"reader death", "payload timeout"}
  MaxMessages = 3
  MaxFaults = 1
PROPERTIES Delivered EnqueueEnds ShutdownEnds
CHECK_DEADLOCK FALSE
