SPECIFICATION Spec
CONSTANTS
  Readers = {r1, r2}
  Slots = 3
  Large = {2, 5}
  Faults = {"write timeout", "write raises", "read raises", "read timeout",
    "reader death", "writer death"}
  MaxMessages = 5
  MaxFaults = 1
SYMMETRY Symmetry
INVARIANTS RingInv NoTornRead InOrder
PROPERTY ImplementsQueue
CHECK_DEADLOCK FALSE
