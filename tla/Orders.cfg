SPECIFICATION Spec
CONSTANTS
  Keys = {k}
  MaxOrders = 2
  Size = 2
  Faults = {"delete", "read", "list", "ack", "fills", "job"}
  MaxFaults = 2
  Overlap = FALSE
  ColdStart = FALSE
INVARIANTS TypeOK SeenIsVenueTruth ClosedIsDead OneResting KalshiFillsKept
CHECK_DEADLOCK FALSE
