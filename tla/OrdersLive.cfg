SPECIFICATION PollSpec
CONSTANTS
  Keys = {k}
  MaxOrders = 2
  Size = 2
  Faults = {"delete", "list", "fills", "job"}
  MaxFaults = 1
  Overlap = FALSE
  ColdStart = TRUE
PROPERTIES EveryFillAnswered
CHECK_DEADLOCK FALSE
