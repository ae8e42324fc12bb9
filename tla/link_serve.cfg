SPECIFICATION FairSpec
CONSTANTS
  Requests = {"r1", "r2"}
  NonceModulus = 6
  Interval = 2
  MaxOpen = 2
  Starts = {0, 1}
  Lossy = FALSE
  MaxCopies = 0
  MaxOutages = 1
CHECK_DEADLOCK FALSE
INVARIANTS TypeOK OneExecution
PROPERTIES Quiesces Served
