SPECIFICATION Spec
CONSTANTS
  Requests = {"r1"}
  NonceModulus = 12
  Interval = 3
  MaxOpen = 2
  Starts = {0, 2, 5, 8}
  Lossy = TRUE
  MaxCopies = 1
  MaxOutages = 2
CHECK_DEADLOCK FALSE
INVARIANTS NonceSaved
PROPERTIES FreshOnly
