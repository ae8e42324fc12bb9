SPECIFICATION Spec
CONSTANTS
  Below = 1
  Above = 2
  IdSpace = 4
  IdModulus = 64
  Protocol = "full"
  Types = {"ADD"}
  Ids = {1, 3, 4}
  QcShortMax = 0
  QcLongMax = 0
  MaxOutages = 1
INVARIANTS NeverTwice
