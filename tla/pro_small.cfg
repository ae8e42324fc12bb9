SPECIFICATION FairSpec
CONSTANTS
  Below = 1
  Above = 2
  IdSpace = 4
  IdModulus = 64
  Protocol = "small"
  Types = {"ADD", "SET", "EXTENDED", "WIPE", "QC_TEST"}
  Ids = {0, 1, 3}
  QcShortMax = 0
  QcLongMax = 1
  MaxOutages = 1
INVARIANTS KeycodesSound
PROPERTIES FrameResolved
