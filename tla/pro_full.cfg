SPECIFICATION Spec
CONSTANTS
  Below = 1
  Above = 2
  IdSpace = 4
  IdModulus = 64
  Protocol = "full"
  Types = {"ADD", "SET", "WIPE", "DEMO", "QC_TEST", "ALLOW_TEST", "DEVICE_ID_DISPLAY", "DEVICE_ID_CONFIRMATION", "PASSTHROUGH", "GARBLED"}
  Ids = {0, 1, 3, 4}
  QcShortMax = 1
  QcLongMax = 0
  MaxOutages = 1
INVARIANTS TypeOK AtMostOnce NoFalseDuplicate NoSilentLoss StoredPersisted QcLimitPerEpoch
PROPERTIES NoStaleApply
