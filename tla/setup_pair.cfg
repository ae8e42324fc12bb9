SPECIFICATION FairSpec
CONSTANTS
  Devices = {"c1", "a1"}
  Commands <- OnePair
  MaxHandshakes = 1
  Retry = 1
  HsTimeout = 2
  OmBelow = 1
  OmAbove = 1
  HsBelow = 1
  HsAbove = 2
  Steps = {1}
  MaxLinks = 1
  LinkTimeout = 1
  AgeCap = 0
  MaxOutages = 2
CHECK_DEADLOCK FALSE
INVARIANTS TypeOK FlaggedIffApplied TableAsRequested
PROPERTIES Settles ContractHolds
