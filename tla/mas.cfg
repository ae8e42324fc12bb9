SPECIFICATION FairSpec
CONSTANTS
  Digits = {"a"}
  MaxLength = 2
  StopLengths = {2, 255}
  BucketMax = 3
  InitialCount = 2
  Refill = 2
  Timeout = 2
  Preemptive = TRUE
  Steps = {0, 1, 2}
  MaxUptime = 5
  MaxTyped = 3
  MaxFinished = 3
  MaxOutages = 1
INVARIANTS TypeOK RateBound PowerCycleGain EntryTimely
PROPERTIES OnlyIdleEntriesExpire HandedOver
