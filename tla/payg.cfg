SPECIFICATION Spec
CONSTANTS
  Accessories = {a1, a2, a3}
  Controller = k
  MaxLinks = 3
  Interval = 1
  Cycle = 4
  FollowerMax = 12
  IdleTime = 2
  MaxCredit = 1
  MaxFaults = 1
  MaxChanges = 4
CHECK_DEADLOCK FALSE
SYMMETRY AccessoryNames
INVARIANTS NoneStarved CreditFollowsController
