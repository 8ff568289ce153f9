\* Four requests on one slot: one waiter of each class and one more.
SPECIFICATION Spec
CONSTANTS
  Requests = {r1, r2, r3, r4}
  Channels = {c1}
  Accounts = {}
  Pool = pool
  Groups = {"std", "vip"}
  Plans <- QueuePlans
  Limit = 1
  AccountLimit = 1
  MaxDepth = 2
  PoolMaxDepth = 1
  HighPriorityGroups = {"vip"}
  HighPriorityThreshold = 1
  HighPriorityExtraDepth = 1
  HighPriorityReservedDepth = 1
  AbsoluteMaxDepth = 3
  RetryTimes = 0
  Faults = {}
SYMMETRY RequestSymmetry
INVARIANTS HoldersWithinLimit QueueDepthsAgree QueueBounds
PROPERTY NoOvertaking
