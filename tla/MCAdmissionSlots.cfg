\* Two requests share one channel and its one account; every plan, one plain
\* retry, under fairness.
SPECIFICATION FairSpec
CONSTANTS
  Requests = {r1, r2}
  Channels = {c1}
  Accounts = {a1}
  Pool = pool
  Groups = {"std"}
  Plans <- AllPlans
  Limit = 2
  AccountLimit = 1
  MaxDepth = 1
  PoolMaxDepth = 1
  HighPriorityGroups = {}
  HighPriorityThreshold = 0
  HighPriorityExtraDepth = 0
  HighPriorityReservedDepth = 0
  AbsoluteMaxDepth = 0
  RetryTimes = 1
  Faults = {"panic"}
INVARIANTS TypeOK ActiveIsHeld ReservedBacked NothingLeftBehind
PROPERTY Termination
