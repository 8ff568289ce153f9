\* One order and three requests in one process.
SPECIFICATION FairSpec
CONSTANTS
  Nodes = {n1}
  Handlers = {h1, h2, h3}
  Locks = {l1, l2}
  NoLock = none
  NoOne = nobody
  Scenarios <- OneProcess
INVARIANTS TypeOK LockIsExclusive
PROPERTIES ImplementsOnce PaidIsCredited
CHECK_DEADLOCK FALSE
