\* One order and two requests in two processes.
SPECIFICATION Spec
CONSTANTS
  Nodes = {n1, n2}
  Handlers = {h1, h2}
  Locks = {l1, l2}
  NoLock = none
  NoOne = nobody
  Scenarios <- TwoProcesses
INVARIANTS CreditedOnce
