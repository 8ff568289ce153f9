\* One token on two nodes, used by two requests for ever, and deleted.
SPECIFICATION FairSpec
CONSTANTS
  Nodes = {n1, n2}
  Requests = {r1, r2}
  Scenarios <- AllScenarios
  StartQuota = 2
INVARIANTS
  TypeOK
  DeltasBooked
  DeleteIsImmediate
PROPERTIES
  DeletedIsForgotten
