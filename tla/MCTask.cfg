\* One task in every scenario, polled by two nodes and fetched by one user.
SPECIFICATION FairSpec
CONSTANTS
  Nodes = {n1, n2}
  Fetchers = {f1}
  Scenarios <- AllScenarios
  Quota = 2
  Actuals = {1, 4}
  SubFree = 1
INVARIANTS
  TypeOK
  NoDoubleRefund
  OutcomeBilled
PROPERTIES
  FinalIsFinal
  TaskEnds
