\* Two executors and a browser worker recover one account.
SPECIFICATION FairSpec
CONSTANTS
  Executors = {e1, e2}
  Browsers = {b1}
  RefreshTries = 2
  PostTries = {1}
  Budgets <- AllBudgets
  MaxJobs = 6
INVARIANTS
  TypeOK
  OneActiveJob
  SuccessHasResult
PROPERTIES
  FinishedStays
  JobEnds
CHECK_DEADLOCK FALSE
