\* One executor, one event, no fault but the gateway's.
SPECIFICATION Spec
CONSTANTS
  Executors = {e1}
  Browsers = {b1}
  RefreshTries = 3
  PostTries = {1}
  Budgets <- Quiet
  MaxJobs = 8
INVARIANTS
  SuccessIsWritten
CHECK_DEADLOCK FALSE
