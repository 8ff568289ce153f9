SPECIFICATION Spec
CONSTANTS
  Requests = {r1, r2}
  Quotas = {1, 2}
  Preferences = {"wallet_first", "subscription_first"}
  InitWallet = 1
  InitToken = 3
  SubTotal = 2
  TrustQuota = 0
  TokenUnlimited = FALSE
  MaxAttempts = 1
  MaxPeriods = 1
  Faults = {"crash"}
SYMMETRY RequestSymmetry
INVARIANTS
  ExactCharge
  SubUsageBacked
  OverdraftNeedsRace
