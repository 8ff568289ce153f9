SPECIFICATION Spec
CONSTANTS
  Requests = {r1}
  Quotas = {0, 1, 3}
  Preferences = {"wallet_only", "wallet_first", "subscription_only", "subscription_first"}
  InitWallet = 4
  InitToken = 4
  SubTotal = 2
  TrustQuota = 3
  TokenUnlimited = FALSE
  MaxAttempts = 2
  MaxPeriods = 1
  Faults = {"mark"}
INVARIANTS
  SubRefundIdempotent
