SPECIFICATION FairSpec
CONSTANTS
  T1 = T1
  T2 = T2
  J1 = J1
  J2 = J2
  J3 = J3
  W1 = W1
  W2 = W2
  W3 = W3
  NoWorker = NoWorker
  NoJob = NoJob
  Jobs = {J1}
  Workers = {W1, W2}
  Tenants = {T1}
  TenantOf <- SameTenant
  Priority <- FirstIsUrgent
  MaxAttempts <- TwoAttempts
  Quota <- QuotaOne
  Concurrency = 2
  MaxFaults = 1
  MaxStalls = 1
  MaxRetries = 0
PROPERTIES
  JobsSettle
\* Nothing is left to do once every job is settled and every incarnation spent.
CHECK_DEADLOCK FALSE
