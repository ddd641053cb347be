SPECIFICATION Spec
CONSTANTS
  T1 = T1
  T2 = T2
  J1 = J1
  J2 = J2
  J3 = J3
  W1 = W1
  W2 = W2
  W3 = W3
  NoWorker = NoWorker
  NoJob = NoJob
  Jobs = {J1, J2, J3}
  Workers = {W1, W2}
  Tenants = {T1}
  TenantOf <- SameTenant
  Priority <- SamePriority
  MaxAttempts <- TwoAttempts
  Quota <- QuotaOne
  Concurrency = 2
  MaxFaults = 0
  MaxStalls = 0
  MaxRetries = 1
SYMMETRY RowSymmetry
\* Nothing is left to do once every job is settled and every incarnation spent.
CHECK_DEADLOCK FALSE
INVARIANTS
  QuotaOvershoot
  LocksHold
PROPERTIES
  ImplementsLifecycle
