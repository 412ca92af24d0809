SPECIFICATION FairBreakerSpec
CONSTANTS
  t1 = t1
  t2 = t2
  t3 = t3
  r1 = r1
  r2 = r2
  NULL = NULL
  Tasks = {t1, t2, t3}
  ProcessOf <- TwoRuns
  FailureThreshold = 2
  RecoveryTimeout = 1
  HalfOpenRequests = 2
  RedisMayFail = TRUE
INVARIANTS BreakerTypeOK OpenIsDated
PROPERTIES OpenForRecoveryTime Recovers
