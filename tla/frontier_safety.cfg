SPECIFICATION Spec
CONSTANTS
  r1 = r1
  r2 = r2
  u1 = u1
  u2 = u2
  Runs = {r1, r2}
  Urls = {u1, u2}
  UolUrls = {u2}
  Undated = {}
  MaxRetries = 2
  AttemptCap = 3
  StaleTimeout = 1
  RunTimeout <- Timeouts
  BackfillRun = NULL
  RecircTtl = 1
  PurgeTtl = 2
  PendingLimit = 1
  RetryLimit = 1
  RecircLimit = 1
  NULL = NULL
SYMMETRY RunSymmetry
INVARIANTS TypeOK NoDoubleScrape FailureBudget RecirculationIsAnUpdate
PROPERTIES CompletedIsFinal LeaseSpec
