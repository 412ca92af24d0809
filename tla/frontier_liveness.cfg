SPECIFICATION FairSpec
CONSTANTS
  r1 = r1
  u1 = u1
  u2 = u2
  Runs = {r1}
  Urls = {u1, u2}
  UolUrls = {}
  Undated = {}
  MaxRetries = 2
  AttemptCap = 3
  StaleTimeout = 1
  RunTimeout <- Timeouts
  BackfillRun = NULL
  RecircTtl = 1
  PurgeTtl = 2
  PendingLimit = 1
  RetryLimit = 1
  RecircLimit = 1
  NULL = NULL
PROPERTIES ClaimReleased DatedUrlServed
