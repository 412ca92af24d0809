SPECIFICATION FairSpec
CONSTANTS
  u1 = u1
  u2 = u2
  u3 = u3
  Urls = {u1, u2, u3}
  Retries = {u3}
  Pages <- MCPages
  SiteSelector = TRUE
  Targeted = TRUE
  Trigger = 1
  HardTrigger = 2
  BotBase = 1
  BotCap = 3
  RateBase = 1
  RateCap = 2
  HardWindow = 3
  BlockCap = 3
  BlockedBudget = 1
  TransientBudget = 3
  GlobalSlots = 3
  DomainSlots = 2
  EngineSlots = 2
INVARIANTS TypeOK
PROPERTIES NoRequestWhileParked 
CHECK_DEADLOCK FALSE
