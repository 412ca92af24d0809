SPECIFICATION Spec
CONSTANTS
  r1 = r1
  r2 = r2
  x1 = x1
  b1 = b1
  f1 = f1
  e1 = e1
  NULL = NULL
  Keys = {"rss", "x"}
  Savers = {r1, r2, x1}
  Runs = {r1, r2}
  Backfills = {b1}
  BackfillSince = 1
  KeyOf <- SaverKeys
  Rss = "rss"
  Feeds = {f1}
  Focused = {}
  Sections = {}
  Entries = {e1}
  FeedOf <- EntryFeeds
  WordsOf <- EntryWords
  Undated = {}
  DocumentOf <- EntryDocuments
  ShapeOf <- EntryShapes
  RegionNames = {"Natal", "Ouro"}
  ShortNames = {"Ouro"}
  Documents = {"index", "other", "posts", "news"}
  Candidates <- Sitemaps
  ChildrenOf <- Children
  MaxDepth = 3
  FirstWatermark = 0
  Lookback = 1
  MaxTime = 2
SYMMETRY Symmetry
INVARIANTS TypeOK NoDiscoveryGap
