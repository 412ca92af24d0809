CONSTANTS
  NONE = NONE
  Null = NONE
  Nothing = NONE
  CityRows <- MCCityRows
  GovernorRows <- MCGovernorRows
  CandidateRows <- MCCandidateRows
  Politicians <- MCPoliticians
  CityAliases <- NoAliases
  MayorAliases <- MCMayorAliases
  GovernorAliases <- MCGovernorAliases
  PoliticianAliases <- NoAliases
  StripHandle <- MCStripHandle
  NoiseWords <- MCNoiseWords
  Stoplist <- MCStoplist
  GovernorPhrases <- MCGovernorPhrases
  Stopwords <- MCStopwords
  ShortWords <- MCShortWords
  RoleKeywords <- MCRoleKeywords
  InstitutionalTokens <- MCInstitutionalTokens
  MalformedHandles <- MCMalformedHandles
  LogEngagement <- MCLogEngagement
  TimeOf <- MCTimeOf
  UserInUrl <- MCUserInUrl
  PageInUrl <- MCPageInUrl
  Thresholds <- MCThresholds
  Polarity <- MCPolarity
  ProjectTopics <- MCTopics
  PoliticalTerms = {"governadora", "prefeito"}
  Channels = {"rss", "instagram", "facebook", "tiktok", "x"}
  Raw <- MCRaw
  MaxItems = 3
  Texts <- MCTexts
  WordsOf <- MCWordsOf
  Recognised <- MCRecognised
  Mode = "local"
  ExplainerCoverage = "alert"
  Cutoff = 1
  Now = 4
  Rules <- MCRules
  Candidate <- MCCandidate
  VelocityScale = 2
  Similarity <- MCSimilarity
  HashRank <- MCHashRank
  Algorithm = "hdbscan"
  MinSize = 2
  CosineThreshold = 75
  Jobs = {"cluster-narratives", "classify-stances", "investigate-endorsements"}
  Stances = {"favor", "contra"}
  WindowDays = 1
  MaxEvents = 2
  MaxJobRuns = 2
SPECIFICATION JobsSpec
INVARIANTS TypeOK ScopeIsEarned  VerdictsCiteTheirBundle
CHECK_DEADLOCK FALSE
VIEW View
