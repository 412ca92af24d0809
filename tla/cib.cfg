SPECIFICATION Spec
CONSTANTS
    WindowHours = 2
    MinOverlap = 2
    MinSize = 2
    SyncCap = 2
    SeriesThreshold = 50
    Accounts <- MCAccounts
    EarlyStories <- MCEarlyStories
    LateStories <- MCLateStories
    Cosine <- MCCosine
    Lookback = 2
    PersonaLookback = 3
    EmbedLookback = 2
    Threshold = 80
    AgeDays = 1
    AlertLines = 2
    UsePersonas = TRUE
    UseEmbeddings = TRUE
    UseScores = TRUE
    Textless = {"photo"}
    MaxDay = 3
    MaxFailures = 2
CHECK_DEADLOCK FALSE
INVARIANTS TypeOK  
