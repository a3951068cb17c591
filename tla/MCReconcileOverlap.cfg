CONSTANTS
    Categories <- OneCategory
    Suggestions <- OneCategory
    FoldKey <- Fold
    Merchants <- Shops
    StoredFold <- Stored
    LookupFold <- Lookup
    NormalKey <- Normal
    Keys <- ShopKey
    TolerancePct = 5
    CandidateDays = 2
    DuplicateDays = 2
    MaxCandidates = 3
    NumTxns = 2
    Passes = {p1, p2}
    Taps = {k1, k2}
    Logs = {}
    Messages <- SameSms
    Reports <- NearReport
    Discipline = {}
SPECIFICATION FairSpec
CHECK_DEADLOCK FALSE
INVARIANTS
    ProcessedIffResolved
    LinkedIsProcessed
    QuestionNotLost
    BatchAccounted
PROPERTIES
    SettledIsFinal
    HandlersEnd
