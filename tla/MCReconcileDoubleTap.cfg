CONSTANTS
    Categories <- OneCategory
    Suggestions <- FewTexts
    FoldKey <- Fold
    Merchants <- Shops
    StoredFold <- Stored
    LookupFold <- Lookup
    NormalKey <- Normal
    Keys <- ShopKey
    TolerancePct = 5
    CandidateDays = 2
    DuplicateDays = 2
    MaxCandidates = 3
    NumTxns = 1
    Passes = {p1}
    Taps = {k1, k2}
    Logs = {}
    Messages <- SameSms
    Reports <- NearReport
    Discipline = {}
SPECIFICATION Spec
CHECK_DEADLOCK FALSE
INVARIANT QuestionAnsweredOnce
