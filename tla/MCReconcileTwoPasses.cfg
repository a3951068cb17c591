CONSTANTS
    Categories <- OneCategory
    Suggestions <- FewTexts
    FoldKey <- Fold
    Merchants <- Shops
    StoredFold <- Stored
    LookupFold <- Lookup
    NormalKey <- Normal
    Keys <- ShopKey
    TolerancePct = 5
    CandidateDays = 2
    DuplicateDays = 2
    MaxCandidates = 3
    NumTxns = 2
    Passes = {p1, p2}
    Taps = {}
    Logs = {l1}
    Messages <- SmsAndBare
    Reports <- NearReport
    Discipline = {}
SPECIFICATION Spec
CHECK_DEADLOCK FALSE
PROPERTY LinkIsPermanent
