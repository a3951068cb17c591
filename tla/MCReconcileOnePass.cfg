CONSTANTS
    Categories <- OneCategory
    Suggestions <- FewTexts
    FoldKey <- Fold
    Merchants <- Shops
    StoredFold <- Stored
    LookupFold <- Lookup
    NormalKey <- Normal
    Keys <- ShopKey
    TolerancePct = 5
    CandidateDays = 2
    DuplicateDays = 2
    MaxCandidates = 3
    NumTxns = 2
    Passes = {p1, p2}
    Taps = {k1, k2}
    Logs = {l1, l2}
    Messages <- SmsAndBare
    Reports <- NearReport
    Discipline = {"one_pass", "one_tap"}
SPECIFICATION Spec
SYMMETRY Symmetry
CHECK_DEADLOCK FALSE
INVARIANTS
    UnlinkedIsManual
    ProcessedIsBacked
    OneAutomaticDecision
    NoAutoDuplicates
    LedgerMatchesRuns
PROPERTY LinkIsPermanent
