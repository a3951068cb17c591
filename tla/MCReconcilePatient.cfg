CONSTANTS
    Categories <- TwoCategories
    Suggestions <- Spellings
    FoldKey <- Fold
    Merchants <- ShopsPlus
    StoredFold <- Stored
    LookupFold <- Lookup
    NormalKey <- Normal
    Keys <- ShopKey
    TolerancePct = 5
    CandidateDays = 2
    DuplicateDays = 2
    MaxCandidates = 3
    NumTxns = 2
    Passes = {p1, p2}
    Taps = {k1, k2}
    Logs = {l1}
    Messages <- Varied
    Reports <- VariedReports
    Discipline = {"one_pass", "one_tap", "answers_first"}
SPECIFICATION Spec
SYMMETRY Symmetry
CHECK_DEADLOCK FALSE
INVARIANTS
    TypeOK
    PhotoAutoLogIsTaught
    CandidateIsNotDuplicate
PROPERTY ExactlyOnce
