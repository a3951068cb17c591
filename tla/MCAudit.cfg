CONSTANTS
    Users <- Audit_Users
    Categories <- Labels
    Savings = "Savings"
    Uncategorized = "Uncategorized"
    OutlierMultiple = 1
    MinExpenses = 1
    MaxCandidates = 1
    MaxRate = 9999999
    Entries = {e1, e2}
    Purchases <- Audit_Purchases
    Credits = {i1}
    Deposits <- Audit_Deposits
    Audits = {k1, k2}
    LastMonth = 3
SPECIFICATION Spec
SYMMETRY Symmetry
CHECK_DEADLOCK FALSE
INVARIANTS
    TypeOK
    ReportAccounted
    OneSetOfFigures
    AskedIsOwn
    RateIsNearest
    MedianIsMiddle
PROPERTIES
    ReportedOnce
    SavingsDoNotCount
