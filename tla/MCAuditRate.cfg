CONSTANTS
    Users <- Rate_Users
    Categories <- Labels
    Savings = "Savings"
    Uncategorized = "Uncategorized"
    OutlierMultiple = 3
    MinExpenses = 5
    MaxCandidates = 8
    MaxRate = 9999999
    Entries = {e1}
    Purchases <- Rate_Purchases
    Credits = {i1}
    Deposits <- Rate_Deposits
    Audits = {k1}
    LastMonth = 2
SPECIFICATION Spec
CHECK_DEADLOCK FALSE
INVARIANT RateFits
