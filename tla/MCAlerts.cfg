CONSTANTS
    Users <- TwoUsers
    Categories <- Labels
    Savings = "Savings"
    Entries = {e1}
    Purchases <- Two_Purchases
    Credits = {i1}
    Deposits <- Two_Deposits
    Budgets <- Two_Budgets
    Plans <- Two_Plans
    Checks = {k1, k2}
    Days <- Two_Days
    DaysInMonth = 28
    AlertPct = 80
    TolerancePct = 5
    Grace = 2
    MinPaceDay = 7
SPECIFICATION FairSpec
CHECK_DEADLOCK FALSE
INVARIANTS
    TypeOK
    MarkerAccounted
PROPERTIES
    AnnouncedOnce
    OverspendIsAnnounced
