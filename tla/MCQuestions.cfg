CONSTANTS
    Years <- SomeYears
    Starts <- FirstDays
    Horizon = 32
    MaxExpenses = 2
    MaxIncomes = 1
    RowDays <- SomeDays
    Payments <- SomePayments
    Deposits <- SomeDeposits
    Corrections <- SomeCorrections
    AskDays <- SomeAskDays
    Ranges <- SomeRanges
    Savings = "Savings"
    ListLimit = 2
SPECIFICATION ReadSpec
CHECK_DEADLOCK FALSE
INVARIANTS
    RangesMatchCalendar
    MoneyCountedOnce
    SummariesAgree
    DigestConsistent
    FiguresFit
