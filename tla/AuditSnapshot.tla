--------------------------- MODULE AuditSnapshot ---------------------------
(***************************************************************************)
(* The figures of a monthly audit: build_snapshot of app/audit.py and its  *)
(* helpers.  They are what the report shows and all that the model is      *)
(* given; the model itself only writes prose and flags candidates.         *)
(*                                                                         *)
(* A table is a function from row ids to rows; the operators take a table  *)
(* and the ids of one user's rows of one month.                            *)
(***************************************************************************)
EXTENDS Integers, FiniteSetsExt, SequencesExt

CONSTANTS
    Savings,            \* SAVINGS_CATEGORY
    Uncategorized,      \* _UNCATEGORIZED, in rows older than the guards
    OutlierMultiple,    \* _OUTLIER_MULTIPLE
    MinExpenses,        \* _MIN_EXPENSES_FOR_OUTLIER
    MaxCandidates,      \* _MAX_ANOMALY_CANDIDATES
    MaxRate             \* the largest savings_rate, Numeric(7, 2), in hundredths

ASSUME SnapshotAssumption ==
    /\ Savings # Uncategorized
    /\ OutlierMultiple \in Nat \ {0}
    /\ MinExpenses \in Nat /\ MaxCandidates \in Nat /\ MaxRate \in Nat

TotalOf(table, S) ==
    SumFunctionOnSet([e \in DOMAIN table |-> table[e].amount], S)

Spending(expense, S) == {e \in S : expense[e].category # Savings}

-----------------------------------------------------------------------------
Ordered(expense, S) ==
    CHOOSE o \in SetToSeqs(S) : \A i, j \in DOMAIN o :
        i <= j => expense[o[i]].amount <= expense[o[j]].amount

\* Mutated form: the lower of the two middle values.
LowMedian(expense, S) ==
    IF S = {} THEN 0
    ELSE LET o == Ordered(expense, S)
         IN  2 * expense[o[(Len(o) \div 2) + (Len(o) % 2)]].amount

\* _median, twice: of an even number it is the mean of the middle values.
MedianTwice(expense, S) ==
    IF S = {} THEN 0
    ELSE LET o   == Ordered(expense, S)
             mid == (Len(o) \div 2) + 1
         IN  IF Len(o) % 2 = 1
             THEN 2 * expense[o[mid]].amount
             ELSE expense[o[mid - 1]].amount + expense[o[mid]].amount

\* Mutated form: savings count towards what is usual.
OutliersOfAll(expense, S) ==
    LET median == MedianTwice(expense, S)
    IN  IF Cardinality(S) >= MinExpenses /\ median > 0
        THEN {e \in Spending(expense, S) :
                 2 * expense[e].amount >= OutlierMultiple * median}
        ELSE {}

\* Spending that is large against the median of the month's spending.
Outliers(expense, S) ==
    LET usual  == Spending(expense, S)
        median == MedianTwice(expense, usual)
    IN  IF Cardinality(usual) >= MinExpenses /\ median > 0
        THEN {e \in usual : 2 * expense[e].amount >= OutlierMultiple * median}
        ELSE {}

\* _select_anomaly_candidates: the largest ones; among equals the database
\* decides.
IsShortlist(expense, S, C) ==
    LET picked == {e \in S : expense[e].category = Uncategorized}
                     \cup Outliers(expense, S)
    IN  /\ C \subseteq picked
        /\ \/ C = picked /\ Cardinality(C) <= MaxCandidates
           \/ /\ Cardinality(C) = MaxCandidates
              /\ \A e \in C, d \in picked \ C :
                    expense[d].amount <= expense[e].amount

-----------------------------------------------------------------------------
\* n / d to the nearest whole number, a half to the even one (Decimal's
\* quantize); d is positive.
HalfEven(n, d) ==
    LET q == n \div d
        r == n % d
    IN  IF 2 * r > d \/ (2 * r = d /\ q % 2 = 1) THEN q + 1 ELSE q

\* Mutated form: the remainder is dropped.
CutRate(income, saved) ==
    IF income > 0 THEN {(10000 * saved) \div income} ELSE {}

\* The rate in hundredths of a percent; without income there is none.
SavingsRate(income, saved) ==
    IF income > 0 THEN {HalfEven(10000 * saved, income)} ELSE {}

Figures(total_income, expense, S) ==
    LET spend == TotalOf(expense, Spending(expense, S))
    IN  [income |-> total_income, spend |-> spend,
         saved |-> total_income - spend,
         rate |-> SavingsRate(total_income, total_income - spend)]

\* has_data: a month of nothing but savings is audited too.
HasData(total_income, expense, S) ==
    total_income # 0 \/ TotalOf(expense, S) # 0

FitsColumn(rate) == \A r \in rate : -MaxRate <= r /\ r <= MaxRate
=============================================================================
