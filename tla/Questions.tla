------------------------------ MODULE Questions ------------------------------
(***************************************************************************)
(* What the bot answers about a user's money: /ask (app/query.py), /spend  *)
(* (app/reports.py), /income (app/income.py) and the weekly digest         *)
(* (app/digest.py).  Each reads the two ledgers over windows of days that  *)
(* it computes from today.  The figures are operators here, over the       *)
(* tables as they stand; Readings has the readers, whose SELECTs see the   *)
(* tables of different moments.                                            *)
(*                                                                         *)
(* Days go by, rows are recorded and recategorised.  Beside the dates the  *)
(* code computes with, the walk keeps a calendar of its own, made by       *)
(* counting: the windows are compared with it.                             *)
(***************************************************************************)
EXTENDS Calendar, FiniteSetsExt, Functions, Sequences

CONSTANTS
    Starts,         \* bound: the first days, with their weekdays; the year before
                    \* is one of Years
    Horizon,        \* bound: how many days are walked
    MaxExpenses,    \* bound: the expense rows
    MaxIncomes,     \* bound: the income rows
    RowDays,        \* bound: the days that rows are dated
    Payments,       \* what an expense row holds, but for its date
    Deposits,       \* the amounts of income rows
    Corrections,    \* the categories that rows are moved to
    Savings,        \* SAVINGS_CATEGORY
    ListLimit       \* _LIST_LIMIT

ASSUME QuestionsAssumption ==
    /\ \A s \in Starts : /\ s.date \in Dates /\ s.date.year - 1 \in Years
                         /\ s.weekday = Weekday(Ordinal(s.date))
    /\ RowDays \subseteq Dates
    /\ \A p \in Payments : p.amount \in Nat
    /\ Deposits \subseteq Nat
    /\ Horizon \in Nat /\ MaxExpenses \in Nat /\ MaxIncomes \in Nat
    /\ ListLimit \in Nat \ {0}

VARIABLES
    today,      \* date.today()
    walk,       \* the days so far: no variable of the code
    expenses,   \* the rows of expenses, in the order of their insertion
    incomes     \* the rows of incomes

vars == <<today, walk, expenses, incomes>>

Now == Ordinal(today)

-----------------------------------------------------------------------------
(***************************************************************************)
(* Windows.                                                                *)
(***************************************************************************)
MonthStart(d) == Ordinal([d EXCEPT !.day = 1])
YearStart(d)  == Ordinal([d EXCEPT !.day = 1, !.month = 1])

\* Mutated form: a week that starts on Sunday.
SundayStart(d) == Ordinal(d) - ((Weekday(Ordinal(d)) + 1) % 7)

WeekStart(d) == Ordinal(d) - Weekday(Ordinal(d))

Span(start, end) == [start |-> start, end |-> end]

\* The month before: _last_completed_month of the audit, and "last_month".
LastMonth(d) ==
    LET end == MonthStart(d) - 1 IN Span(MonthStart(FromOrdinal(end)), end)

Named == {"today", "this_week", "last_week", "this_month", "last_month"}

NoDay == 0

\* The date range of a QueryIntent; only a custom one has days of its own.
Period(name)     == [name |-> name, from |-> NoDay, to |-> NoDay]
Custom(from, to) == [name |-> "custom", from |-> from, to |-> to]

\* resolve_date_range; a custom range that lacks a day is this month's.
Window(range, d) ==
    CASE range.name = "today"      -> Span(Ordinal(d), Ordinal(d))
      [] range.name = "this_week"  -> Span(WeekStart(d), Ordinal(d))
      [] range.name = "last_week"  -> Span(WeekStart(d) - 7, WeekStart(d) - 1)
      [] range.name = "last_month" -> LastMonth(d)
      [] range.name = "custom" /\ NoDay \notin {range.from, range.to} ->
            Span(range.from, range.to)
      [] OTHER                     -> Span(MonthStart(d), Ordinal(d))

-----------------------------------------------------------------------------
(***************************************************************************)
(* Reading the ledgers.                                                    *)
(***************************************************************************)
Amounts(rows) == [r \in DOMAIN rows |-> rows[r].amount]

Spent(E)  == SumFunctionOnSet(Amounts(expenses), E)
Earned(I) == SumFunctionOnSet(Amounts(incomes), I)

ExpensesIn(w) == {e \in DOMAIN expenses : expenses[e].date \in w.start .. w.end}
IncomesIn(w)  == {i \in DOMAIN incomes : incomes[i].date \in w.start .. w.end}

NotSavings(E) == {e \in E : expenses[e].category # Savings}

\* Mutated form: what was moved to savings is spend as well.
NetOfAll(w) == [income |-> Earned(IncomesIn(w)),
                spend  |-> Spent(ExpensesIn(w)),
                moved  |-> Spent(ExpensesIn(w) \ NotSavings(ExpensesIn(w)))]

\* _run_net_query: a balance ignores the category.
Net(w) == [income |-> Earned(IncomesIn(w)),
           spend  |-> Spent(NotSavings(ExpensesIn(w))),
           moved  |-> Spent(ExpensesIn(w) \ NotSavings(ExpensesIn(w)))]

\* run_query: the rows an intent asks for, of one category or of all.
Selected(w, categories) ==
    {e \in ExpensesIn(w) : expenses[e].category \in categories}

\* The first rows by date, in either order on one day.
IsListed(items, E) ==
    /\ items \subseteq E
    /\ Cardinality(items) = Min({Cardinality(E), ListLimit})
    /\ \A e \in items, f \in E \ items : expenses[e].date <= expenses[f].date

Biggest(E) == {e \in E : \A f \in E : expenses[f].amount <= expenses[e].amount}

\* QueryResult for the aggregations over expenses alone: of the rows that
\* share the largest amount, or the last date listed, any may be chosen.
Result(w, categories) ==
    LET E == Selected(w, categories)
    IN  [count     |-> Cardinality(E),
         total     |-> Spent(E),
         biggest   |-> Biggest(E),
         lists     |-> {items \in SUBSET E : IsListed(items, E)},
         truncated |-> Cardinality(E) > ListLimit]

\* _sum_since and _sum_between: without an upper bound.
Since(start)       == {e \in DOMAIN expenses : expenses[e].date >= start}
EarnedSince(start) == Earned({i \in DOMAIN incomes : incomes[i].date >= start})

\* Mutated form: the savings are left in.
SpentOnAll(start) == Spent(Since(start))

SpentSince(start) == Spent(NotSavings(Since(start)))

\* get_spend_summary
SpendSummary(d) == [week  |-> SpentSince(WeekStart(d)),
                    month |-> SpentSince(MonthStart(d)),
                    year  |-> SpentSince(YearStart(d)),
                    total |-> SpentSince(NoDay)]

\* get_income_summary
IncomeSummary(d) == [month     |-> EarnedSince(MonthStart(d)),
                     lastMonth |-> Earned(IncomesIn(LastMonth(d))),
                     year      |-> EarnedSince(YearStart(d)),
                     total     |-> EarnedSince(NoDay)]

\* The rows of the digest.
WeekRows(d) == NotSavings(Since(WeekStart(d)))

\* Mutated form: what was moved to savings is a category as well.
CategoriesWithSavings(d) ==
    LET week == Since(WeekStart(d))
    IN  [c \in {expenses[e].category : e \in week} |->
            Spent({e \in week : expenses[e].category = c})]

\* build_weekly_digest: the week by category.
Categories(d) ==
    [c \in {expenses[e].category : e \in WeekRows(d)} |->
        Spent({e \in WeekRows(d) : expenses[e].category = c})]

Top(sums) == {c \in DOMAIN sums : \A x \in DOMAIN sums : sums[x] <= sums[c]}

-----------------------------------------------------------------------------
(***************************************************************************)
(* Days and rows.                                                          *)
(***************************************************************************)
NextDate(d) ==
    IF d.day < DaysInMonth(d.year, d.month) THEN [d EXCEPT !.day = @ + 1]
    ELSE IF d.month < 12 THEN [d EXCEPT !.day = 1, !.month = @ + 1]
    ELSE [year |-> d.year + 1, month |-> 1, day |-> 1]

Init ==
    /\ \E s \in Starts :
          /\ today = s.date
          /\ walk = <<[date |-> s.date, number |-> Ordinal(s.date),
                       weekday |-> s.weekday, week |-> 1]>>
    /\ expenses = << >>
    /\ incomes = << >>

Tick ==
    LET last == walk[Len(walk)]
        wd   == (last.weekday + 1) % 7
    IN  /\ Len(walk) < Horizon
        /\ NextDate(today).year \in Years
        /\ today' = NextDate(today)
        /\ walk' = Append(walk, [date    |-> NextDate(today),
                                 number  |-> last.number + 1,
                                 weekday |-> wd,
                                 week    |-> IF wd = 0 THEN last.week + 1
                                             ELSE last.week])
        /\ UNCHANGED <<expenses, incomes>>

\* A row is recorded on its day, or on the day before or after it.
Datable == {Ordinal(d) : d \in RowDays} \cap (Now - 1 .. Now + 1)

AddExpense ==
    /\ Len(expenses) < MaxExpenses
    /\ \E o \in Datable, p \in Payments :
          expenses' = Append(expenses, [amount |-> p.amount, category |-> p.category,
                                        date |-> o])
    /\ UNCHANGED <<today, walk, incomes>>

\* recategorize_expense; to the category it has, nothing changes.
Recategorize ==
    /\ \E e \in DOMAIN expenses, c \in Corrections :
          /\ expenses[e].category # c
          /\ expenses' = [expenses EXCEPT ![e].category = c]
    /\ UNCHANGED <<today, walk, incomes>>

RecordIncome ==
    /\ Len(incomes) < MaxIncomes
    /\ \E o \in Datable, a \in Deposits :
          incomes' = Append(incomes, [amount |-> a, date |-> o])
    /\ UNCHANGED <<today, walk, expenses>>

Next == Tick \/ AddExpense \/ Recategorize \/ RecordIncome

Spec == Init /\ [][Next]_vars

-----------------------------------------------------------------------------
(***************************************************************************)
(* Properties.                                                             *)
(***************************************************************************)
\* resolve_date_range: over month ends, leap days and turns of the year, the
\* days of a named range are the ones a calendar on the wall shows.
Shown(name, day) ==
    LET now       == walk[Len(walk)]
        months(d) == d.year * 12 + d.month
    IN  CASE name = "today"      -> day = now
          [] name = "this_week"  -> day.week = now.week
          [] name = "last_week"  -> day.week = now.week - 1
          [] name = "this_month" -> months(day.date) = months(now.date)
          [] name = "last_month" -> months(day.date) = months(now.date) - 1

RangesMatchCalendar ==
    /\ \A name \in Named :
          LET w == Window(Period(name), today)
          IN  \A i \in DOMAIN walk :
                 walk[i].number \in w.start .. w.end <=> Shown(name, walk[i])
    /\ Now = walk[Len(walk)].number
    /\ Weekday(Now) = walk[Len(walk)].weekday
    /\ FromOrdinal(Now) = today

\* No row is counted twice or left out: what was spent and what was moved to
\* savings make up the sum over all categories, and a period cut in two at
\* any day, or into last month and this one, adds up to the whole.
Plus(a, b) == [f \in DOMAIN a |-> a[f] + b[f]]

MoneyCountedOnce ==
    LET last == Window(Period("last_month"), today)
        this == Window(Period("this_month"), today)
        all  == {expenses[e].category : e \in DOMAIN expenses}
        of(from, to) == Net(Window(Custom(from, to), today))
    IN  /\ \A w \in {last, this} :
              Net(w).spend + Net(w).moved = Result(w, all).total
        /\ \A day \in {d \in Datable : d \in this.start .. this.end - 1} :
              Plus(of(this.start, day), of(day + 1, this.end)) = Net(this)
        /\ \A i \in DOMAIN walk :
              walk[i].date.day = 1 /\ Ordinal(walk[i].date) \in last.start .. last.end
              => Plus(Net(last), Net(this)) = of(Ordinal(walk[i].date), this.end)

\* /ask, /spend, /income and the digest tell one story: as long as no row is
\* dated in the future, which only some of them leave out.
NothingAhead ==
    /\ \A e \in DOMAIN expenses : expenses[e].date <= Now
    /\ \A i \in DOMAIN incomes : incomes[i].date <= Now

SummariesAgree ==
    LET net(name) == Net(Window(Period(name), today))
    IN  /\ NothingAhead =>
              /\ SpendSummary(today).week = net("this_week").spend
              /\ SpendSummary(today).month = net("this_month").spend
              /\ IncomeSummary(today).month = net("this_month").income
        /\ IncomeSummary(today).lastMonth = net("last_month").income
=============================================================================
