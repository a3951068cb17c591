----------------------------- MODULE MCQuestions -----------------------------
(***************************************************************************)
(* A small instance of Readings for TLC: walks over the turn of a year,    *)
(* the end of a February with and without a leap day, and of the one that  *)
(* has none although its year divides by four.                             *)
(***************************************************************************)
EXTENDS Readings

Day(y, m, d) == [year |-> y, month |-> m, day |-> d]

SomeYears == {2021, 2022, 2023, 2024, 2099, 2100}

\* The weekdays are read off a calendar.
FirstDays ==
    {[date |-> Day(2022, 12, 1), weekday |-> 3],
     [date |-> Day(2023, 12, 25), weekday |-> 0],
     [date |-> Day(2023, 2, 1), weekday |-> 2],
     [date |-> Day(2024, 2, 1), weekday |-> 3],
     [date |-> Day(2100, 2, 1), weekday |-> 0]}

\* Of each walk, the Sunday and the Monday about the end of the month, and
\* its last and first day.
SomeDays ==
    {Day(2022, 12, 31), Day(2023, 1, 1), Day(2023, 1, 2),
     Day(2023, 12, 31), Day(2024, 1, 1),
     Day(2023, 2, 26), Day(2023, 2, 28), Day(2023, 3, 1),
     Day(2024, 2, 25), Day(2024, 2, 29), Day(2024, 3, 1),
     Day(2100, 2, 28), Day(2100, 3, 1)}

SomePayments == {[amount |-> 3, category |-> "Food"],
                 [amount |-> 5, category |-> "Rent"]}

SomeDeposits == {4}

\* Across the border between spend and savings.
SomeCorrections == {"Savings"}

\* The Sunday whose midnight ends a week, a month and a year.
SomeAskDays == {Day(2023, 12, 31)}

SomeRanges == {Period("this_month")}
=============================================================================
