--------------------------- MODULE QuestionsProofs ----------------------------
(***************************************************************************)
(* The windows of app/query.py are those of the calendar for every first   *)
(* day and every number of years, and what is summed over them is counted  *)
(* once for any rows; what the SELECTs of one answer have seen fits        *)
(* together whatever is recorded between them.                             *)
(***************************************************************************)
EXTENDS Readings, FigureTheorems

-----------------------------------------------------------------------------
(***************************************************************************)
(* The calendar: where years and months begin.                             *)
(***************************************************************************)
DaysBefore(y) ==
    (y - 1) * 365 + (y - 1) \div 4 - (y - 1) \div 100 + (y - 1) \div 400

First(y, m) == Ordinal([year |-> y, month |-> m, day |-> 1])

\* A year is 365 days long, a leap year 366.
LEMMA YearLength ==
    ASSUME NEW y \in Nat \ {0}
    PROVE  DaysBefore(y + 1) = DaysBefore(y) + (IF IsLeap(y) THEN 366 ELSE 365)
  BY DEF DaysBefore, IsLeap

\* A later year begins no earlier.
LEMMA YearsGrow ==
    ASSUME NEW y \in Nat \ {0}, NEW z \in Nat \ {0}, y <= z
    PROVE  DaysBefore(y) <= DaysBefore(z)
  <1>1. (z - 1) \div 100 - (y - 1) \div 100 <= z - y
    OBVIOUS
  <1>2. (y - 1) \div 4 <= (z - 1) \div 4 /\ (y - 1) \div 400 <= (z - 1) \div 400
    OBVIOUS
  <1> QED BY <1>1, <1>2 DEF DaysBefore

\* A later month of the year begins after an earlier one has ended.
LEMMA MonthsGrow ==
    ASSUME NEW y \in Nat \ {0}, NEW m \in 1 .. 12, NEW n \in 1 .. 12, m < n
    PROVE  First(y, m) + DaysInMonth(y, m) <= First(y, n)
  BY DEF First, Ordinal, DaysInMonth, BeforeMonth

\* A month ends where the next one of the year begins.
LEMMA MonthLength ==
    ASSUME NEW y \in Nat \ {0}, NEW m \in 1 .. 11
    PROVE  First(y, m + 1) = First(y, m) + DaysInMonth(y, m)
  BY DEF First, Ordinal, DaysInMonth, BeforeMonth

\* A month has an ordinal to begin with and 28 to 31 days.
LEMMA FirstType ==
    ASSUME NEW y \in Nat \ {0}, NEW m \in 1 .. 12
    PROVE  First(y, m) \in Int /\ DaysInMonth(y, m) \in 28 .. 31
  BY DEF First, Ordinal, BeforeMonth, DaysInMonth

\* A month lies within its year.
LEMMA InYear ==
    ASSUME NEW y \in Nat \ {0}, NEW m \in 1 .. 12
    PROVE  /\ First(y, 1) <= First(y, m)
           /\ First(y, m) + DaysInMonth(y, m) <= First(y, 12) + 31
  BY DEF First, Ordinal, BeforeMonth, DaysInMonth

\* A day is in one month.
LEMMA OneMonth ==
    ASSUME NEW y \in Nat \ {0}, NEW m \in 1 .. 12, NEW n \in 1 .. 12, NEW o \in Int,
           First(y, m) <= o /\ o < First(y, m) + DaysInMonth(y, m),
           First(y, n) <= o /\ o < First(y, n) + DaysInMonth(y, n)
    PROVE  m = n
  <1>1. /\ First(y, m) \in Int /\ DaysInMonth(y, m) \in Int
        /\ First(y, n) \in Int /\ DaysInMonth(y, n) \in Int
    BY FirstType
  <1>2. ~(m < n)
    BY <1>1, MonthsGrow
  <1>3. ~(n < m)
    BY <1>1, MonthsGrow
  <1> QED BY <1>2, <1>3

\* A year begins and ends where the count of days says.
LEMMA FirstOfYear ==
    ASSUME NEW y \in Nat \ {0}
    PROVE  /\ First(y, 1) = DaysBefore(y) + 1
           /\ First(y, 12) + 31 = DaysBefore(y + 1) + 1
  BY YearLength DEF First, Ordinal, BeforeMonth, DaysBefore

Months(y, m) == y * 12 + m

\* Counting months through gives an integer.
LEMMA MonthsType ==
    ASSUME NEW y \in Int, NEW m \in Int
    PROVE  Months(y, m) \in Int
  BY DEF Months

\* The count of a month tells its year and its number.
LEMMA MonthsNumber ==
    ASSUME NEW y \in Int, NEW z \in Int, NEW m \in 1 .. 12, NEW n \in 1 .. 12,
           Months(y, m) = Months(z, n)
    PROVE  y = z /\ m = n
  BY DEF Months

\* A later month begins when the earlier one is over.
LEMMA MonthsApart ==
    ASSUME NEW y \in Nat \ {0}, NEW z \in Nat \ {0},
           NEW m \in 1 .. 12, NEW n \in 1 .. 12, Months(y, m) < Months(z, n)
    PROVE  First(y, m) + DaysInMonth(y, m) <= First(z, n)
  <1>1. CASE y = z
    BY <1>1, MonthsGrow DEF Months
  <1>2. CASE y < z
    <2>1. First(y, m) + DaysInMonth(y, m) <= First(y, 12) + 31
      BY InYear
    <2>2. DaysBefore(y + 1) <= DaysBefore(z)
      BY <1>2, YearsGrow
    <2>3. First(z, 1) <= First(z, n)
      BY InYear
    <2>4. /\ First(y, m) \in Int /\ DaysInMonth(y, m) \in Int
          /\ First(y, 12) \in Int /\ First(z, 1) \in Int /\ First(z, n) \in Int
          /\ DaysBefore(y + 1) \in Int /\ DaysBefore(z) \in Int
      BY DEF First, Ordinal, DaysInMonth, BeforeMonth, DaysBefore
    <2> QED BY <2>1, <2>2, <2>3, <2>4, FirstOfYear
  <1>3. y <= z
    BY DEF Months
  <1> QED BY <1>1, <1>2, <1>3

\* What a date is made of, and its ordinal in its month.
LEMMA DateIs ==
    ASSUME NEW d \in Dates
    PROVE  /\ d.year \in Years /\ d.year \in Nat \ {0}
           /\ d.month \in 1 .. 12
           /\ d.day \in 1 .. DaysInMonth(d.year, d.month)
           /\ d = [year |-> d.year, month |-> d.month, day |-> d.day]
           /\ First(d.year, d.month) \in Int
           /\ DaysInMonth(d.year, d.month) \in 28 .. 31
           /\ Ordinal(d) \in Nat \ {0}
           /\ Ordinal(d) = First(d.year, d.month) + d.day - 1
           /\ MonthStart(d) = First(d.year, d.month)
  <1>1. /\ d.year \in Years /\ d.month \in 1 .. 12 /\ d.day \in 1 .. 31
        /\ d.day <= DaysInMonth(d.year, d.month)
        /\ d = [year |-> d.year, month |-> d.month, day |-> d.day]
    BY DEF Dates
  <1>2. d.year \in Nat \ {0}
    BY <1>1, CalendarAssumption
  <1>3. DaysInMonth(d.year, d.month) \in 28 .. 31
    BY DEF DaysInMonth
  <1>4. [d EXCEPT !.day = 1] = [year |-> d.year, month |-> d.month, day |-> 1]
    BY <1>1
  <1>5. /\ First(d.year, d.month) \in Int
        /\ Ordinal(d) = First(d.year, d.month) + d.day - 1
        /\ Ordinal(d) \in Nat \ {0}
    BY <1>1, <1>2 DEF First, Ordinal, BeforeMonth
  <1>6. MonthStart(d) = First(d.year, d.month)
    BY <1>4 DEF MonthStart, First
  <1> QED BY <1>1, <1>2, <1>3, <1>5, <1>6

\* fromordinal is the inverse of toordinal.
LEMMA OrdinalBack ==
    ASSUME NEW d \in Dates
    PROVE  FromOrdinal(Ordinal(d)) = d
  <1> DEFINE o == Ordinal(d)
             Y(y) == First(y, 1) <= o /\ o < First(y, 12) + 31
             M(y, m) == First(y, m) <= o /\ o < First(y, m) + DaysInMonth(y, m)
  <1>1. /\ d.year \in Years /\ d.year \in Nat \ {0} /\ d.month \in 1 .. 12
        /\ d.day \in 1 .. DaysInMonth(d.year, d.month)
        /\ First(d.year, d.month) \in Int
        /\ DaysInMonth(d.year, d.month) \in 28 .. 31
        /\ o \in Int /\ o = First(d.year, d.month) + d.day - 1
    BY DateIs
  <1>2. \A y \in Nat \ {0}, m \in 1 .. 12 :
           First(y, m) \in Int /\ DaysInMonth(y, m) \in Int
    BY DEF First, Ordinal, BeforeMonth, DaysInMonth
  <1> HIDE DEF o
  <1>3. Y(d.year) /\ M(d.year, d.month)
    <2>1. /\ First(d.year, 1) <= First(d.year, d.month)
          /\ First(d.year, d.month) + DaysInMonth(d.year, d.month)
                <= First(d.year, 12) + 31
      BY <1>1, InYear
    <2> QED BY <1>1, <1>2, <2>1
  <1>4. ASSUME NEW y \in Years, Y(y)
        PROVE  y = d.year
    <2>1. y \in Nat \ {0}
      BY CalendarAssumption
    <2>2. CASE y < d.year
      <3>1. Months(y, 12) < Months(d.year, d.month)
        BY <1>1, <2>1, <2>2 DEF Months
      <3>2. First(y, 12) + DaysInMonth(y, 12) <= First(d.year, d.month)
        BY <1>1, <2>1, <3>1, MonthsApart
      <3>3. DaysInMonth(y, 12) = 31
        BY DEF DaysInMonth
      <3> QED BY <1>1, <1>2, <1>4, <2>1, <3>2, <3>3
    <2>3. CASE d.year < y
      <3>1. Months(d.year, d.month) < Months(y, 1)
        BY <1>1, <2>1, <2>3 DEF Months
      <3>2. First(d.year, d.month) + DaysInMonth(d.year, d.month) <= First(y, 1)
        BY <1>1, <2>1, <3>1, MonthsApart
      <3> QED BY <1>1, <1>2, <1>4, <2>1, <3>2
    <2> QED BY <1>1, <2>1, <2>2, <2>3
  <1>5. ASSUME NEW m \in 1 .. 12, M(d.year, m)
        PROVE  m = d.month
    BY <1>1, <1>3, <1>5, OneMonth
  <1>6. (CHOOSE y \in Years : Y(y)) = d.year
    BY <1>1, <1>3, <1>4
  <1>7. (CHOOSE m \in 1 .. 12 : M(d.year, m)) = d.month
    BY <1>1, <1>3, <1>5
  <1>8. FromOrdinal(o) = [year |-> d.year, month |-> d.month,
                          day |-> o - First(d.year, d.month) + 1]
    BY <1>6, <1>7, Zenon DEF FromOrdinal, First
  <1>9. o - First(d.year, d.month) + 1 = d.day
    BY <1>1
  <1>10. d = [year |-> d.year, month |-> d.month, day |-> d.day]
    BY DateIs
  <1> QED BY <1>8, <1>9, <1>10, Zenon DEF o

\* The day after.
LEMMA NextDay ==
    ASSUME NEW d \in Dates, NextDate(d).year \in Years
    PROVE  /\ NextDate(d) \in Dates
           /\ Ordinal(NextDate(d)) = Ordinal(d) + 1
           /\ NextDate(d).day = 1 \/ /\ NextDate(d).month = d.month
                                     /\ NextDate(d).year = d.year
  <1> DEFINE y == d.year
             m == d.month
             e == NextDate(d)
  <1>1. /\ y \in Nat \ {0} /\ m \in 1 .. 12 /\ y \in Years
        /\ d.day \in 1 .. DaysInMonth(y, m)
        /\ d = [year |-> y, month |-> m, day |-> d.day]
        /\ DaysInMonth(y, m) \in 28 .. 31
        /\ First(y, m) \in Int
        /\ Ordinal(d) = First(y, m) + d.day - 1
    BY DateIs
  <1>2. CASE d.day < DaysInMonth(y, m)
    <2>1. e = [year |-> y, month |-> m, day |-> d.day + 1]
      BY <1>1, <1>2 DEF NextDate
    <2>2. e \in Dates
      BY <1>1, <1>2, <2>1 DEF Dates
    <2>3. Ordinal(e) = First(y, m) + e.day - 1
      BY <2>1, <2>2, DateIs
    <2> QED BY <1>1, <2>1, <2>2, <2>3
  <1>3. CASE d.day = DaysInMonth(y, m) /\ m < 12
    <2>0. e = [d EXCEPT !.day = 1, !.month = @ + 1]
      BY <1>1, <1>3 DEF NextDate
    <2>1. e = [year |-> y, month |-> m + 1, day |-> 1]
      BY <1>1, <2>0
    <2>2. e \in Dates
      BY <1>1, <1>3, <2>1 DEF Dates, DaysInMonth
    <2>3. Ordinal(e) = First(y, m + 1)
      BY <2>1 DEF First
    <2> QED BY <1>1, <1>3, <2>1, <2>2, <2>3, MonthLength
  <1>4. CASE d.day = DaysInMonth(y, m) /\ m = 12
    <2>1. e = [year |-> y + 1, month |-> 1, day |-> 1]
      BY <1>1, <1>4 DEF NextDate
    <2>2. e \in Dates
      BY <1>1, <2>1 DEF Dates, DaysInMonth
    <2>3. Ordinal(e) = First(y + 1, 1)
      BY <2>1 DEF First
    <2>4. First(y, 12) + 31 = First(y + 1, 1)
      BY <1>1, FirstOfYear
    <2>5. DaysInMonth(y, 12) = 31
      BY DEF DaysInMonth
    <2> QED BY <1>1, <1>4, <2>1, <2>2, <2>3, <2>4, <2>5
  <1> QED BY <1>1, <1>2, <1>3, <1>4

-----------------------------------------------------------------------------
(***************************************************************************)
(* The inductive invariant.  The walk has no gaps: its days are numbered   *)
(* as the calendar numbers them, the weekdays it counted are those of the  *)
(* ordinals, and its weeks are seven days apart.  The month before today's *)
(* exists, which LastMonth needs.                                          *)
(***************************************************************************)
WalkType == [date : Dates, number : Nat, weekday : 0 .. 6, week : Nat]

ExpenseType == [amount   : Nat,
                category : {p.category : p \in Payments} \cup Corrections,
                date     : Nat \ {0}]

IncomeType == [amount : Nat, date : Nat \ {0}]

Typed ==
    /\ today \in Dates
    /\ walk \in Seq(WalkType) /\ walk # << >>
    /\ expenses \in Seq(ExpenseType)
    /\ incomes \in Seq(IncomeType)

\* The number and the weekday counted on a day of the walk, and the Monday
\* before it.
DayOK(day) ==
    LET last == walk[Len(walk)]
    IN  /\ day.number = Ordinal(day.date)
        /\ day.weekday = Weekday(Ordinal(day.date))
        /\ Ordinal(day.date) - day.weekday - 7 * day.week
              = Ordinal(last.date) - last.weekday - 7 * last.week

WalkOK ==
    /\ walk[Len(walk)].date = today
    /\ \A i \in DOMAIN walk :
          /\ Ordinal(walk[i].date) = Now - Len(walk) + i
          /\ DayOK(walk[i])
    /\ today.year - 1 \in Years

IInv == Typed /\ WalkOK

\* The weekday of an ordinal; it goes round in seven days.
LEMMA WeekdayType ==
    ASSUME NEW o \in Int
    PROVE  /\ Weekday(o) \in 0 .. 6
           /\ Weekday(o + 1) = (Weekday(o) + 1) % 7
  BY DEF Weekday

\* The inductive invariant holds of a walk's first day.
LEMMA InitIInv == Init => IInv
  <1> SUFFICES ASSUME Init PROVE IInv
    OBVIOUS
  <1>1. PICK s \in Starts :
           /\ today = s.date
           /\ walk = <<[date |-> s.date, number |-> Ordinal(s.date),
                        weekday |-> s.weekday, week |-> 1]>>
    BY DEF Init
  <1>2. /\ s.date \in Dates /\ s.date.year - 1 \in Years
        /\ s.weekday = Weekday(Ordinal(s.date)) /\ Ordinal(s.date) \in Nat
    BY QuestionsAssumption, DateIs
  <1>3. s.weekday \in 0 .. 6
    BY <1>2, WeekdayType
  <1>4. Typed
    BY <1>1, <1>2, <1>3 DEF Init, Typed, WalkType
  <1>5. WalkOK
    BY <1>1, <1>2, <1>3 DEF WalkOK, DayOK, Now
  <1> QED BY <1>4, <1>5 DEF IInv

\* A row is dated with an ordinal.
LEMMA DatableType == Datable \subseteq Nat \ {0}
  BY QuestionsAssumption, DateIs DEF Datable

\* The next morning keeps it: the new day follows the last one.
LEMMA TickIInv == ASSUME IInv, Tick PROVE IInv'
  <1> DEFINE last == walk[Len(walk)]
             wd   == (last.weekday + 1) % 7
             next == [date    |-> NextDate(today),
                      number  |-> last.number + 1,
                      weekday |-> wd,
                      week    |-> IF wd = 0 THEN last.week + 1 ELSE last.week]
  <1>1. /\ NextDate(today).year \in Years /\ today' = NextDate(today)
        /\ walk' = Append(walk, next)
        /\ UNCHANGED <<expenses, incomes>>
    BY DEF Tick
  <1>2. /\ today \in Dates /\ walk \in Seq(WalkType) /\ Len(walk) \in Nat \ {0}
        /\ last \in WalkType
    BY DEF IInv, Typed
  <1>3. /\ today' \in Dates /\ Now' = Now + 1 /\ Now \in Nat /\ Now' \in Nat
        /\ today'.year - 1 \in Years
    <2>1. /\ NextDate(today) \in Dates
          /\ Ordinal(NextDate(today)) = Ordinal(today) + 1
      BY <1>1, <1>2, NextDay
    <2>2. today'.year = today.year \/ today'.year - 1 = today.year
      BY <1>1, <1>2, DateIs DEF NextDate
    <2>3. today.year \in Years /\ today.year - 1 \in Years
      BY <1>2, DateIs DEF IInv, WalkOK
    <2>4. today' \in Dates /\ Now' = Now + 1
      BY <1>1, <2>1 DEF Now
    <2>5. Now \in Nat /\ Now' \in Nat
      BY <1>2, <2>4, DateIs DEF Now
    <2> QED BY <2>2, <2>3, <2>4, <2>5
  <1>4. /\ last.date = today /\ last.weekday = Weekday(Now)
        /\ last.number = Now
        /\ last.weekday \in 0 .. 6 /\ last.week \in Nat
    BY <1>2 DEF IInv, WalkOK, DayOK, WalkType, Now
  <1>5. /\ next \in WalkType /\ next.weekday = Weekday(Now')
        /\ next.number = Now'
    <2>1. wd = Weekday(Now') /\ wd \in 0 .. 6
      <3> HIDE DEF last
      <3>1. Now \in Int /\ Now' = Now + 1 /\ last.weekday = Weekday(Now)
        BY <1>3, <1>4
      <3>2. Weekday(Now + 1) = (Weekday(Now) + 1) % 7
        BY <3>1, WeekdayType
      <3>3. Weekday(Now + 1) \in 0 .. 6
        <4>1. Now + 1 \in Int
          BY <3>1
        <4> QED BY <4>1, WeekdayType
      <3> QED BY <3>1, <3>2, <3>3, Zenon
    <2>2. (IF wd = 0 THEN last.week + 1 ELSE last.week) \in Nat
      BY <1>4
    <2>3. last.number + 1 = Now' /\ last.number + 1 \in Nat
      BY <1>3, <1>4
    <2> HIDE DEF wd, last
    <2> QED BY <1>1, <1>3, <2>1, <2>2, <2>3 DEF WalkType
  <1>6. /\ walk' \in Seq(WalkType) /\ Len(walk') = Len(walk) + 1
        /\ walk'[Len(walk')] = next
        /\ \A i \in DOMAIN walk' : \/ i \in DOMAIN walk /\ walk'[i] = walk[i]
                                   \/ i = Len(walk') /\ walk'[i] = next
    BY <1>1, <1>2, <1>5
  <1>7. Typed'
    BY <1>1, <1>3, <1>6 DEF IInv, Typed
  <1>8. /\ next.date = today' /\ next.week \in Nat
        /\ Now' - next.weekday - 7 * next.week
              = Now - last.weekday - 7 * last.week
    <2>1. CASE last.weekday = 6
      <3>1. wd = 0
        BY <2>1
      <3>2. /\ next.date = NextDate(today) /\ next.week = last.week + 1
            /\ next.weekday = 0
        BY <3>1
      <3> HIDE DEF next, wd, last
      <3>3. last.week \in Nat /\ Now \in Nat /\ Now' = Now + 1
        BY <1>3, <1>4
      <3>4. 7 * (last.week + 1) = 7 * last.week + 7
        BY <3>3
      <3>5. Now' - 0 - 7 * (last.week + 1) = Now - 6 - 7 * last.week
        BY <3>3, <3>4
      <3> QED BY <1>1, <2>1, <3>2, <3>3, <3>5
    <2>2. CASE last.weekday # 6
      <3>1. wd = last.weekday + 1 /\ wd # 0
        BY <1>4, <2>2
      <3>2. /\ next.date = NextDate(today) /\ next.week = last.week
            /\ next.weekday = last.weekday + 1
        BY <3>1
      <3> HIDE DEF next, wd
      <3>3. Now' - (last.weekday + 1) - 7 * last.week
               = Now - last.weekday - 7 * last.week
        BY <1>1, <1>3, <1>4
      <3> QED BY <1>1, <1>3, <1>4, <3>2, <3>3
    <2> QED BY <2>1, <2>2
  <1> HIDE DEF next, wd
  <1>9. ASSUME NEW i \in DOMAIN walk'
        PROVE  (Ordinal(walk[i].date) = Now - Len(walk) + i /\ DayOK(walk[i]))'
    <2>1. CASE i \in DOMAIN walk /\ walk'[i] = walk[i]
      <3>1. /\ Ordinal(walk[i].date) = Now - Len(walk) + i
            /\ walk[i].number = Ordinal(walk[i].date)
            /\ walk[i].weekday = Weekday(Ordinal(walk[i].date))
            /\ Ordinal(walk[i].date) - walk[i].weekday - 7 * walk[i].week
                  = Now - last.weekday - 7 * last.week
        BY <1>4, <2>1 DEF IInv, WalkOK, DayOK, Now
      <3>2. Ordinal(walk'[i].date) = Now' - Len(walk') + i
        BY <1>2, <1>3, <1>6, <2>1, <3>1
      <3>3. Ordinal(next.date) = Now'
        BY <1>8 DEF Now
      <3> QED BY <1>6, <1>8, <2>1, <3>1, <3>2, <3>3 DEF DayOK
    <2>2. CASE i = Len(walk') /\ walk'[i] = next
      BY <1>2, <1>3, <1>5, <1>6, <1>8, <2>2 DEF DayOK, Now
    <2> QED BY <1>6, <1>9, <2>1, <2>2
  <1>10. WalkOK'
    BY <1>3, <1>6, <1>8, <1>9 DEF WalkOK
  <1> QED BY <1>7, <1>10 DEF IInv

\* Every step keeps it: rows recorded or moved leave the walk alone.
LEMMA NextIInv == IInv /\ [Next]_vars => IInv'
  <1> SUFFICES ASSUME IInv, [Next]_vars PROVE IInv'
    OBVIOUS
  <1>1. CASE Tick
    BY <1>1, TickIInv
  <1>2. CASE AddExpense
    <2>1. PICK o \in Datable, p \in Payments :
             expenses' = Append(expenses, [amount |-> p.amount,
                                           category |-> p.category, date |-> o])
      BY <1>2 DEF AddExpense
    <2>2. [amount |-> p.amount, category |-> p.category, date |-> o]
             \in ExpenseType
      BY DatableType, QuestionsAssumption DEF ExpenseType
    <2>3. expenses' \in Seq(ExpenseType)
      BY <2>1, <2>2 DEF IInv, Typed
    <2> QED BY <1>2, <2>3 DEF AddExpense, IInv, Typed, WalkOK, DayOK, Now
  <1>5. CASE Recategorize
    <2>1. PICK e \in DOMAIN expenses, c \in Corrections :
             expenses' = [expenses EXCEPT ![e].category = c]
      BY <1>5 DEF Recategorize
    <2>2. expenses[e] \in ExpenseType
      BY DEF IInv, Typed
    <2>3. [expenses[e] EXCEPT !.category = c] \in ExpenseType
      BY <2>2 DEF ExpenseType
    <2>4. expenses' = [expenses EXCEPT ![e] = [expenses[e] EXCEPT !.category = c]]
      BY <2>1
    <2>5. expenses' \in Seq(ExpenseType)
      BY <2>3, <2>4 DEF IInv, Typed
    <2> QED BY <1>5, <2>5 DEF Recategorize, IInv, Typed, WalkOK, DayOK, Now
  <1>3. CASE RecordIncome
    <2>1. PICK o \in Datable, a \in Deposits :
             incomes' = Append(incomes, [amount |-> a, date |-> o])
      BY <1>3 DEF RecordIncome
    <2>2. [amount |-> a, date |-> o] \in IncomeType
      BY DatableType, QuestionsAssumption DEF IncomeType
    <2>3. incomes' \in Seq(IncomeType)
      BY <2>1, <2>2 DEF IInv, Typed
    <2> QED BY <1>3, <2>3 DEF RecordIncome, IInv, Typed, WalkOK, DayOK, Now
  <1>4. CASE UNCHANGED vars
    BY <1>4 DEF vars, IInv, Typed, WalkOK, DayOK, Now
  <1> QED BY <1>1, <1>2, <1>3, <1>4, <1>5 DEF Next

\* The inductive invariant of Questions.
LEMMA AlwaysIInv == Spec => []IInv
  BY InitIInv, NextIInv, PTL DEF Spec

-----------------------------------------------------------------------------
(***************************************************************************)
(* Ranges.                                                                 *)
(***************************************************************************)
\* A day lies in a month if it has the month's number.
LEMMA InMonth ==
    ASSUME NEW d \in Dates, NEW y \in Nat \ {0}, NEW m \in 1 .. 12
    PROVE  /\ First(y, m) <= Ordinal(d)
           /\ Ordinal(d) < First(y, m) + DaysInMonth(y, m)
           <=> Months(d.year, d.month) = Months(y, m)
  <1>1. /\ d.year \in Nat \ {0} /\ d.month \in 1 .. 12
        /\ d.day \in 1 .. DaysInMonth(d.year, d.month)
        /\ First(d.year, d.month) \in Int
        /\ DaysInMonth(d.year, d.month) \in 28 .. 31
        /\ Ordinal(d) \in Nat
        /\ Ordinal(d) = First(d.year, d.month) + d.day - 1
    BY DateIs
  <1>2. First(y, m) \in Int /\ DaysInMonth(y, m) \in Int
    BY FirstType
  <1> DEFINE M == Months(d.year, d.month)
             N == Months(y, m)
  <1>3. M \in Int /\ N \in Int
    BY <1>1 DEF Months
  <1>4. CASE M = N
    <2>1. d.year = y /\ d.month = m
      BY <1>1, <1>4, MonthsNumber
    <2> QED BY <1>1, <1>4, <2>1
  <1>5. CASE M < N
    <2>1. First(d.year, d.month) + DaysInMonth(d.year, d.month) <= First(y, m)
      BY <1>1, <1>5, MonthsApart
    <2>2. M # N
      BY <1>3, <1>5
    <2> QED BY <1>1, <1>2, <2>1, <2>2
  <1>6. CASE N < M
    <2>1. First(y, m) + DaysInMonth(y, m) <= First(d.year, d.month)
      BY <1>1, <1>6, MonthsApart
    <2>2. M # N
      BY <1>3, <1>6
    <2> QED BY <1>1, <1>2, <2>1, <2>2
  <1> QED BY <1>3, <1>4, <1>5, <1>6

\* The month before is found from the day before the first.
LEMMA LastMonthIs ==
    ASSUME NEW d \in Dates, d.year - 1 \in Years
    PROVE  \E y \in Nat \ {0}, m \in 1 .. 12 :
              /\ Months(y, m) = Months(d.year, d.month) - 1
              /\ First(y, m) + DaysInMonth(y, m) = First(d.year, d.month)
              /\ LastMonth(d) = Span(First(y, m), First(d.year, d.month) - 1)
  <1> DEFINE y == IF d.month = 1 THEN d.year - 1 ELSE d.year
             m == IF d.month = 1 THEN 12 ELSE d.month - 1
             e == [year |-> y, month |-> m, day |-> DaysInMonth(y, m)]
  <1>1. /\ d.year \in Years /\ d.year \in Nat \ {0} /\ d.month \in 1 .. 12
        /\ MonthStart(d) = First(d.year, d.month)
        /\ First(d.year, d.month) \in Int
    BY DateIs
  <1>2. /\ y \in Years /\ y \in Nat \ {0} /\ m \in 1 .. 12
        /\ Months(y, m) = Months(d.year, d.month) - 1
    BY <1>1, CalendarAssumption DEF Months
  <1>3. First(y, m) + DaysInMonth(y, m) = First(d.year, d.month)
    <2>1. CASE d.month = 1
      <3>1. First(y, 12) + 31 = First(d.year, 1)
        BY <1>1, <1>2, <2>1, FirstOfYear
      <3>2. DaysInMonth(y, 12) = 31
        BY DEF DaysInMonth
      <3> QED BY <2>1, <3>1, <3>2
    <2>2. CASE d.month # 1
      <3>1. m \in 1 .. 11 /\ m + 1 = d.month
        BY <1>1, <2>2
      <3> QED BY <1>2, <2>2, <3>1, MonthLength
    <2> QED BY <2>1, <2>2
  <1> HIDE DEF y, m
  <1>4. e \in Dates
    BY <1>2, FirstType DEF Dates
  <1>5. Ordinal(e) = First(d.year, d.month) - 1 /\ MonthStart(e) = First(y, m)
    BY <1>1, <1>2, <1>3, <1>4, DateIs, FirstType
  <1>6. FromOrdinal(Ordinal(e)) = e
    BY <1>4, OrdinalBack
  <1> HIDE DEF e
  <1>7. LastMonth(d) = Span(MonthStart(e), Ordinal(e))
    BY <1>1, <1>5, <1>6 DEF LastMonth
  <1> QED BY <1>2, <1>3, <1>5, <1>7

\* What the invariant says of one day of the walk and of today.
LEMMA DayIs ==
    ASSUME IInv, NEW i \in DOMAIN walk
    PROVE  LET day  == walk[i]
               last == walk[Len(walk)]
           IN  /\ i \in 1 .. Len(walk) /\ Len(walk) \in DOMAIN walk
               /\ day.date \in Dates /\ day.weekday \in 0 .. 6
               /\ day.week \in Nat
               /\ last.date = today /\ last.weekday \in 0 .. 6
               /\ last.week \in Nat
               /\ Ordinal(day.date) \in Nat /\ Now \in Nat
               /\ day.number = Ordinal(day.date)
               /\ Ordinal(day.date) = Now - Len(walk) + i
               /\ last.weekday = Weekday(Now)
               /\ Ordinal(day.date) - day.weekday - 7 * day.week
                     = Now - last.weekday - 7 * last.week
  <1>1. /\ i \in 1 .. Len(walk) /\ Len(walk) \in DOMAIN walk
        /\ walk[i] \in WalkType /\ walk[Len(walk)] \in WalkType
    BY DEF IInv, Typed
  <1>2. walk[Len(walk)].date = today /\ DayOK(walk[Len(walk)])
    BY <1>1 DEF IInv, WalkOK
  <1>3. Ordinal(walk[i].date) = Now - Len(walk) + i /\ DayOK(walk[i])
    BY DEF IInv, WalkOK
  <1>4. Ordinal(walk[i].date) \in Nat /\ Now \in Nat
    BY <1>1, <1>2, DateIs DEF WalkType, Now
  <1> QED BY <1>1, <1>2, <1>3, <1>4 DEF DayOK, WalkType, Now

\* Membership of a window is a matter of its two ends.
LEMMA InSpan ==
    ASSUME NEW o \in Int, NEW a \in Int, NEW b \in Int, NEW w, w = Span(a, b)
    PROVE  o \in w.start .. w.end <=> a <= o /\ o <= b
  BY DEF Span

\* One named window holds the days the walk says it should.
LEMMA RangeMatches ==
    ASSUME IInv, NEW i \in DOMAIN walk, NEW name \in Named
    PROVE  LET w == Window(Period(name), today)
           IN  walk[i].number \in w.start .. w.end <=> Shown(name, walk[i])
  <1> DEFINE day  == walk[i]
             last == walk[Len(walk)]
             o    == Ordinal(day.date)
             a    == day.weekday
             b    == last.weekday
             u    == day.week
             v    == last.week
             w    == Window(Period(name), today)
  <1>0. /\ i \in 1 .. Len(walk) /\ day.date \in Dates /\ last.date = today
        /\ b = Weekday(Now) /\ day.number = o
    BY DayIs
  <1>1. /\ o \in Int /\ Now \in Int /\ o <= Now /\ (o = Now => i = Len(walk))
        /\ a \in 0 .. 6 /\ b \in 0 .. 6 /\ u \in Int /\ v \in Int
        /\ o - a - 7 * u = Now - b - 7 * v
    <2>1. /\ o \in Nat /\ Now \in Nat /\ o = Now - Len(walk) + i
          /\ a \in 0 .. 6 /\ b \in 0 .. 6 /\ u \in Nat /\ v \in Nat
          /\ o - a - 7 * u = Now - b - 7 * v
      BY DayIs
    <2>2. Len(walk) \in Nat
      BY DEF IInv, Typed
    <2> HIDE DEF o, a, b, u, v
    <2> DEFINE l == Len(walk)
    <2>3. /\ i \in 1 .. l /\ l \in Nat /\ o = Now - l + i
          /\ o \in Nat /\ Now \in Nat
      BY <1>0, <2>1, <2>2
    <2> HIDE DEF l
    <2>4. o <= Now /\ (o = Now => i = l)
      BY <2>3
    <2> QED BY <2>1, <2>4 DEF l
  <1>2. Now = Ordinal(today) /\ today \in Dates /\ today.year - 1 \in Years
    BY DEF Now, IInv, Typed, WalkOK
  <1>3. WeekStart(today) = Now - b
    BY <1>0, <1>2 DEF WeekStart
  <1> HIDE DEF o, a, b, u, v, w
  <1>4. CASE name = "today"
    <2>1. w = Span(Now, Now)
      BY <1>2, <1>4 DEF Window, Period, w
    <2>2. o = Now <=> day = last
      BY <1>0, <1>1, <1>2 DEF o
    <2>3. o \in w.start .. w.end <=> o = Now
      BY <1>1, <2>1, InSpan
    <2> QED BY <1>0, <1>4, <2>2, <2>3 DEF Shown, w
  <1>5. CASE name = "this_week"
    <2>1. w = Span(Now - b, Now)
      BY <1>2, <1>3, <1>5 DEF Window, Period, w
    <2>2. Now - b <= o <=> u = v
      BY <1>1
    <2>3. o \in w.start .. w.end <=> Now - b <= o
      BY <1>1, <2>1 DEF Span
    <2> QED BY <1>0, <1>5, <2>2, <2>3 DEF Shown, w, u, v
  <1>6. CASE name = "last_week"
    <2>1. w = Span(Now - b - 7, Now - b - 1)
      BY <1>2, <1>3, <1>6 DEF Window, Period, w
    <2>2. Now - b - 7 <= o /\ o <= Now - b - 1 <=> u = v - 1
      BY <1>1
    <2>3. o \in w.start .. w.end <=> Now - b - 7 <= o /\ o <= Now - b - 1
      BY <1>1, <2>1 DEF Span
    <2> QED BY <1>0, <1>6, <2>2, <2>3 DEF Shown, w, u, v
  <1>7. CASE name = "this_month"
    <2> DEFINE f == First(today.year, today.month)
               n == DaysInMonth(today.year, today.month)
    <2>1. w = Span(f, Now)
      BY <1>2, <1>7, DateIs DEF Window, Period, w
    <2>2. /\ today.year \in Nat \ {0} /\ today.month \in 1 .. 12
          /\ f \in Int /\ Now < f + n
      BY <1>2, DateIs
    <2>3. f <= o /\ o < f + n <=> Months(day.date.year, day.date.month)
                                     = Months(today.year, today.month)
      BY <1>0, <2>2, InMonth DEF o
    <2>4. n \in Int
      BY <2>2, FirstType
    <2> HIDE DEF f, n
    <2>5. o \in w.start .. w.end <=> f <= o /\ o < f + n
      BY <1>1, <2>1, <2>2, <2>4 DEF Span
    <2> QED BY <1>0, <1>7, <2>3, <2>5 DEF Shown, Months, w
  <1>8. CASE name = "last_month"
    <2>1. w = LastMonth(today)
      BY <1>8 DEF Window, Period, w
    <2> DEFINE f == First(today.year, today.month)
    <2>2. PICK y \in Nat \ {0}, m \in 1 .. 12 :
             /\ Months(y, m) = Months(today.year, today.month) - 1
             /\ First(y, m) + DaysInMonth(y, m) = f
             /\ w = Span(First(y, m), f - 1)
      BY <1>2, <2>1, LastMonthIs
    <2> DEFINE g == First(y, m)
               n == DaysInMonth(y, m)
    <2>3. f \in Int /\ g \in Int /\ n \in Int
      BY <1>2, FirstType, DateIs
    <2>4. g <= o /\ o < g + n
             <=> Months(day.date.year, day.date.month) = Months(y, m)
      BY <1>0, InMonth DEF o
    <2>5. g + n = f /\ w = Span(g, f - 1)
      BY <2>2
    <2> HIDE DEF f, g, n
    <2>6. o \in w.start .. w.end <=> g <= o /\ o < g + n
      BY <1>1, <2>3, <2>5 DEF Span
    <2> QED BY <1>0, <1>8, <2>2, <2>4, <2>6 DEF Shown, Months, w
  <1> QED BY <1>0, <1>4, <1>5, <1>6, <1>7, <1>8 DEF Named, w

\* All of them do: the property of app/query.py the run checks.
LEMMA RangesMatch == IInv => RangesMatchCalendar
  <1> SUFFICES ASSUME IInv PROVE RangesMatchCalendar
    OBVIOUS
  <1>1. Len(walk) \in DOMAIN walk /\ today \in Dates
    BY DEF IInv, Typed
  <1>2. /\ Weekday(Now) = walk[Len(walk)].weekday
        /\ Now = walk[Len(walk)].number
    BY <1>1, DayIs DEF Now
  <1>3. FromOrdinal(Now) = today
    BY <1>1, OrdinalBack DEF Now
  <1> QED BY <1>2, <1>3, RangeMatches DEF RangesMatchCalendar

\* resolve_date_range agrees with a calendar that is made by counting, for
\* every first day: over all turns of weeks, months and years, leap or not.
THEOREM RangesAreTheCalendars == Spec => []RangesMatchCalendar
  BY AlwaysIInv, RangesMatch, PTL

-----------------------------------------------------------------------------
(***************************************************************************)
(* Sums of rows.                                                           *)
(***************************************************************************)
Disjoint(A, B, S) == A \subseteq S /\ B \subseteq S /\ A \cap B = {}

\* The amounts of rows add up to a natural number, part by part.
LEMMA RowsSum ==
    ASSUME NEW rows, NEW R, rows \in Seq(R), \A r \in R : r.amount \in Nat
    PROVE  /\ \A A \in SUBSET DOMAIN rows :
                 /\ IsFiniteSet(A)
                 /\ \A r \in A : Amounts(rows)[r] = rows[r].amount
                 /\ \A r \in A : Amounts(rows)[r] \in Nat
                 /\ SumFunctionOnSet(Amounts(rows), A) \in Nat
           /\ \A A, B : Disjoint(A, B, DOMAIN rows) =>
                 SumFunctionOnSet(Amounts(rows), A \cup B)
                    = SumFunctionOnSet(Amounts(rows), A)
                      + SumFunctionOnSet(Amounts(rows), B)
  <1>1. IsFiniteSet(DOMAIN rows)
    <2>1. DOMAIN rows = 1 .. Len(rows) /\ Len(rows) \in Nat
      OBVIOUS
    <2> QED BY <2>1, FS_Interval
  <1>2. \A r \in DOMAIN rows : /\ Amounts(rows)[r] = rows[r].amount
                               /\ Amounts(rows)[r] \in Nat
    BY DEF Amounts
  <1>3. ASSUME NEW A \in SUBSET DOMAIN rows
        PROVE  /\ IsFiniteSet(A)
               /\ \A r \in A : Amounts(rows)[r] \in Nat
               /\ \A r \in A : Amounts(rows)[r] = rows[r].amount
               /\ SumFunctionOnSet(Amounts(rows), A) \in Nat
    <2>1. IsFiniteSet(A)
      BY <1>1, FS_Subset
    <2> QED BY <1>2, <2>1, SumNat
  <1>4. ASSUME NEW A, NEW B, Disjoint(A, B, DOMAIN rows)
        PROVE  SumFunctionOnSet(Amounts(rows), A \cup B)
                  = SumFunctionOnSet(Amounts(rows), A)
                    + SumFunctionOnSet(Amounts(rows), B)
    <2>1. IsFiniteSet(A) /\ IsFiniteSet(B) /\ A \cap B = {}
      BY <1>3, <1>4 DEF Disjoint
    <2>2. \A r \in A \cup B : Amounts(rows)[r] \in Int
      BY <1>2, <1>4 DEF Disjoint
    <2> QED BY <2>1, <2>2, SumSplit
  <1> QED BY <1>3, <1>4

\* What was spent over some rows, and over two sets of them.
LEMMA SpentSum ==
    ASSUME IInv
    PROVE  /\ \A E \in SUBSET DOMAIN expenses :
                 IsFiniteSet(E) /\ Spent(E) \in Nat
           /\ \A E, F : Disjoint(E, F, DOMAIN expenses) =>
                 Spent(E \cup F) = Spent(E) + Spent(F)
  <1>1. expenses \in Seq(ExpenseType) /\ \A r \in ExpenseType : r.amount \in Nat
    BY DEF IInv, Typed, ExpenseType
  <1> QED BY <1>1, RowsSum, Zenon DEF Spent

\* So do the deposits of the incomes table.
LEMMA EarnedSum ==
    ASSUME IInv
    PROVE  /\ \A I \in SUBSET DOMAIN incomes : Earned(I) \in Nat
           /\ \A I, J : Disjoint(I, J, DOMAIN incomes) =>
                 Earned(I \cup J) = Earned(I) + Earned(J)
  <1>1. incomes \in Seq(IncomeType) /\ \A r \in IncomeType : r.amount \in Nat
    BY DEF IInv, Typed, IncomeType
  <1> QED BY <1>1, RowsSum, Zenon DEF Earned

\* Every row is dated with an ordinal.
LEMMA RowDates ==
    ASSUME IInv
    PROVE  /\ \A e \in DOMAIN expenses : expenses[e].date \in Nat \ {0}
           /\ \A i \in DOMAIN incomes : incomes[i].date \in Nat \ {0}
  <1>1. /\ \A e \in DOMAIN expenses : expenses[e] \in ExpenseType
        /\ \A i \in DOMAIN incomes : incomes[i] \in IncomeType
    BY DEF IInv, Typed
  <1> QED BY <1>1 DEF ExpenseType, IncomeType

\* A span of days that is cut in two.
LEMMA SpansMeet ==
    ASSUME IInv, NEW a \in Int, NEW b \in Int, NEW c \in Int,
           a <= c + 1, c <= b
    PROVE  /\ ExpensesIn(Span(a, c)) \cup ExpensesIn(Span(c + 1, b))
                  = ExpensesIn(Span(a, b))
           /\ ExpensesIn(Span(a, c)) \cap ExpensesIn(Span(c + 1, b)) = {}
           /\ IncomesIn(Span(a, c)) \cup IncomesIn(Span(c + 1, b))
                  = IncomesIn(Span(a, b))
           /\ IncomesIn(Span(a, c)) \cap IncomesIn(Span(c + 1, b)) = {}
  <1>1. \A o \in Int : o \in a .. b <=> o \in a .. c \/ o \in (c + 1) .. b
    OBVIOUS
  <1>2. \A o \in Int : ~(o \in a .. c /\ o \in (c + 1) .. b)
    OBVIOUS
  <1>3. /\ \A e \in DOMAIN expenses : expenses[e].date \in Int
        /\ \A i \in DOMAIN incomes : incomes[i].date \in Int
    BY RowDates
  <1> QED BY <1>1, <1>2, <1>3 DEF ExpensesIn, IncomesIn, Span

\* Two nets are added figure by figure.
LEMMA PlusIs ==
    ASSUME NEW i, NEW s, NEW m, NEW j, NEW t, NEW n
    PROVE  Plus([income |-> i, spend |-> s, moved |-> m],
                [income |-> j, spend |-> t, moved |-> n])
              = [income |-> i + j, spend |-> s + t, moved |-> m + n]
  BY DEF Plus

\* The net of a window is that of its two halves together.
LEMMA NetSplit ==
    ASSUME IInv, NEW a \in Int, NEW b \in Int, NEW c \in Int,
           a <= c + 1, c <= b
    PROVE  Plus(Net(Span(a, c)), Net(Span(c + 1, b))) = Net(Span(a, b))
  <1> DEFINE E == ExpensesIn(Span(a, c))
             F == ExpensesIn(Span(c + 1, b))
             G == ExpensesIn(Span(a, b))
             I == IncomesIn(Span(a, c))
             J == IncomesIn(Span(c + 1, b))
             K == IncomesIn(Span(a, b))
  <1>1. /\ E \cup F = G /\ E \cap F = {} /\ I \cup J = K /\ I \cap J = {}
    BY SpansMeet
  <1>2. /\ E \subseteq DOMAIN expenses /\ F \subseteq DOMAIN expenses
        /\ I \subseteq DOMAIN incomes /\ J \subseteq DOMAIN incomes
    BY DEF ExpensesIn, IncomesIn
  <1>3. Net(Span(a, c)) = [income |-> Earned(I), spend |-> Spent(NotSavings(E)),
                           moved |-> Spent(E \ NotSavings(E))]
    BY DEF Net
  <1>4. Net(Span(c + 1, b)) = [income |-> Earned(J),
                               spend |-> Spent(NotSavings(F)),
                               moved |-> Spent(F \ NotSavings(F))]
    BY DEF Net
  <1>5. Net(Span(a, b)) = [income |-> Earned(K), spend |-> Spent(NotSavings(G)),
                           moved |-> Spent(G \ NotSavings(G))]
    BY DEF Net
  <1> HIDE DEF E, F, G, I, J, K
  <1>6. Earned(K) = Earned(I) + Earned(J)
    <2>1. Earned(I \cup J) = Earned(I) + Earned(J)
      BY <1>1, <1>2, EarnedSum DEF Disjoint
    <2> QED BY <1>1, <2>1, Zenon
  <1>7. Spent(NotSavings(G)) = Spent(NotSavings(E)) + Spent(NotSavings(F))
    <2>1. /\ Disjoint(NotSavings(E), NotSavings(F), DOMAIN expenses)
          /\ NotSavings(E) \cup NotSavings(F) = NotSavings(G)
      BY <1>1, <1>2 DEF Disjoint, NotSavings
    <2>2. Spent(NotSavings(E) \cup NotSavings(F))
             = Spent(NotSavings(E)) + Spent(NotSavings(F))
      BY <2>1, SpentSum
    <2> QED BY <2>1, <2>2, Zenon
  <1>8. Spent(G \ NotSavings(G))
           = Spent(E \ NotSavings(E)) + Spent(F \ NotSavings(F))
    <2>1. /\ Disjoint(E \ NotSavings(E), F \ NotSavings(F), DOMAIN expenses)
          /\ (E \ NotSavings(E)) \cup (F \ NotSavings(F)) = G \ NotSavings(G)
      BY <1>1, <1>2 DEF Disjoint, NotSavings
    <2>2. Spent((E \ NotSavings(E)) \cup (F \ NotSavings(F)))
             = Spent(E \ NotSavings(E)) + Spent(F \ NotSavings(F))
      BY <2>1, SpentSum
    <2> QED BY <2>1, <2>2, Zenon
  <1>9. Plus(Net(Span(a, c)), Net(Span(c + 1, b)))
           = [income |-> Earned(I) + Earned(J),
              spend  |-> Spent(NotSavings(E)) + Spent(NotSavings(F)),
              moved  |-> Spent(E \ NotSavings(E)) + Spent(F \ NotSavings(F))]
    <2>1. Plus([income |-> Earned(I), spend |-> Spent(NotSavings(E)),
                moved |-> Spent(E \ NotSavings(E))],
               [income |-> Earned(J), spend |-> Spent(NotSavings(F)),
                moved |-> Spent(F \ NotSavings(F))])
             = [income |-> Earned(I) + Earned(J),
                spend  |-> Spent(NotSavings(E)) + Spent(NotSavings(F)),
                moved  |-> Spent(E \ NotSavings(E)) + Spent(F \ NotSavings(F))]
      BY PlusIs
    <2> QED BY <1>3, <1>4, <2>1, Zenon
  <1> QED BY <1>5, <1>6, <1>7, <1>8, <1>9, Zenon

\* The ranges of this month and of the last one meet.
LEMMA MonthSpans ==
    ASSUME IInv
    PROVE  \E a \in Nat \ {0}, f \in Nat \ {0} :
              /\ a <= f /\ f <= Now /\ Now \in Nat
              /\ Window(Period("last_month"), today) = Span(a, f - 1)
              /\ Window(Period("this_month"), today) = Span(f, Now)
              /\ \A d \in Dates : /\ d.day = 1
                                  /\ Ordinal(d) \in a .. f - 1
                                  => Ordinal(d) = a
  <1>1. today \in Dates /\ today.year - 1 \in Years /\ Now = Ordinal(today)
    BY DEF IInv, Typed, WalkOK, Now
  <1> DEFINE f == First(today.year, today.month)
  <1>2. PICK y \in Nat \ {0}, m \in 1 .. 12 :
           /\ First(y, m) + DaysInMonth(y, m) = f
           /\ LastMonth(today) = Span(First(y, m), f - 1)
    BY <1>1, LastMonthIs
  <1> DEFINE a == First(y, m)
  <1>3. /\ \A n \in Nat \ {0}, k \in 1 .. 12 : First(n, k) \in Nat \ {0}
        /\ a \in Nat \ {0} /\ f \in Nat \ {0} /\ a <= f
    <2>1. ASSUME NEW n \in Nat \ {0}, NEW k \in 1 .. 12
          PROVE  First(n, k) \in Nat \ {0}
      <3>1. DaysBefore(1) <= DaysBefore(n) /\ DaysBefore(1) = 0
        BY YearsGrow DEF DaysBefore
      <3>2. DaysBefore(n) \in Int
        BY DEF DaysBefore
      <3>3. First(n, 1) = DaysBefore(n) + 1 /\ First(n, 1) <= First(n, k)
        BY FirstOfYear, InYear
      <3> QED BY <3>1, <3>2, <3>3, FirstType
    <2>2. today.year \in Nat \ {0} /\ today.month \in 1 .. 12
      BY <1>1, DateIs
    <2>3. DaysInMonth(y, m) \in 28 .. 31
      BY FirstType
    <2> QED BY <1>2, <2>1, <2>2, <2>3
  <1>4. f <= Now /\ Now \in Nat /\ MonthStart(today) = f
    BY <1>1, <1>3, DateIs
  <1>5. /\ Window(Period("last_month"), today) = Span(a, f - 1)
        /\ Window(Period("this_month"), today) = Span(f, Now)
    BY <1>1, <1>2, <1>4 DEF Window, Period
  <1>6. ASSUME NEW d \in Dates, d.day = 1, Ordinal(d) \in a .. f - 1
        PROVE  Ordinal(d) = a
    <2>1. /\ d.year \in Nat \ {0} /\ d.month \in 1 .. 12
          /\ Ordinal(d) = First(d.year, d.month)
      BY <1>6, DateIs
    <2>2. a <= Ordinal(d) /\ Ordinal(d) < a + DaysInMonth(y, m)
      BY <1>2, <1>3, <1>6
    <2>3. d.year = y /\ d.month = m
      BY <2>1, <2>2, InMonth, MonthsNumber
    <2> QED BY <2>1, <2>3
  <1> HIDE DEF a, f
  <1> QED BY <1>3, <1>4, <1>5, <1>6

\* Hence /ask counts each row once, however months are cut.
LEMMA CountedOnce == IInv => MoneyCountedOnce
  <1> SUFFICES ASSUME IInv PROVE MoneyCountedOnce
    OBVIOUS
  <1> DEFINE last == Window(Period("last_month"), today)
             this == Window(Period("this_month"), today)
             all  == {expenses[e].category : e \in DOMAIN expenses}
             of(from, to) == Net(Window(Custom(from, to), today))
  <1>1. PICK a \in Nat \ {0}, f \in Nat \ {0} :
           /\ a <= f /\ f <= Now /\ Now \in Nat
           /\ last = Span(a, f - 1) /\ this = Span(f, Now)
           /\ \A d \in Dates : d.day = 1 /\ Ordinal(d) \in a .. f - 1
                               => Ordinal(d) = a
    BY MonthSpans
  <1>2. \A from, to \in Nat \ {0} : of(from, to) = Net(Span(from, to))
    BY DEF Window, Custom, NoDay
  <1>3. ASSUME NEW w
        PROVE  Net(w).spend + Net(w).moved = Result(w, all).total
    <2> DEFINE E == ExpensesIn(w)
               U == NotSavings(E)
    <2>1. E \subseteq DOMAIN expenses
      BY DEF ExpensesIn
    <2>2. Selected(w, all) = E
      BY DEF Selected, ExpensesIn
    <2>3. Disjoint(U, E \ U, DOMAIN expenses) /\ U \cup (E \ U) = E
      BY <2>1 DEF Disjoint, NotSavings
    <2>4. Spent(U \cup (E \ U)) = Spent(U) + Spent(E \ U)
      BY <2>3, SpentSum
    <2>5. Spent(E) = Spent(U) + Spent(E \ U)
      BY <2>3, <2>4, Zenon
    <2>6. Net(w).spend = Spent(U) /\ Net(w).moved = Spent(E \ U)
      BY DEF Net
    <2>7. Result(w, all).total = Spent(Selected(w, all))
      BY DEF Result
    <2> QED BY <2>2, <2>5, <2>6, <2>7
  <1>4. ASSUME NEW day \in Datable, day \in this.start .. this.end - 1
        PROVE  Plus(of(this.start, day), of(day + 1, this.end)) = Net(this)
    <2>1. this.start = f /\ this.end = Now
      BY <1>1 DEF Span
    <2>2. day \in Nat \ {0} /\ f <= day /\ day + 1 <= Now
      BY <1>1, <1>4, <2>1, DatableType
    <2>3. of(f, day) = Net(Span(f, day)) /\ of(day + 1, Now) = Net(Span(day + 1, Now))
      BY <1>1, <1>2, <2>2
    <2>4. Plus(Net(Span(f, day)), Net(Span(day + 1, Now))) = Net(Span(f, Now))
      BY <1>1, <2>2, NetSplit
    <2> QED BY <1>1, <2>1, <2>3, <2>4, Zenon
  <1>5. ASSUME NEW i \in DOMAIN walk, walk[i].date.day = 1,
               Ordinal(walk[i].date) \in last.start .. last.end
        PROVE  Plus(Net(last), Net(this)) = of(Ordinal(walk[i].date), this.end)
    <2>1. last.start = a /\ last.end = f - 1 /\ this.end = Now
      BY <1>1 DEF Span
    <2>2. walk[i].date \in Dates
      BY DayIs
    <2>3. Ordinal(walk[i].date) = a
      BY <1>1, <1>5, <2>1, <2>2
    <2>4. of(a, Now) = Net(Span(a, Now))
      BY <1>1, <1>2
    <2> DEFINE c == f - 1
    <2>5. c \in Int /\ a <= c + 1 /\ c <= Now /\ c + 1 = f
      BY <1>1
    <2> HIDE DEF c
    <2>6. Plus(Net(Span(a, c)), Net(Span(c + 1, Now))) = Net(Span(a, Now))
      BY <1>1, <2>5, NetSplit
    <2>7. last = Span(a, c) /\ this = Span(c + 1, Now)
      BY <1>1, <2>5 DEF c
    <2> QED BY <2>1, <2>3, <2>4, <2>6, <2>7, Zenon
  <1> HIDE DEF of
  <1>6. \A w \in {last, this} : Net(w).spend + Net(w).moved = Result(w, all).total
    BY <1>3
  <1> USE DEF of
  <1> QED BY <1>4, <1>5, <1>6 DEF MoneyCountedOnce

\* And /spend and /income agree with /ask over one table.
LEMMA Agree == IInv => SummariesAgree
  <1> SUFFICES ASSUME IInv PROVE SummariesAgree
    OBVIOUS
  <1> DEFINE net(name) == Net(Window(Period(name), today))
  <1>1. Now \in Nat /\ Now = Ordinal(today)
    BY DateIs DEF Now, IInv, Typed
  <1>2. /\ Window(Period("this_week"), today) = Span(WeekStart(today), Now)
        /\ Window(Period("this_month"), today) = Span(MonthStart(today), Now)
        /\ Window(Period("last_month"), today) = LastMonth(today)
    BY <1>1 DEF Window, Period
  <1>3. WeekStart(today) \in Int /\ MonthStart(today) \in Int
    <2>1. Weekday(Now) \in Int
      BY <1>1, WeekdayType
    <2>2. today \in Dates
      BY DEF IInv, Typed
    <2>3. MonthStart(today) \in Int
      BY <2>2, DateIs
    <2> QED BY <1>1, <2>1, <2>3 DEF WeekStart
  <1>4. ASSUME NothingAhead, NEW s \in Int
        PROVE  /\ Since(s) = ExpensesIn(Span(s, Now))
               /\ {i \in DOMAIN incomes : incomes[i].date >= s}
                     = IncomesIn(Span(s, Now))
    <2>1. /\ \A e \in DOMAIN expenses : /\ expenses[e].date \in Nat
                                        /\ expenses[e].date <= Now
          /\ \A i \in DOMAIN incomes : /\ incomes[i].date \in Nat
                                       /\ incomes[i].date <= Now
      BY <1>4, RowDates DEF NothingAhead
    <2>2. \A o \in Nat : o <= Now => (o >= s <=> o \in s .. Now)
      BY <1>1
    <2> QED BY <2>1, <2>2 DEF Since, ExpensesIn, IncomesIn, Span
  <1>5. ASSUME NothingAhead
        PROVE  /\ SpendSummary(today).week = net("this_week").spend
               /\ SpendSummary(today).month = net("this_month").spend
               /\ IncomeSummary(today).month = net("this_month").income
    <2>1. /\ SpendSummary(today).week
                = Spent(NotSavings(ExpensesIn(Span(WeekStart(today), Now))))
          /\ SpendSummary(today).month
                = Spent(NotSavings(ExpensesIn(Span(MonthStart(today), Now))))
          /\ IncomeSummary(today).month
                = Earned(IncomesIn(Span(MonthStart(today), Now)))
      BY <1>3, <1>4, <1>5
         DEF SpendSummary, IncomeSummary, SpentSince, EarnedSince
    <2> QED BY <1>2, <2>1 DEF Net
  <1>6. IncomeSummary(today).lastMonth = net("last_month").income
    BY <1>2 DEF IncomeSummary, Net
  <1> QED BY <1>5, <1>6 DEF SummariesAgree

\* Whatever rows there are, a cut in a period loses no money and counts none
\* twice: what was spent and what was moved to savings make up the total.
THEOREM MoneyIsCountedOnce == Spec => []MoneyCountedOnce
  BY AlwaysIInv, CountedOnce, PTL

\* The query, the summaries and the income view tell one story, for any rows
\* none of which is dated in the future.
THEOREM SummariesTellOneStory == Spec => []SummariesAgree
  BY AlwaysIInv, Agree, PTL

-----------------------------------------------------------------------------
(***************************************************************************)
(* Figures as functions of the rows: what a SELECT returns on any tables.  *)
(***************************************************************************)
Total(rows, E) == SumFunctionOnSet(Amounts(rows), E)

SinceOf(rows, s) == {e \in DOMAIN rows : rows[e].date >= s}
SpendOf(rows, s) == {e \in SinceOf(rows, s) : rows[e].category # Savings}
InOf(rows, w)    == {e \in DOMAIN rows : rows[e].date \in w.start .. w.end}

SpendFigures(rows, d) ==
    [week  |-> Total(rows, SpendOf(rows, WeekStart(d))),
     month |-> Total(rows, SpendOf(rows, MonthStart(d))),
     year  |-> Total(rows, SpendOf(rows, YearStart(d))),
     total |-> Total(rows, SpendOf(rows, NoDay))]

IncomeFigures(rows, d) ==
    [month     |-> Total(rows, SinceOf(rows, MonthStart(d))),
     lastMonth |-> Total(rows, InOf(rows, LastMonth(d))),
     year      |-> Total(rows, SinceOf(rows, YearStart(d))),
     total     |-> Total(rows, SinceOf(rows, NoDay))]

WeekOf(rows, d) == SpendOf(rows, WeekStart(d))

CategoriesOf(rows, d) ==
    [c \in {rows[e].category : e \in WeekOf(rows, d)} |->
        Total(rows, {e \in WeekOf(rows, d) : rows[e].category = c})]

BiggestOf(rows, d) ==
    {e \in WeekOf(rows, d) :
        \A f \in WeekOf(rows, d) : rows[f].amount <= rows[e].amount}

\* The first n rows in a window, those of spend and those of savings.
Kept(rows, w, n)  == {e \in InOf(rows, w) : e <= n /\ rows[e].category # Savings}
Moved(rows, w, n) == {e \in InOf(rows, w) : e <= n /\ rows[e].category = Savings}

\* The replies' figures as sums over the rows of their windows.
LEMMA FiguresAre ==
    ASSUME IInv, NEW d, NEW w
    PROVE  /\ SpendSummary(d) = SpendFigures(expenses, d)
           /\ IncomeSummary(d) = IncomeFigures(incomes, d)
           /\ Categories(d) = CategoriesOf(expenses, d)
           /\ Biggest(WeekRows(d)) = BiggestOf(expenses, d)
           /\ Net(w).spend = Total(expenses, Kept(expenses, w, Len(expenses)))
           /\ Net(w).moved = Total(expenses, Moved(expenses, w, Len(expenses)))
  <1>1. \A s : NotSavings(Since(s)) = SpendOf(expenses, s)
    BY DEF NotSavings, Since, SpendOf, SinceOf
  <1>2. SpendSummary(d) = SpendFigures(expenses, d)
    BY <1>1 DEF SpendSummary, SpendFigures, SpentSince, Spent, Total
  <1>3. IncomeSummary(d) = IncomeFigures(incomes, d)
    BY DEF IncomeSummary, IncomeFigures, EarnedSince, Earned, IncomesIn, Total,
           SinceOf, InOf
  <1>4. WeekRows(d) = WeekOf(expenses, d)
    BY <1>1 DEF WeekRows, WeekOf
  <1>5. Categories(d) = CategoriesOf(expenses, d)
    BY <1>4 DEF Categories, CategoriesOf, Spent, Total
  <1>6. Biggest(WeekRows(d)) = BiggestOf(expenses, d)
    BY <1>4 DEF Biggest, BiggestOf
  <1>7. /\ NotSavings(ExpensesIn(w)) = Kept(expenses, w, Len(expenses))
        /\ ExpensesIn(w) \ NotSavings(ExpensesIn(w))
              = Moved(expenses, w, Len(expenses))
    <2>1. \A e \in DOMAIN expenses : e <= Len(expenses)
      BY DEF IInv, Typed
    <2> QED BY <2>1 DEF NotSavings, ExpensesIn, Kept, Moved, InOf
  <1>8. /\ Net(w).spend = Total(expenses, Kept(expenses, w, Len(expenses)))
        /\ Net(w).moved = Total(expenses, Moved(expenses, w, Len(expenses)))
    BY <1>7 DEF Net, Spent, Total
  <1> QED BY <1>2, <1>3, <1>5, <1>6, <1>8

\* A recorded row adds to no sum less than what it was.
LEMMA AppendGrows ==
    ASSUME NEW R, \A r \in R : r.amount \in Nat,
           NEW rows \in Seq(R), NEW row \in R,
           NEW A \in SUBSET DOMAIN rows,
           NEW B \in SUBSET DOMAIN Append(rows, row), A \subseteq B
    PROVE  /\ Total(rows, A) \in Nat /\ Total(Append(rows, row), B) \in Nat
           /\ Total(rows, A) <= Total(Append(rows, row), B)
           /\ Total(Append(rows, row), A) = Total(rows, A)
  <1> DEFINE more == Append(rows, row)
  <1>1. /\ more \in Seq(R)
        /\ \A r \in DOMAIN rows : r \in DOMAIN more /\ more[r] = rows[r]
    OBVIOUS
  <1> HIDE DEF more
  <1>2. A \in SUBSET DOMAIN more /\ B \in SUBSET DOMAIN more
    BY <1>1 DEF more
  <1>3. /\ IsFiniteSet(A) /\ Total(rows, A) \in Nat
        /\ \A r \in A : Amounts(rows)[r] = rows[r].amount
        /\ \A r \in A : Amounts(rows)[r] \in Nat
    BY RowsSum DEF Total
  <1>4. /\ IsFiniteSet(B) /\ Total(more, B) \in Nat
        /\ \A r \in B : Amounts(more)[r] = more[r].amount
        /\ \A r \in B : Amounts(more)[r] \in Nat
    BY <1>1, <1>2, RowsSum DEF Total
  <1>5. \A r \in A : Amounts(more)[r] = Amounts(rows)[r]
    BY <1>1, <1>3, <1>4
  <1>6. SumFunctionOnSet(Amounts(more), A) = SumFunctionOnSet(Amounts(rows), A)
    BY <1>3, <1>5, SumSame
  <1>7. SumFunctionOnSet(Amounts(more), A) <= SumFunctionOnSet(Amounts(more), B)
    BY <1>4, SumPart
  <1>8. Total(more, A) = Total(rows, A) /\ Total(rows, A) <= Total(more, B)
    BY <1>6, <1>7 DEF Total
  <1> QED BY <1>3, <1>4, <1>8 DEF more

\* A part of the rows adds up to no more than the whole.
LEMMA PartOfRows ==
    ASSUME NEW R, \A r \in R : r.amount \in Nat, NEW rows \in Seq(R),
           NEW B \in SUBSET DOMAIN rows, NEW A \in SUBSET B
    PROVE  /\ Total(rows, A) \in Nat /\ Total(rows, B) \in Nat
           /\ Total(rows, A) <= Total(rows, B)
  <1>1. A \in SUBSET DOMAIN rows
    OBVIOUS
  <1>2. /\ Total(rows, A) \in Nat /\ Total(rows, B) \in Nat /\ IsFiniteSet(B)
        /\ \A r \in B : Amounts(rows)[r] \in Nat
    BY <1>1, RowsSum DEF Total
  <1> QED BY <1>2, SumPart DEF Total

-----------------------------------------------------------------------------
(***************************************************************************)
(* On one table the figures of an answer fit together; rows only add.      *)
(***************************************************************************)
LEMMA StartsInOrder ==
    ASSUME NEW d \in Dates
    PROVE  /\ WeekStart(d) \in Int /\ MonthStart(d) \in Int
           /\ YearStart(d) \in Int /\ YearStart(d) <= MonthStart(d)
  <1>1. /\ d.year \in Nat \ {0} /\ d.month \in 1 .. 12 /\ Ordinal(d) \in Nat
        /\ MonthStart(d) = First(d.year, d.month)
    BY DateIs
  <1>2. YearStart(d) = First(d.year, 1)
    <2>1. [d EXCEPT !.day = 1, !.month = 1]
             = [year |-> d.year, month |-> 1, day |-> 1]
      <3> DEFINE y == d.year
                 m == d.month
                 n == d.day
      <3>1. d = [year |-> y, month |-> m, day |-> n]
        BY DateIs
      <3> HIDE DEF y, m, n
      <3>2. PICK e : e = [d EXCEPT !.day = 1, !.month = 1]
        OBVIOUS
      <3>3. e = [year |-> y, month |-> 1, day |-> 1]
        BY <3>1, <3>2
      <3> QED BY <3>2, <3>3 DEF y
    <2> QED BY <2>1 DEF YearStart, First
  <1>3. First(d.year, 1) <= First(d.year, d.month)
    BY <1>1, InYear
  <1>4. First(d.year, 1) \in Int /\ First(d.year, d.month) \in Int
    BY <1>1, FirstType
  <1>5. Weekday(Ordinal(d)) \in 0 .. 6
    BY <1>1, WeekdayType
  <1>6. WeekStart(d) \in Int
    BY <1>1, <1>5 DEF WeekStart
  <1> QED BY <1>1, <1>2, <1>3, <1>4, <1>6

\* The amounts and dates of expenses are natural numbers.
LEMMA ExpenseRows ==
    ASSUME NEW rows \in Seq(ExpenseType)
    PROVE  /\ \A r \in ExpenseType : r.amount \in Nat
           /\ \A e \in DOMAIN rows : /\ rows[e].date \in Nat
                                     /\ rows[e].amount \in Nat
  <1>1. \A e \in DOMAIN rows : rows[e] \in ExpenseType
    OBVIOUS
  <1> QED BY <1>1 DEF ExpenseType

\* The amounts and dates of incomes are natural numbers.
LEMMA IncomeRows ==
    ASSUME NEW rows \in Seq(IncomeType)
    PROVE  /\ \A r \in IncomeType : r.amount \in Nat
           /\ \A i \in DOMAIN rows : rows[i].date \in Nat
  <1>1. \A i \in DOMAIN rows : rows[i] \in IncomeType
    OBVIOUS
  <1> QED BY <1>1 DEF IncomeType

Sums == {"week", "month", "year", "total"}

\* In one table the week, month and year of /spend fit its total.
LEMMA SpendFits ==
    ASSUME NEW rows \in Seq(ExpenseType), NEW d \in Dates
    PROVE  LET f == SpendFigures(rows, d)
           IN  /\ \A x \in Sums : f[x] \in Nat
               /\ f.week <= f.total /\ f.month <= f.year /\ f.year <= f.total
  <1> DEFINE W == SpendOf(rows, WeekStart(d))
             M == SpendOf(rows, MonthStart(d))
             Y == SpendOf(rows, YearStart(d))
             T == SpendOf(rows, NoDay)
  <1>1. /\ WeekStart(d) \in Int /\ MonthStart(d) \in Int /\ YearStart(d) \in Int
        /\ YearStart(d) <= MonthStart(d)
    BY StartsInOrder
  <1>2. /\ \A r \in ExpenseType : r.amount \in Nat
        /\ \A e \in DOMAIN rows : rows[e].date \in Nat
    BY ExpenseRows
  <1>3. W \in SUBSET T /\ M \in SUBSET Y /\ Y \in SUBSET T
        /\ Y \in SUBSET DOMAIN rows /\ T \in SUBSET DOMAIN rows
    BY <1>1, <1>2 DEF SpendOf, SinceOf, NoDay
  <1> HIDE DEF W, M, Y, T
  <1>4. /\ Total(rows, W) \in Nat /\ Total(rows, T) \in Nat
        /\ Total(rows, W) <= Total(rows, T)
    BY <1>2, <1>3, PartOfRows
  <1>5. /\ Total(rows, M) \in Nat /\ Total(rows, Y) \in Nat
        /\ Total(rows, M) <= Total(rows, Y)
    BY <1>2, <1>3, PartOfRows
  <1>6. Total(rows, Y) <= Total(rows, T)
    BY <1>2, <1>3, PartOfRows
  <1> QED BY <1>4, <1>5, <1>6 DEF SpendFigures, Sums, W, M, Y, T

\* A row more lowers no figure of /spend.
LEMMA SpendGrows ==
    ASSUME NEW rows \in Seq(ExpenseType), NEW row \in ExpenseType, NEW d \in Dates
    PROVE  \A x \in Sums : /\ SpendFigures(Append(rows, row), d)[x] \in Nat
                           /\ SpendFigures(rows, d)[x]
                                 <= SpendFigures(Append(rows, row), d)[x]
  <1> DEFINE more == Append(rows, row)
  <1>1. more \in Seq(ExpenseType) /\ DOMAIN rows \subseteq DOMAIN more
        /\ \A e \in DOMAIN rows : more[e] = rows[e]
    OBVIOUS
  <1>2. \A r \in ExpenseType : r.amount \in Nat
    BY ExpenseRows
  <1>3. ASSUME NEW s
        PROVE  /\ Total(more, SpendOf(more, s)) \in Nat
               /\ Total(rows, SpendOf(rows, s)) <= Total(more, SpendOf(more, s))
    <2>1. /\ SpendOf(rows, s) \in SUBSET DOMAIN rows
          /\ SpendOf(more, s) \in SUBSET DOMAIN more
          /\ SpendOf(rows, s) \subseteq SpendOf(more, s)
      <3> HIDE DEF more
      <3> QED BY <1>1 DEF SpendOf, SinceOf
    <2> QED BY <1>2, <2>1, AppendGrows
  <1> HIDE DEF more
  <1>4. \A x \in Sums : /\ SpendFigures(more, d)[x] \in Nat
                        /\ SpendFigures(rows, d)[x] <= SpendFigures(more, d)[x]
    BY <1>3 DEF SpendFigures, Sums
  <1> QED BY <1>4 DEF more

Earnings == {"month", "lastMonth", "year", "total"}

\* In one table the months and the year of /income fit its total.
LEMMA IncomeFits ==
    ASSUME NEW rows \in Seq(IncomeType), NEW d \in Dates, d.year - 1 \in Years
    PROVE  LET f == IncomeFigures(rows, d)
           IN  /\ \A x \in Earnings : f[x] \in Nat
               /\ f.month <= f.year /\ f.year <= f.total
               /\ f.month + f.lastMonth <= f.total
  <1> DEFINE M == SinceOf(rows, MonthStart(d))
             L == InOf(rows, LastMonth(d))
             Y == SinceOf(rows, YearStart(d))
             T == SinceOf(rows, NoDay)
  <1>1. /\ MonthStart(d) \in Int /\ YearStart(d) \in Int
        /\ YearStart(d) <= MonthStart(d)
    BY StartsInOrder
  <1>2. /\ \A r \in IncomeType : r.amount \in Nat
        /\ \A i \in DOMAIN rows : rows[i].date \in Nat
    BY IncomeRows
  <1>3. PICK a \in Int : LastMonth(d) = Span(a, MonthStart(d) - 1)
    BY LastMonthIs, FirstType, DateIs
  <1>4. /\ M \in SUBSET Y /\ Y \in SUBSET T /\ M \cup L \in SUBSET T
        /\ Disjoint(M, L, DOMAIN rows)
        /\ Y \in SUBSET DOMAIN rows /\ T \in SUBSET DOMAIN rows
    BY <1>1, <1>2, <1>3 DEF SinceOf, InOf, NoDay, Span, Disjoint
  <1> HIDE DEF M, L, Y, T
  <1>5. /\ Total(rows, M) \in Nat /\ Total(rows, Y) \in Nat
        /\ Total(rows, M) <= Total(rows, Y)
    BY <1>2, <1>4, PartOfRows
  <1>6. Total(rows, Y) <= Total(rows, T) /\ Total(rows, T) \in Nat
    BY <1>2, <1>4, PartOfRows
  <1>7. Total(rows, M \cup L) <= Total(rows, T)
    BY <1>2, <1>4, PartOfRows
  <1>8. Total(rows, M \cup L) = Total(rows, M) + Total(rows, L)
    BY <1>2, <1>4, RowsSum DEF Total
  <1>9. Total(rows, L) \in Nat
    <2>1. L \in SUBSET DOMAIN rows
      BY <1>4 DEF Disjoint
    <2> QED BY <1>2, <2>1, RowsSum DEF Total
  <1> QED BY <1>5, <1>6, <1>7, <1>8, <1>9
          DEF IncomeFigures, Earnings, M, L, Y, T

\* A deposit more lowers no figure of /income.
LEMMA IncomeGrows ==
    ASSUME NEW rows \in Seq(IncomeType), NEW row \in IncomeType, NEW d \in Dates
    PROVE  \A x \in Earnings : /\ IncomeFigures(Append(rows, row), d)[x] \in Nat
                               /\ IncomeFigures(rows, d)[x]
                                     <= IncomeFigures(Append(rows, row), d)[x]
  <1> DEFINE more == Append(rows, row)
  <1>1. more \in Seq(IncomeType) /\ DOMAIN rows \subseteq DOMAIN more
        /\ \A e \in DOMAIN rows : more[e] = rows[e]
    OBVIOUS
  <1>2. \A r \in IncomeType : r.amount \in Nat
    BY IncomeRows
  <1> HIDE DEF more
  <1>3. ASSUME NEW A \in SUBSET DOMAIN rows, NEW B \in SUBSET DOMAIN more,
               A \subseteq B
        PROVE  Total(more, B) \in Nat /\ Total(rows, A) <= Total(more, B)
    BY <1>2, <1>3, AppendGrows DEF more
  <1>4. ASSUME NEW s
        PROVE  /\ Total(more, SinceOf(more, s)) \in Nat
               /\ Total(rows, SinceOf(rows, s)) <= Total(more, SinceOf(more, s))
    <2>1. /\ SinceOf(rows, s) \in SUBSET DOMAIN rows
          /\ SinceOf(more, s) \in SUBSET DOMAIN more
          /\ SinceOf(rows, s) \subseteq SinceOf(more, s)
      BY <1>1 DEF SinceOf
    <2> QED BY <1>3, <2>1
  <1>5. ASSUME NEW w
        PROVE  /\ Total(more, InOf(more, w)) \in Nat
               /\ Total(rows, InOf(rows, w)) <= Total(more, InOf(more, w))
    <2>1. /\ InOf(rows, w) \in SUBSET DOMAIN rows
          /\ InOf(more, w) \in SUBSET DOMAIN more
          /\ InOf(rows, w) \subseteq InOf(more, w)
      BY <1>1 DEF InOf
    <2> QED BY <1>3, <2>1
  <1>6. \A x \in Earnings : /\ IncomeFigures(more, d)[x] \in Nat
                            /\ IncomeFigures(rows, d)[x] <= IncomeFigures(more, d)[x]
    BY <1>4, <1>5 DEF IncomeFigures, Earnings
  <1> QED BY <1>6 DEF more

\* On one table the digest hangs together.
LEMMA DigestFits ==
    ASSUME NEW rows \in Seq(ExpenseType), NEW d
    PROVE  LET sums == CategoriesOf(rows, d)
               top  == Top(sums)
               big  == BiggestOf(rows, d)
           IN  /\ SumFunction(sums) = SpendFigures(rows, d).week
               /\ top = {} <=> big = {}
               /\ WeekOf(rows, d) = {} <=> big = {}
               /\ \A c \in top, e \in big : rows[e].amount <= sums[c]
  <1> DEFINE week == WeekOf(rows, d)
             C    == {rows[e].category : e \in week}
             f    == Amounts(rows)
             of(c) == {e \in week : rows[e].category = c}
             sum  == [c \in C |-> Total(rows, of(c))]
             top  == {c \in C : \A x \in C : sum[x] <= sum[c]}
             big  == BiggestOf(rows, d)
  <1>1. /\ CategoriesOf(rows, d) = sum /\ Top(sum) = top
        /\ big = {e \in week : \A x \in week : rows[x].amount <= rows[e].amount}
        /\ SpendFigures(rows, d).week = SumFunctionOnSet(f, week)
    BY DEF CategoriesOf, Top, BiggestOf, SpendFigures, WeekOf, Total
  <1>2. /\ week \in SUBSET DOMAIN rows /\ IsFiniteSet(week)
        /\ \A e \in week : f[e] = rows[e].amount /\ f[e] \in Nat
    <2>1. \A r \in ExpenseType : r.amount \in Nat
      BY ExpenseRows
    <2>2. week \in SUBSET DOMAIN rows
      BY DEF WeekOf, SpendOf, SinceOf
    <2> HIDE DEF week, f
    <2> QED BY <2>1, <2>2, RowsSum DEF f
  <1> HIDE DEF week, big
  <1>3. IsFiniteSet(C)
    <2> DEFINE h == [e \in week |-> rows[e].category]
    <2>1. h \in Surjection(week, C)
      BY DEF Surjection
    <2> QED BY <1>2, <2>1, FS_Surjection
  <1>4. \A c \in C : /\ of(c) \in SUBSET week /\ IsFiniteSet(of(c))
                     /\ sum[c] = SumFunctionOnSet(f, of(c)) /\ sum[c] \in Nat
    <2> TAKE c \in C
    <2>1. of(c) \in SUBSET week /\ of(c) \in SUBSET DOMAIN rows
      BY <1>2
    <2>2. IsFiniteSet(of(c)) /\ SumFunctionOnSet(f, of(c)) \in Nat
      <3>1. IsFiniteSet(of(c))
        BY <1>2, <2>1, FS_Subset
      <3>2. \A e \in of(c) : f[e] \in Nat
        BY <1>2
      <3> HIDE DEF of, f
      <3> QED BY <3>1, <3>2, SumNat
    <2>3. sum[c] = SumFunctionOnSet(f, of(c))
      BY DEF Total
    <2> QED BY <2>1, <2>2, <2>3, Zenon
  <1>5. SumFunction(sum) = SumFunctionOnSet(f, week)
    <2> DEFINE key == [e \in week |-> rows[e].category]
    <2>1. /\ \A e \in week : key[e] \in C
          /\ \A c \in C : {e \in week : key[e] = c} = of(c)
      OBVIOUS
    <2>2. \A c \in C : sum[c] = SumFunctionOnSet(f, {e \in week : key[e] = c})
      BY <1>4, <2>1, Zenon
    <2>3. DOMAIN sum = C /\ \A e \in week : f[e] \in Int
      BY <1>2
    <2> HIDE DEF C, key, sum, f
    <2>4. SumFunctionOnSet(sum, C) = SumFunctionOnSet(f, week)
      BY <1>2, <1>3, <2>1, <2>2, <2>3, SumOfGroups
    <2> QED BY <2>3, <2>4 DEF SumFunction
  <1>6. (top = {} <=> big = {}) /\ (week = {} <=> big = {})
    <2>1. CASE week = {}
      BY <1>1, <2>1
    <2>2. CASE week # {}
      <3>1. \E e \in week : \A x \in week : f[x] <= f[e]
        <4>1. IsFiniteSet(week) /\ \A x \in week : f[x] \in Int
          BY <1>2
        <4> HIDE DEF f, C, of, sum, top
        <4> QED BY <2>2, <4>1, LargestExists
      <3>2. big # {}
        BY <1>1, <1>2, <3>1
      <3>3. C # {}
        BY <2>2
      <3>4. \A c \in C : sum[c] \in Int
        <4>1. \A c \in C : sum[c] \in Nat
          BY <1>4, Zenon
        <4> HIDE DEF C, sum
        <4> QED BY <4>1
      <3>5. \E c \in C : \A x \in C : sum[x] <= sum[c]
        <4> HIDE DEF C, sum
        <4> QED BY <1>3, <3>3, <3>4, LargestExists
      <3> QED BY <2>2, <3>2, <3>5
    <2> QED BY <2>1, <2>2
  <1>7. ASSUME NEW c \in top, NEW e \in big
        PROVE  rows[e].amount <= sum[c]
    <2> DEFINE k == rows[e].category
    <2>1. /\ e \in week /\ k \in C /\ e \in of(k)
          /\ c \in C /\ sum[k] <= sum[c]
      BY <1>1, <1>7
    <2>2. SumFunctionOnSet(f, {e}) = f[e] /\ f[e] \in Nat
      <3>1. f[e] \in Nat /\ f[e] \in Int
        BY <1>2, <2>1
      <3> HIDE DEF f
      <3> QED BY <3>1, SumOfOne
    <2>3. SumFunctionOnSet(f, {e}) <= SumFunctionOnSet(f, of(k))
      <3> DEFINE G == of(k)
                 T == {e}
      <3>1. IsFiniteSet(G) /\ T \in SUBSET G /\ \A x \in G : f[x] \in Nat
        BY <1>2, <1>4, <2>1
      <3> HIDE DEF f, G, T
      <3>2. SumFunctionOnSet(f, T) <= SumFunctionOnSet(f, G)
        BY <3>1, SumPart
      <3> QED BY <3>2 DEF G, T
    <2>4. sum[k] = SumFunctionOnSet(f, of(k)) /\ sum[k] \in Nat /\ sum[c] \in Nat
      BY <1>4, <2>1
    <2>5. f[e] = rows[e].amount
      BY <1>2, <2>1
    <2> HIDE DEF f, sum
    <2>6. f[e] <= sum[c]
      BY <2>1, <2>2, <2>3, <2>4
    <2> QED BY <2>5, <2>6
  <1> HIDE DEF sum, top
  <1>8. Top(CategoriesOf(rows, d)) = top
    BY <1>1
  <1> QED BY <1>1, <1>5, <1>6, <1>7, <1>8 DEF week, big

\* The rows that were there stay those they were.
LEMMA WindowGrows ==
    ASSUME NEW rows \in Seq(ExpenseType), NEW row \in ExpenseType,
           NEW w, NEW n \in Nat, n <= Len(rows)
    PROVE  LET more == Append(rows, row)
           IN  /\ Total(more, Kept(more, w, n)) = Total(rows, Kept(rows, w, n))
               /\ Total(more, Moved(more, w, n)) = Total(rows, Moved(rows, w, n))
               /\ Total(rows, Kept(rows, w, Len(rows)))
                     <= Total(more, Kept(more, w, Len(more)))
               /\ Total(rows, Moved(rows, w, Len(rows)))
                     <= Total(more, Moved(more, w, Len(more)))
               /\ WeekOf(rows, w) \subseteq WeekOf(more, w)
  <1> DEFINE more == Append(rows, row)
  <1>1. /\ more \in Seq(ExpenseType) /\ DOMAIN rows \subseteq DOMAIN more
        /\ \A e \in DOMAIN rows : more[e] = rows[e]
        /\ \A e \in DOMAIN more : e <= n => e \in DOMAIN rows
        /\ Len(more) = Len(rows) + 1 /\ Len(rows) \in Nat
        /\ \A e \in DOMAIN rows : e <= Len(more)
    OBVIOUS
  <1>2. \A r \in ExpenseType : r.amount \in Nat
    BY ExpenseRows
  <1> HIDE DEF more
  <1>3. ASSUME NEW A \in SUBSET DOMAIN rows, NEW B \in SUBSET DOMAIN more,
               A \subseteq B
        PROVE  /\ Total(rows, A) <= Total(more, B)
               /\ Total(more, A) = Total(rows, A)
    BY <1>2, <1>3, AppendGrows DEF more
  <1>4. /\ Kept(more, w, n) = Kept(rows, w, n)
        /\ Moved(more, w, n) = Moved(rows, w, n)
        /\ Kept(rows, w, n) \in SUBSET DOMAIN rows
        /\ Moved(rows, w, n) \in SUBSET DOMAIN rows
    BY <1>1 DEF Kept, Moved, InOf
  <1>5. /\ Kept(rows, w, Len(rows)) \subseteq Kept(more, w, Len(more))
        /\ Moved(rows, w, Len(rows)) \subseteq Moved(more, w, Len(more))
        /\ Kept(rows, w, Len(rows)) \in SUBSET DOMAIN rows
        /\ Moved(rows, w, Len(rows)) \in SUBSET DOMAIN rows
        /\ Kept(more, w, Len(more)) \in SUBSET DOMAIN more
        /\ Moved(more, w, Len(more)) \in SUBSET DOMAIN more
    BY <1>1 DEF Kept, Moved, InOf
  <1>6. WeekOf(rows, w) \subseteq WeekOf(more, w)
    BY <1>1 DEF WeekOf, SpendOf, SinceOf
  <1>7. /\ Total(more, Kept(more, w, n)) = Total(rows, Kept(rows, w, n))
        /\ Total(more, Moved(more, w, n)) = Total(rows, Moved(rows, w, n))
    <2>1. DOMAIN rows \in SUBSET DOMAIN more
      BY <1>1
    <2>2. /\ Total(more, Kept(rows, w, n)) = Total(rows, Kept(rows, w, n))
          /\ Total(more, Moved(rows, w, n)) = Total(rows, Moved(rows, w, n))
      BY <1>3, <1>4, <2>1
    <2> QED BY <1>4, <2>2
  <1>8. /\ Total(rows, Kept(rows, w, Len(rows)))
              <= Total(more, Kept(more, w, Len(more)))
        /\ Total(rows, Moved(rows, w, Len(rows)))
              <= Total(more, Moved(more, w, Len(more)))
    BY <1>3, <1>5
  <1> QED BY <1>6, <1>7, <1>8 DEF more

\* Of the first n rows in a window as much is kept and moved as of all there is
\* at most.
LEMMA WindowFits ==
    ASSUME NEW rows \in Seq(ExpenseType), NEW w, NEW n \in Nat, n <= Len(rows)
    PROVE  LET all == Len(rows)
           IN  /\ Total(rows, Kept(rows, w, n)) \in Nat
               /\ Total(rows, Moved(rows, w, n)) \in Nat
               /\ Total(rows, Kept(rows, w, all)) \in Nat
               /\ Total(rows, Moved(rows, w, all)) \in Nat
               /\ Total(rows, Kept(rows, w, n)) <= Total(rows, Kept(rows, w, all))
               /\ Total(rows, Moved(rows, w, n)) <= Total(rows, Moved(rows, w, all))
               /\ Total(rows, {e \in InOf(rows, w) : e <= n})
                     = Total(rows, Kept(rows, w, n)) + Total(rows, Moved(rows, w, n))
               /\ Total(rows, InOf(rows, w))
                     = Total(rows, Kept(rows, w, all))
                       + Total(rows, Moved(rows, w, all))
  <1> DEFINE all == Len(rows)
  <1>1. /\ \A r \in ExpenseType : r.amount \in Nat
        /\ all \in Nat /\ \A e \in DOMAIN rows : e \in Nat /\ e <= all
    BY ExpenseRows
  <1>2. /\ Kept(rows, w, n) \in SUBSET Kept(rows, w, all)
        /\ Moved(rows, w, n) \in SUBSET Moved(rows, w, all)
        /\ Kept(rows, w, all) \in SUBSET DOMAIN rows
        /\ Moved(rows, w, all) \in SUBSET DOMAIN rows
    BY <1>1 DEF Kept, Moved, InOf
  <1>3. \A m \in Nat :
           /\ Disjoint(Kept(rows, w, m), Moved(rows, w, m), DOMAIN rows)
           /\ Kept(rows, w, m) \cup Moved(rows, w, m) = {e \in InOf(rows, w) : e <= m}
    BY DEF Kept, Moved, InOf, Disjoint
  <1>4. \A m \in Nat :
           Total(rows, Kept(rows, w, m) \cup Moved(rows, w, m))
              = Total(rows, Kept(rows, w, m)) + Total(rows, Moved(rows, w, m))
    BY <1>1, <1>3, RowsSum, Zenon DEF Total
  <1>5. {e \in InOf(rows, w) : e <= all} = InOf(rows, w)
    BY <1>1 DEF InOf
  <1> HIDE DEF all
  <1>6. /\ Total(rows, {e \in InOf(rows, w) : e <= n})
              = Total(rows, Kept(rows, w, n)) + Total(rows, Moved(rows, w, n))
        /\ Total(rows, InOf(rows, w))
              = Total(rows, Kept(rows, w, all)) + Total(rows, Moved(rows, w, all))
    BY <1>1, <1>3, <1>4, <1>5, Zenon
  <1>7. /\ Total(rows, Kept(rows, w, n)) \in Nat
        /\ Total(rows, Kept(rows, w, all)) \in Nat
        /\ Total(rows, Kept(rows, w, n)) <= Total(rows, Kept(rows, w, all))
    BY <1>1, <1>2, PartOfRows
  <1>8. /\ Total(rows, Moved(rows, w, n)) \in Nat
        /\ Total(rows, Moved(rows, w, all)) \in Nat
        /\ Total(rows, Moved(rows, w, n)) <= Total(rows, Moved(rows, w, all))
    BY <1>1, <1>2, PartOfRows
  <1> QED BY <1>6, <1>7, <1>8 DEF all

-----------------------------------------------------------------------------
(***************************************************************************)
(* The reader's invariant, of a reader r over rows of the two tables.  A   *)
(* sum that was read is not more than the table has now, as rows are only  *)
(* added, nor than a wider sum that was read later; a window's sum is not  *)
(* less than what its rows were worth at the start.                        *)
(***************************************************************************)
Seen(r, x) == x \in DOMAIN r.seen

\* What it has seen follows the order of its statements.
Progress(r) ==
    /\ r.kind \in {"spend", "digest"} =>
          /\ Seen(r, "week") <=> r.read >= 1
          /\ Seen(r, "month") <=> r.read >= 2
          /\ Seen(r, "year") <=> r.read >= 3
          /\ Seen(r, "total") <=> r.read >= 4
    /\ r.kind = "digest" =>
          /\ Seen(r, "categories") <=> r.read >= 5
          /\ Seen(r, "biggest") <=> r.read >= 6
    /\ r.kind = "income" =>
          /\ Seen(r, "month") <=> r.read >= 1
          /\ Seen(r, "lastMonth") <=> r.read >= 2
          /\ Seen(r, "year") <=> r.read >= 3
          /\ Seen(r, "total") <=> r.read >= 4
    /\ r.kind = "net" =>
          /\ Seen(r, "income") <=> r.read >= 1
          /\ Seen(r, "spend") <=> r.read >= 2
          /\ Seen(r, "moved") <=> r.read >= 3

ReaderType(r, rows) ==
    /\ r = [kind |-> r.kind, day |-> r.day, window |-> r.window,
            read |-> r.read, seen |-> r.seen, rows |-> r.rows,
            meanwhile |-> r.meanwhile]
    /\ r.kind \in {"spend", "income", "net", "digest"}
    /\ r.day \in Dates /\ r.day.year - 1 \in Years
    /\ r.read \in Nat
    /\ r.seen = [x \in DOMAIN r.seen |-> r.seen[x]]
    /\ r.rows \in Nat /\ r.rows <= Len(rows)

SpendOK(r, rows) ==
    r.kind \in {"spend", "digest"} /\ r.meanwhile # "changes" =>
       /\ \A x \in Sums : Seen(r, x) =>
             r.seen[x] \in Nat /\ r.seen[x] <= SpendFigures(rows, r.day)[x]
       /\ Seen(r, "year") => r.seen["month"] <= r.seen["year"]
       /\ Seen(r, "total") => /\ r.seen["year"] <= r.seen["total"]
                              /\ r.seen["week"] <= r.seen["total"]

DigestOK(r, rows) ==
    r.kind = "digest" =>
       /\ r.meanwhile = "nothing" =>
             /\ Seen(r, "week") =>
                   r.seen["week"] = SpendFigures(rows, r.day)["week"]
             /\ Seen(r, "categories") =>
                   r.seen["categories"] = CategoriesOf(rows, r.day)
             /\ Seen(r, "biggest") => r.seen["biggest"] = BiggestOf(rows, r.day)
       /\ r.meanwhile # "changes" =>
             /\ Seen(r, "categories") =>
                   /\ r.seen["week"] <= SumFunction(r.seen["categories"])
                   /\ Top(r.seen["categories"]) # {} => WeekOf(rows, r.day) # {}
             /\ Seen(r, "biggest") /\ Top(r.seen["categories"]) # {} =>
                   r.seen["biggest"] # {}

IncomeOK(r, deposits) ==
    r.kind = "income" =>
       /\ \A x \in Earnings : Seen(r, x) =>
             r.seen[x] \in Nat /\ r.seen[x] <= IncomeFigures(deposits, r.day)[x]
       /\ Seen(r, "year") => r.seen["month"] <= r.seen["year"]
       /\ Seen(r, "total") =>
             /\ r.seen["year"] <= r.seen["total"]
             /\ r.seen["month"] + r.seen["lastMonth"] <= r.seen["total"]

NetOK(r, rows) ==
    r.kind = "net" /\ r.meanwhile # "changes" =>
       /\ Seen(r, "spend") =>
             /\ r.seen["spend"] \in Nat
             /\ Total(rows, Kept(rows, r.window, r.rows)) <= r.seen["spend"]
             /\ r.seen["spend"] <= Total(rows, Kept(rows, r.window, Len(rows)))
       /\ Seen(r, "moved") =>
             /\ r.seen["moved"] \in Nat
             /\ Total(rows, Moved(rows, r.window, r.rows)) <= r.seen["moved"]
             /\ r.seen["moved"] <= Total(rows, Moved(rows, r.window, Len(rows)))

ReaderOK(r, rows, deposits) ==
    /\ ReaderType(r, rows) /\ Progress(r)
    /\ SpendOK(r, rows) /\ DigestOK(r, rows)
    /\ IncomeOK(r, deposits) /\ NetOK(r, rows)

RInv == IInv /\ (reading = Idle \/ ReaderOK(reading, expenses, incomes))

\* What a SELECT returns, for each reader.
Returns(r, rows, deposits, x, v) ==
    /\ r.kind = "income" => v = IncomeFigures(deposits, r.day)[x]
    /\ r.kind = "net" /\ x = "spend" =>
          v = Total(rows, Kept(rows, r.window, Len(rows)))
    /\ r.kind = "net" /\ x = "moved" =>
          v = Total(rows, Moved(rows, r.window, Len(rows)))
    /\ r.kind \in {"spend", "digest"} /\ x \in Sums =>
          v = SpendFigures(rows, r.day)[x]
    /\ r.kind = "digest" /\ x = "categories" => v = CategoriesOf(rows, r.day)
    /\ r.kind = "digest" /\ x = "biggest" => v = BiggestOf(rows, r.day)

\* What one SELECT of a reply returns of the tables as they are.
LEMMA SelectIs ==
    ASSUME IInv, NEW x
    PROVE  Returns(reading, expenses, incomes, x, Select(reading, x))
  <1>1. /\ SpendSummary(reading.day) = SpendFigures(expenses, reading.day)
        /\ IncomeSummary(reading.day) = IncomeFigures(incomes, reading.day)
        /\ Categories(reading.day) = CategoriesOf(expenses, reading.day)
        /\ Biggest(WeekRows(reading.day)) = BiggestOf(expenses, reading.day)
        /\ Net(reading.window).spend
              = Total(expenses, Kept(expenses, reading.window, Len(expenses)))
        /\ Net(reading.window).moved
              = Total(expenses, Moved(expenses, reading.window, Len(expenses)))
    BY FiguresAre
  <1> DEFINE v == Select(reading, x)
  <1>2. CASE reading.kind = "income"
    <2>1. v = IncomeSummary(reading.day)[x]
      BY <1>2 DEF Select
    <2> QED BY <1>1, <1>2, <2>1 DEF Returns
  <1>3. CASE reading.kind = "net"
    <2>1. v = Net(reading.window)[x]
      BY <1>3 DEF Select
    <2>2. CASE x = "spend"
      BY <1>1, <1>3, <2>1, <2>2 DEF Returns
    <2>3. CASE x = "moved"
      BY <1>1, <1>3, <2>1, <2>3 DEF Returns
    <2> QED BY <1>3, <2>2, <2>3 DEF Returns
  <1>4. CASE reading.kind \in {"spend", "digest"}
    <2>1. CASE x = "categories" /\ reading.kind = "digest"
      <3>1. v = Categories(reading.day)
        BY <1>4, <2>1 DEF Select
      <3> QED BY <1>1, <1>4, <2>1, <3>1 DEF Returns, Sums
    <2>2. CASE x = "biggest" /\ reading.kind = "digest"
      <3>1. v = Biggest(WeekRows(reading.day))
        BY <1>4, <2>2 DEF Select
      <3> QED BY <1>1, <1>4, <2>2, <3>1 DEF Returns, Sums
    <2>3. CASE x \notin {"categories", "biggest"}
      <3>1. v = SpendSummary(reading.day)[x]
        BY <1>4, <2>3 DEF Select
      <3> QED BY <1>1, <1>4, <2>3, <3>1 DEF Returns
    <2> QED BY <1>4, <2>1, <2>2, <2>3 DEF Returns, Sums
  <1> QED BY <1>2, <1>3, <1>4 DEF Returns

\* Which figure is read next, statement by statement.
LEMMA NextFigure ==
    ASSUME NEW r, NEW rows, ReaderType(r, rows),
           r.read < Len(Statements[r.kind])
    PROVE  LET x == Statements[r.kind][r.read + 1]
               Is(n, y) == r.read = n /\ x = y
           IN  /\ r.kind = "spend" =>
                     \/ Is(0, "week") \/ Is(1, "month")
                     \/ Is(2, "year") \/ Is(3, "total")
               /\ r.kind = "digest" =>
                     \/ Is(0, "week") \/ Is(1, "month")
                     \/ Is(2, "year") \/ Is(3, "total")
                     \/ Is(4, "categories") \/ Is(5, "biggest")
               /\ r.kind = "income" =>
                     \/ Is(0, "month") \/ Is(1, "lastMonth")
                     \/ Is(2, "year") \/ Is(3, "total")
               /\ r.kind = "net" =>
                     \/ Is(0, "income") \/ Is(1, "spend") \/ Is(2, "moved")
  <1>1. r.read \in Nat
    BY DEF ReaderType
  <1>2. /\ Statements["spend"] = <<"week", "month", "year", "total">>
        /\ Statements["income"] = <<"month", "lastMonth", "year", "total">>
        /\ Statements["net"] = <<"income", "spend", "moved">>
        /\ Statements["digest"] = <<"week", "month", "year", "total",
                                    "categories", "biggest">>
    BY DEF Statements
  <1>3. CASE r.kind = "spend"
    <2>1. r.read \in {0, 1, 2, 3}
      <3>1. Len(Statements["spend"]) = 4
        BY <1>2
      <3> QED BY <1>1, <1>3, <3>1
    <2>2. CASE r.read = 0
      <3>1. Statements[r.kind][r.read + 1] = "week"
        BY <1>2, <1>3, <2>2
      <3> QED BY <1>3, <2>2, <3>1
    <2>3. CASE r.read = 1
      <3>1. Statements[r.kind][r.read + 1] = "month"
        BY <1>2, <1>3, <2>3
      <3> QED BY <1>3, <2>3, <3>1
    <2>4. CASE r.read = 2
      <3>1. Statements[r.kind][r.read + 1] = "year"
        BY <1>2, <1>3, <2>4
      <3> QED BY <1>3, <2>4, <3>1
    <2>5. CASE r.read = 3
      <3>1. Statements[r.kind][r.read + 1] = "total"
        BY <1>2, <1>3, <2>5
      <3> QED BY <1>3, <2>5, <3>1
    <2> QED BY <2>1, <2>2, <2>3, <2>4, <2>5
  <1>4. CASE r.kind = "digest"
    <2>1. r.read \in {0, 1, 2, 3, 4, 5}
      <3>1. Len(Statements["digest"]) = 6
        BY <1>2
      <3> QED BY <1>1, <1>4, <3>1
    <2>2. CASE r.read = 0
      <3>1. Statements[r.kind][r.read + 1] = "week"
        BY <1>2, <1>4, <2>2
      <3> QED BY <1>4, <2>2, <3>1
    <2>3. CASE r.read = 1
      <3>1. Statements[r.kind][r.read + 1] = "month"
        BY <1>2, <1>4, <2>3
      <3> QED BY <1>4, <2>3, <3>1
    <2>4. CASE r.read = 2
      <3>1. Statements[r.kind][r.read + 1] = "year"
        BY <1>2, <1>4, <2>4
      <3> QED BY <1>4, <2>4, <3>1
    <2>5. CASE r.read = 3
      <3>1. Statements[r.kind][r.read + 1] = "total"
        BY <1>2, <1>4, <2>5
      <3> QED BY <1>4, <2>5, <3>1
    <2>6. CASE r.read = 4
      <3>1. Statements[r.kind][r.read + 1] = "categories"
        BY <1>2, <1>4, <2>6
      <3> QED BY <1>4, <2>6, <3>1
    <2>7. CASE r.read = 5
      <3>1. Statements[r.kind][r.read + 1] = "biggest"
        BY <1>2, <1>4, <2>7
      <3> QED BY <1>4, <2>7, <3>1
    <2> QED BY <2>1, <2>2, <2>3, <2>4, <2>5, <2>6, <2>7
  <1>5. CASE r.kind = "income"
    <2>1. r.read \in {0, 1, 2, 3}
      <3>1. Len(Statements["income"]) = 4
        BY <1>2
      <3> QED BY <1>1, <1>5, <3>1
    <2>2. CASE r.read = 0
      <3>1. Statements[r.kind][r.read + 1] = "month"
        BY <1>2, <1>5, <2>2
      <3> QED BY <1>5, <2>2, <3>1
    <2>3. CASE r.read = 1
      <3>1. Statements[r.kind][r.read + 1] = "lastMonth"
        BY <1>2, <1>5, <2>3
      <3> QED BY <1>5, <2>3, <3>1
    <2>4. CASE r.read = 2
      <3>1. Statements[r.kind][r.read + 1] = "year"
        BY <1>2, <1>5, <2>4
      <3> QED BY <1>5, <2>4, <3>1
    <2>5. CASE r.read = 3
      <3>1. Statements[r.kind][r.read + 1] = "total"
        BY <1>2, <1>5, <2>5
      <3> QED BY <1>5, <2>5, <3>1
    <2> QED BY <2>1, <2>2, <2>3, <2>4, <2>5
  <1>6. CASE r.kind = "net"
    <2>1. r.read \in {0, 1, 2}
      <3>1. Len(Statements["net"]) = 3
        BY <1>2
      <3> QED BY <1>1, <1>6, <3>1
    <2>2. CASE r.read = 0
      <3>1. Statements[r.kind][r.read + 1] = "income"
        BY <1>2, <1>6, <2>2
      <3> QED BY <1>6, <2>2, <3>1
    <2>3. CASE r.read = 1
      <3>1. Statements[r.kind][r.read + 1] = "spend"
        BY <1>2, <1>6, <2>3
      <3> QED BY <1>6, <2>3, <3>1
    <2>4. CASE r.read = 2
      <3>1. Statements[r.kind][r.read + 1] = "moved"
        BY <1>2, <1>6, <2>4
      <3> QED BY <1>6, <2>4, <3>1
    <2> QED BY <2>1, <2>2, <2>3, <2>4
  <1> QED BY <1>3, <1>4, <1>5, <1>6 DEF ReaderType

\* One SELECT more.
Extended(r, q, x, v) ==
    /\ q.kind = r.kind /\ q.day = r.day /\ q.window = r.window
    /\ q.rows = r.rows /\ q.meanwhile = r.meanwhile /\ q.read = r.read + 1
    /\ Seen(q, x) /\ q.seen[x] = v
    /\ \A y : Seen(q, y) <=> Seen(r, y) \/ y = x
    /\ \A y : Seen(r, y) /\ y # x => q.seen[y] = r.seen[y]

(* Two parts, each at most its counterpart, make up no more than a total   *)
(* the counterparts stay below.                                            *)
LEMMA PartsBelow ==
  ASSUME NEW a \in Nat, NEW b \in Nat, NEW c \in Nat, NEW d \in Nat,
         NEW e \in Nat, a <= c, b <= d, c + d <= e
  PROVE  a + b <= e
OBVIOUS

(* One SELECT more of a reply keeps what the figures it has read so far say *)
(* of the tables and of each other.                                         *)
LEMMA ReadKeeps ==
    ASSUME NEW rows \in Seq(ExpenseType), NEW deposits \in Seq(IncomeType),
           NEW r, ReaderOK(r, rows, deposits),
           r.read < Len(Statements[r.kind]),
           NEW x, x = Statements[r.kind][r.read + 1],
           NEW v, Returns(r, rows, deposits, x, v),
           NEW q, ReaderType(q, rows), Extended(r, q, x, v)
    PROVE  ReaderOK(q, rows, deposits)
  <1>1. /\ r.kind = "spend" =>
              \/ (r.read = 0 /\ x = "week") \/ (r.read = 1 /\ x = "month")
              \/ (r.read = 2 /\ x = "year") \/ (r.read = 3 /\ x = "total")
        /\ r.kind = "digest" =>
              \/ (r.read = 0 /\ x = "week") \/ (r.read = 1 /\ x = "month")
              \/ (r.read = 2 /\ x = "year") \/ (r.read = 3 /\ x = "total")
              \/ (r.read = 4 /\ x = "categories")
              \/ (r.read = 5 /\ x = "biggest")
        /\ r.kind = "income" =>
              \/ (r.read = 0 /\ x = "month") \/ (r.read = 1 /\ x = "lastMonth")
              \/ (r.read = 2 /\ x = "year") \/ (r.read = 3 /\ x = "total")
        /\ r.kind = "net" =>
              \/ (r.read = 0 /\ x = "income") \/ (r.read = 1 /\ x = "spend")
              \/ (r.read = 2 /\ x = "moved")
    <2>1. ReaderType(r, rows)
      BY DEF ReaderOK
    <2> QED BY <2>1, NextFigure
  <1>2. /\ r.kind \in {"spend", "income", "net", "digest"} /\ r.read \in Nat
        /\ r.day \in Dates /\ r.day.year - 1 \in Years
        /\ r.rows \in Nat /\ r.rows <= Len(rows) /\ Progress(r)
    BY DEF ReaderOK, ReaderType
  <1>3. Progress(q)
    <2>1. /\ q.kind = r.kind /\ q.read = r.read + 1
          /\ \A y : Seen(q, y) <=> Seen(r, y) \/ y = x
      BY DEF Extended
    <2>2. CASE r.kind = "spend"
      BY <1>1, <1>2, <2>1, <2>2 DEF Progress
    <2>3. CASE r.kind = "digest"
      <3>1. CASE r.read = 0 /\ x = "week"
        BY <2>1, <2>3, <1>2, <3>1 DEF Progress
      <3>2. CASE r.read = 1 /\ x = "month"
        BY <2>1, <2>3, <1>2, <3>2 DEF Progress
      <3>3. CASE r.read = 2 /\ x = "year"
        BY <2>1, <2>3, <1>2, <3>3 DEF Progress
      <3>4. CASE r.read = 3 /\ x = "total"
        BY <2>1, <2>3, <1>2, <3>4 DEF Progress
      <3>5. CASE r.read = 4 /\ x = "categories"
        BY <2>1, <2>3, <1>2, <3>5 DEF Progress
      <3>6. CASE r.read = 5 /\ x = "biggest"
        BY <2>1, <2>3, <1>2, <3>6 DEF Progress
      <3> QED BY <1>1, <2>3, <3>1, <3>2, <3>3, <3>4, <3>5, <3>6
    <2>4. CASE r.kind = "income"
      BY <1>1, <1>2, <2>1, <2>4 DEF Progress
    <2>5. CASE r.kind = "net"
      BY <1>1, <1>2, <2>1, <2>5 DEF Progress
    <2> QED BY <1>2, <2>2, <2>3, <2>4, <2>5
  <1>4. ~Seen(r, x) \/ (r.kind = "net" /\ x = "income")
    <2>1. CASE r.kind = "spend"
      BY <1>1, <1>2, <2>1 DEF Progress
    <2>2. CASE r.kind = "digest"
      BY <1>1, <1>2, <2>2 DEF Progress
    <2>3. CASE r.kind = "income"
      BY <1>1, <1>2, <2>3 DEF Progress
    <2>4. CASE r.kind = "net"
      BY <1>1, <1>2, <2>4 DEF Progress
    <2> QED BY <1>2, <2>1, <2>2, <2>3, <2>4
  <1> DEFINE f == SpendFigures(rows, r.day)
             g == IncomeFigures(deposits, r.day)
  <1>5. /\ \A y \in Sums : f[y] \in Nat
        /\ f["week"] <= f["total"] /\ f["month"] <= f["year"]
        /\ f["year"] <= f["total"]
    BY <1>2, SpendFits
  <1>6. /\ \A y \in Earnings : g[y] \in Nat
        /\ g["month"] <= g["year"] /\ g["year"] <= g["total"]
        /\ g["month"] + g["lastMonth"] <= g["total"]
    BY <1>2, IncomeFits
  <1> HIDE DEF f, g
  <1>7. SpendOK(q, rows)
    <2> SUFFICES ASSUME q.kind \in {"spend", "digest"}, q.meanwhile # "changes"
                 PROVE  /\ \A y \in Sums : Seen(q, y) =>
                              q.seen[y] \in Nat /\ q.seen[y] <= f[y]
                        /\ Seen(q, "year") => q.seen["month"] <= q.seen["year"]
                        /\ Seen(q, "total") => /\ q.seen["year"] <= q.seen["total"]
                                               /\ q.seen["week"] <= q.seen["total"]
      BY DEF SpendOK, Extended, f
    <2>1. /\ r.kind \in {"spend", "digest"} /\ r.meanwhile # "changes"
          /\ \A y \in Sums : Seen(r, y) =>
                r.seen[y] \in Nat /\ r.seen[y] <= f[y]
          /\ Seen(r, "year") => r.seen["month"] <= r.seen["year"]
          /\ Seen(r, "total") => /\ r.seen["year"] <= r.seen["total"]
                                 /\ r.seen["week"] <= r.seen["total"]
      BY DEF SpendOK, Extended, ReaderOK, f
    <2>2. x \in Sums => v = f[x]
      BY <2>1 DEF Returns, f
    <2>3. ~Seen(r, x)
      BY <1>4, <2>1
    <2>4. \A y \in Sums : Seen(q, y) => q.seen[y] \in Nat /\ q.seen[y] <= f[y]
      BY <1>5, <2>1, <2>2 DEF Extended
    <2>5. Seen(q, "year") => q.seen["month"] <= q.seen["year"]
      <3>1. CASE x = "year"
        <4>1. Seen(r, "month")
          BY <1>1, <1>2, <2>1, <3>1 DEF Progress
        <4>2. q.seen["month"] \in Nat /\ q.seen["month"] <= f["month"]
          BY <2>4, <4>1 DEF Extended, Sums
        <4>3. q.seen["year"] = f["year"]
          BY <2>2, <3>1 DEF Extended, Sums
        <4> QED BY <1>5, <4>2, <4>3 DEF Sums
      <3>2. CASE x # "year"
        <4>1. Seen(q, "year") => /\ Seen(r, "year") /\ Seen(r, "month")
                                 /\ x # "month"
          BY <1>2, <2>1, <2>3, <3>2 DEF Extended, Progress
        <4> QED BY <2>1, <3>2, <4>1 DEF Extended
      <3> QED BY <3>1, <3>2
    <2>6. Seen(q, "total") => /\ q.seen["year"] <= q.seen["total"]
                              /\ q.seen["week"] <= q.seen["total"]
      <3>1. CASE x = "total"
        <4>1. Seen(r, "year") /\ Seen(r, "week")
          BY <1>1, <1>2, <2>1, <3>1 DEF Progress
        <4>2. /\ q.seen["year"] \in Nat /\ q.seen["year"] <= f["year"]
              /\ q.seen["week"] \in Nat /\ q.seen["week"] <= f["week"]
          BY <2>4, <4>1 DEF Extended, Sums
        <4>3. q.seen["total"] = f["total"]
          BY <2>2, <3>1 DEF Extended, Sums
        <4> QED BY <1>5, <4>2, <4>3 DEF Sums
      <3>2. CASE x # "total"
        <4>1. Seen(q, "total") => /\ Seen(r, "total") /\ Seen(r, "year")
                                  /\ Seen(r, "week")
                                  /\ x # "year" /\ x # "week"
          BY <1>2, <2>1, <2>3, <3>2 DEF Extended, Progress
        <4> QED BY <2>1, <3>2, <4>1 DEF Extended
      <3> QED BY <3>1, <3>2
    <2> QED BY <2>4, <2>5, <2>6
  <1>8. IncomeOK(q, deposits)
    <2> SUFFICES ASSUME q.kind = "income"
                 PROVE  /\ \A y \in Earnings : Seen(q, y) =>
                              q.seen[y] \in Nat /\ q.seen[y] <= g[y]
                        /\ Seen(q, "year") => q.seen["month"] <= q.seen["year"]
                        /\ Seen(q, "total") =>
                              /\ q.seen["year"] <= q.seen["total"]
                              /\ q.seen["month"] + q.seen["lastMonth"]
                                    <= q.seen["total"]
      BY DEF IncomeOK, Extended, g
    <2>1. /\ r.kind = "income"
          /\ \A y \in Earnings : Seen(r, y) =>
                r.seen[y] \in Nat /\ r.seen[y] <= g[y]
          /\ Seen(r, "year") => r.seen["month"] <= r.seen["year"]
          /\ Seen(r, "total") =>
                /\ r.seen["year"] <= r.seen["total"]
                /\ r.seen["month"] + r.seen["lastMonth"] <= r.seen["total"]
      BY DEF IncomeOK, Extended, ReaderOK, g
    <2>2. x \in Earnings /\ v = g[x]
      <3>1. x \in Earnings
        BY <1>1, <2>1 DEF Earnings
      <3>2. v = g[x]
        BY <2>1 DEF Returns, g
      <3> QED BY <3>1, <3>2
    <2>3. ~Seen(r, x)
      BY <1>4, <2>1
    <2>4. ASSUME NEW y \in Earnings, Seen(q, y)
          PROVE  q.seen[y] \in Nat /\ q.seen[y] <= g[y]
      <3>1. g[y] \in Nat
        BY <1>6
      <3>2. CASE y = x
        <4>1. q.seen[y] = g[y]
          BY <2>2, <3>2 DEF Extended
        <4> QED BY <3>1, <4>1
      <3>3. CASE y # x
        <4>1. Seen(r, y) /\ q.seen[y] = r.seen[y]
          BY <2>4, <3>3 DEF Extended
        <4> QED BY <2>1, <4>1
      <3> QED BY <3>2, <3>3
    <2>5. Seen(q, "year") => q.seen["month"] <= q.seen["year"]
      <3>1. CASE x = "year"
        <4>1. Seen(r, "month")
          BY <1>1, <1>2, <2>1, <3>1 DEF Progress
        <4>2. q.seen["month"] \in Nat /\ q.seen["month"] <= g["month"]
          BY <2>4, <4>1 DEF Extended, Earnings
        <4>3. q.seen["year"] = g["year"]
          BY <2>2, <3>1 DEF Extended
        <4> QED BY <1>6, <4>2, <4>3 DEF Earnings
      <3>2. CASE x # "year"
        <4>1. Seen(q, "year") => /\ Seen(r, "year") /\ Seen(r, "month")
                                 /\ x # "month"
          BY <1>2, <2>1, <2>3, <3>2 DEF Extended, Progress
        <4> QED BY <2>1, <3>2, <4>1 DEF Extended
      <3> QED BY <3>1, <3>2
    <2>6. Seen(q, "total") =>
             /\ q.seen["year"] <= q.seen["total"]
             /\ q.seen["month"] + q.seen["lastMonth"] <= q.seen["total"]
      <3>1. CASE x = "total"
        <4>1. Seen(r, "year") /\ Seen(r, "month") /\ Seen(r, "lastMonth")
          BY <1>1, <1>2, <2>1, <3>1 DEF Progress
        <4>2. /\ q.seen["year"] \in Nat /\ q.seen["year"] <= g["year"]
              /\ q.seen["month"] \in Nat /\ q.seen["month"] <= g["month"]
              /\ q.seen["lastMonth"] \in Nat
              /\ q.seen["lastMonth"] <= g["lastMonth"]
          BY <2>4, <4>1 DEF Extended, Earnings
        <4>3. q.seen["total"] = g["total"]
          BY <2>2, <3>1 DEF Extended
        <4>4. /\ g["month"] \in Nat /\ g["lastMonth"] \in Nat
              /\ g["year"] \in Nat /\ g["total"] \in Nat
              /\ g["year"] <= g["total"]
              /\ g["month"] + g["lastMonth"] <= g["total"]
          BY <1>6 DEF Earnings
        <4>5. q.seen["year"] <= q.seen["total"]
          BY <4>2, <4>3, <4>4
        <4>6. q.seen["month"] + q.seen["lastMonth"] <= q.seen["total"]
          <5>1. q.seen["month"] + q.seen["lastMonth"] <= g["total"]
            BY <4>2, <4>4, PartsBelow
          <5> QED BY <4>3, <5>1
        <4> QED BY <4>5, <4>6
      <3>2. CASE x # "total"
        <4>1. Seen(q, "total") =>
                 /\ Seen(r, "total") /\ Seen(r, "year") /\ Seen(r, "month")
                 /\ Seen(r, "lastMonth")
                 /\ x # "year" /\ x # "month" /\ x # "lastMonth"
          BY <1>2, <2>1, <2>3, <3>2 DEF Extended, Progress
        <4> QED BY <2>1, <3>2, <4>1 DEF Extended
      <3> QED BY <3>1, <3>2
    <2> QED BY <2>4, <2>5, <2>6
  <1>9. NetOK(q, rows)
    <2> SUFFICES ASSUME q.kind = "net", q.meanwhile # "changes"
                 PROVE  NetOK(q, rows)
      BY DEF NetOK
    <2>1. /\ r.kind = "net" /\ r.meanwhile # "changes" /\ NetOK(r, rows)
          /\ q.window = r.window /\ q.rows = r.rows
      BY DEF Extended, ReaderOK
    <2>2. /\ Total(rows, Kept(rows, r.window, r.rows)) \in Nat
          /\ Total(rows, Moved(rows, r.window, r.rows)) \in Nat
          /\ Total(rows, Kept(rows, r.window, Len(rows))) \in Nat
          /\ Total(rows, Moved(rows, r.window, Len(rows))) \in Nat
          /\ Total(rows, Kept(rows, r.window, r.rows))
                <= Total(rows, Kept(rows, r.window, Len(rows)))
          /\ Total(rows, Moved(rows, r.window, r.rows))
                <= Total(rows, Moved(rows, r.window, Len(rows)))
      BY <1>2, WindowFits
    <2>3. /\ x = "spend" => v = Total(rows, Kept(rows, r.window, Len(rows)))
          /\ x = "moved" => v = Total(rows, Moved(rows, r.window, Len(rows)))
      BY <2>1 DEF Returns
    <2>4. CASE x = "spend"
      BY <2>1, <2>2, <2>3, <2>4 DEF NetOK, Extended
    <2>5. CASE x = "moved"
      BY <2>1, <2>2, <2>3, <2>5 DEF NetOK, Extended
    <2>6. CASE x \notin {"spend", "moved"}
      BY <2>1, <2>6 DEF NetOK, Extended
    <2> QED BY <2>4, <2>5, <2>6
  <1>10. DigestOK(q, rows)
    <2> DEFINE sums == CategoriesOf(rows, r.day)
               big  == BiggestOf(rows, r.day)
               week == WeekOf(rows, r.day)
    <2> SUFFICES ASSUME q.kind = "digest" PROVE DigestOK(q, rows)
      BY DEF DigestOK
    <2>1. /\ r.kind = "digest" /\ DigestOK(r, rows) /\ SpendOK(r, rows)
          /\ q.day = r.day /\ q.meanwhile = r.meanwhile /\ ~Seen(r, x)
      BY <1>4 DEF Extended, ReaderOK
    <2>2. /\ SumFunction(sums) = f["week"]
          /\ Top(sums) = {} <=> big = {}
          /\ week = {} <=> big = {}
      BY DigestFits DEF f
    <2>3. /\ x = "categories" => v = sums
          /\ x = "biggest" => v = big
          /\ x = "week" => v = f["week"]
      BY <2>1 DEF Returns, Sums, f
    <2>4. /\ x = "categories" => Seen(r, "week")
          /\ x = "biggest" => Seen(r, "week") /\ Seen(r, "categories")
          /\ Seen(r, "categories") => Seen(r, "week")
          /\ Seen(r, "biggest") => Seen(r, "categories")
      BY <1>1, <1>2, <2>1 DEF Progress
    <2>5. Seen(r, "week") /\ r.meanwhile # "changes" => r.seen["week"] <= f["week"]
      BY <2>1 DEF SpendOK, Sums, f
    <2> HIDE DEF sums, big, week
    <2>6. CASE x = "categories"
      BY <2>1, <2>2, <2>3, <2>4, <2>5, <2>6
         DEF DigestOK, Extended, sums, big, week, f
    <2>7. CASE x = "biggest"
      BY <2>1, <2>2, <2>3, <2>4, <2>7 DEF DigestOK, Extended, sums, big, week, f
    <2>8. CASE x = "week"
      BY <2>1, <2>3, <2>4, <2>8 DEF DigestOK, Extended, f
    <2>9. CASE x \notin {"week", "categories", "biggest"}
      BY <2>1, <2>4, <2>9 DEF DigestOK, Extended
    <2> QED BY <2>6, <2>7, <2>8, <2>9
  <1> QED BY <1>3, <1>7, <1>8, <1>9, <1>10 DEF ReaderOK

\* A row recorded: what was read stays below the tables' figures.
Beside(r, q, what) ==
    /\ q.kind = r.kind /\ q.day = r.day /\ q.window = r.window
    /\ q.rows = r.rows /\ q.read = r.read /\ q.seen = r.seen
    /\ q.meanwhile = what

\* An expense recorded between two SELECTs keeps what a reply holds.
LEMMA RowKeeps ==
    ASSUME NEW rows \in Seq(ExpenseType), NEW row \in ExpenseType,
           NEW deposits, NEW r, ReaderOK(r, rows, deposits),
           r.meanwhile # "changes",
           NEW q, ReaderType(q, Append(rows, row)), Beside(r, q, "rows")
    PROVE  ReaderOK(q, Append(rows, row), deposits)
  <1> DEFINE more == Append(rows, row)
  <1>1. more \in Seq(ExpenseType) /\ Len(rows) <= Len(more)
    OBVIOUS
  <1>2. /\ r.day \in Dates /\ r.rows \in Nat /\ r.rows <= Len(rows)
        /\ Progress(r) /\ SpendOK(r, rows) /\ DigestOK(r, rows)
        /\ IncomeOK(r, deposits) /\ NetOK(r, rows)
    BY DEF ReaderOK, ReaderType
  <1>3. Progress(q)
    BY <1>2 DEF Progress, Beside, Seen
  <1>4. SpendOK(q, more)
    <2> DEFINE old == SpendFigures(rows, r.day)
               new == SpendFigures(more, r.day)
    <2>1. \A y \in Sums : old[y] \in Nat /\ new[y] \in Nat /\ old[y] <= new[y]
      BY <1>2, SpendGrows, SpendFits
    <2>2. SpendOK(r, rows) /\ r.kind \in {"spend", "digest"} =>
             /\ \A y \in Sums : Seen(r, y) =>
                   r.seen[y] \in Nat /\ r.seen[y] <= old[y]
             /\ Seen(r, "year") => r.seen["month"] <= r.seen["year"]
             /\ Seen(r, "total") => /\ r.seen["year"] <= r.seen["total"]
                                    /\ r.seen["week"] <= r.seen["total"]
      BY DEF SpendOK
    <2> HIDE DEF old
    <2>3. (\A y \in Sums : Seen(r, y) =>
              r.seen[y] \in Nat /\ r.seen[y] <= new[y]) =>
          (r.kind \in {"spend", "digest"} => SpendOK(q, more))
      BY <1>2, <2>2 DEF SpendOK, Beside, Seen
    <2> HIDE DEF new
    <2>4. r.kind \in {"spend", "digest"} =>
             \A y \in Sums : Seen(r, y) =>
                r.seen[y] \in Nat /\ r.seen[y] <= new[y]
      BY <1>2, <2>1, <2>2
    <2>5. r.kind \notin {"spend", "digest"} => SpendOK(q, more)
      BY DEF SpendOK, Beside
    <2> QED BY <2>3, <2>4, <2>5
  <1>5. IncomeOK(q, deposits)
    BY <1>2 DEF IncomeOK, Beside, Seen
  <1>6. NetOK(q, more)
    <2>1. /\ Total(more, Kept(more, r.window, r.rows))
                = Total(rows, Kept(rows, r.window, r.rows))
          /\ Total(more, Moved(more, r.window, r.rows))
                = Total(rows, Moved(rows, r.window, r.rows))
          /\ Total(rows, Kept(rows, r.window, Len(rows))) \in Nat
          /\ Total(more, Kept(more, r.window, Len(more))) \in Nat
          /\ Total(rows, Moved(rows, r.window, Len(rows))) \in Nat
          /\ Total(more, Moved(more, r.window, Len(more))) \in Nat
          /\ Total(rows, Kept(rows, r.window, Len(rows)))
                <= Total(more, Kept(more, r.window, Len(more)))
          /\ Total(rows, Moved(rows, r.window, Len(rows)))
                <= Total(more, Moved(more, r.window, Len(more)))
      <3>1. Len(more) \in Nat /\ Len(rows) \in Nat
        BY <1>1
      <3>2. /\ Total(rows, Kept(rows, r.window, Len(rows))) \in Nat
            /\ Total(rows, Moved(rows, r.window, Len(rows))) \in Nat
        BY <1>2, WindowFits
      <3> HIDE DEF more
      <3>3. /\ Total(more, Kept(more, r.window, Len(more))) \in Nat
            /\ Total(more, Moved(more, r.window, Len(more))) \in Nat
        <4>1. r.rows <= Len(more)
          BY <1>1, <1>2, <3>1
        <4> QED BY <1>1, <1>2, <4>1, WindowFits
      <3>4. /\ Total(more, Kept(more, r.window, r.rows))
                  = Total(rows, Kept(rows, r.window, r.rows))
            /\ Total(more, Moved(more, r.window, r.rows))
                  = Total(rows, Moved(rows, r.window, r.rows))
        BY <1>2, WindowGrows DEF more
      <3>5. /\ Total(rows, Kept(rows, r.window, Len(rows)))
                  <= Total(more, Kept(more, r.window, Len(more)))
            /\ Total(rows, Moved(rows, r.window, Len(rows)))
                  <= Total(more, Moved(more, r.window, Len(more)))
        BY <3>1, WindowGrows DEF more
      <3> QED BY <3>2, <3>3, <3>4, <3>5
    <2> QED BY <1>2, <2>1 DEF NetOK, Beside, Seen
  <1>7. DigestOK(q, more)
    <2>1. WeekOf(rows, r.day) # {} => WeekOf(more, r.day) # {}
      BY DEF WeekOf, SpendOf, SinceOf
    <2> QED BY <1>2, <2>1 DEF DigestOK, Beside, Seen
  <1> QED BY <1>3, <1>4, <1>5, <1>6, <1>7 DEF ReaderOK

\* A deposit recorded between two SELECTs keeps it too.
LEMMA DepositKeeps ==
    ASSUME NEW rows, NEW deposits \in Seq(IncomeType), NEW row \in IncomeType,
           NEW r, ReaderOK(r, rows, deposits)
    PROVE  ReaderOK(r, rows, Append(deposits, row))
  <1> DEFINE more == Append(deposits, row)
             old  == IncomeFigures(deposits, r.day)
             new  == IncomeFigures(more, r.day)
  <1>1. /\ r.day \in Dates /\ r.day.year - 1 \in Years
        /\ ReaderType(r, rows) /\ Progress(r) /\ SpendOK(r, rows)
        /\ DigestOK(r, rows) /\ IncomeOK(r, deposits) /\ NetOK(r, rows)
    BY DEF ReaderOK, ReaderType
  <1>2. \A y \in Earnings : old[y] \in Nat /\ new[y] \in Nat /\ old[y] <= new[y]
    BY <1>1, IncomeGrows, IncomeFits
  <1>3. r.kind = "income" =>
           \A y \in Earnings : Seen(r, y) =>
              r.seen[y] \in Nat /\ r.seen[y] <= old[y]
    BY <1>1 DEF IncomeOK
  <1> HIDE DEF old
  <1>4. (r.kind = "income" =>
           \A y \in Earnings : Seen(r, y) =>
              r.seen[y] \in Nat /\ r.seen[y] <= new[y]) => IncomeOK(r, more)
    BY <1>1 DEF IncomeOK
  <1> HIDE DEF new
  <1>5. IncomeOK(r, more)
    BY <1>2, <1>3, <1>4
  <1> QED BY <1>1, <1>5 DEF ReaderOK

\* A row recategorised: of what was read only the income is still vouched for.
LEMMA MoveKeeps ==
    ASSUME NEW rows, NEW after, NEW deposits, NEW r, ReaderOK(r, rows, deposits),
           NEW q, ReaderType(q, after), Beside(r, q, "changes")
    PROVE  ReaderOK(q, after, deposits)
  <1>1. Progress(r) /\ IncomeOK(r, deposits)
    BY DEF ReaderOK
  <1>2. Progress(q) /\ IncomeOK(q, deposits)
    BY <1>1 DEF Progress, IncomeOK, Beside, Seen
  <1>3. SpendOK(q, after) /\ DigestOK(q, after) /\ NetOK(q, after)
    BY DEF SpendOK, DigestOK, NetOK, Beside
  <1> QED BY <1>2, <1>3 DEF ReaderOK

-----------------------------------------------------------------------------
(***************************************************************************)
(* Every step of the readers' specification keeps the invariant.           *)
(***************************************************************************)
LEMMA ReadersOnlyRead == ReadNext => [Next]_vars
  BY DEF ReadNext, StartReading, Read, Answer, Midnight, RowAdded, RowMoved,
         IncomeAdded, Next

\* A reply that has read nothing holds nothing wrong.
LEMMA BeginOK ==
    ASSUME IInv, NEW kind \in {"spend", "income", "net", "digest"}, NEW range
    PROVE  ReaderOK(Begin(kind, range), expenses, incomes)
  <1> DEFINE r == Begin(kind, range)
  <1>1. /\ r = [kind |-> kind, day |-> today, window |-> Window(range, today),
                read |-> 0, seen |-> [x \in {} |-> 0],
                rows |-> Len(expenses), meanwhile |-> "nothing"]
        /\ Len(expenses) \in Nat /\ today \in Dates /\ today.year - 1 \in Years
    BY DEF Begin, IInv, Typed, WalkOK
  <1> HIDE DEF r
  <1>2. DOMAIN r.seen = {}
    BY <1>1
  <1>3. ReaderType(r, expenses)
    BY <1>1, <1>2 DEF ReaderType
  <1>4. Progress(r)
    BY <1>1, <1>2 DEF Progress, Seen
  <1>5. SpendOK(r, expenses) /\ DigestOK(r, expenses) /\ IncomeOK(r, incomes)
        /\ NetOK(r, expenses)
    BY <1>1, <1>2 DEF SpendOK, DigestOK, IncomeOK, NetOK, Seen
  <1> QED BY <1>3, <1>4, <1>5 DEF ReaderOK, r

\* The reply after one SELECT more, field by field.
LEMMA OneMoreIs ==
    ASSUME NEW r, NEW rows, ReaderType(r, rows), NEW s, NEW q,
           q = [r EXCEPT !.read = @ + 1, !.seen = s]
    PROVE  q = [kind |-> r.kind, day |-> r.day, window |-> r.window,
                read |-> r.read + 1, seen |-> s, rows |-> r.rows,
                meanwhile |-> r.meanwhile]
  BY DEF ReaderType

\* The step of a SELECT keeps the reply's part of the invariant.
LEMMA ReadOK ==
    ASSUME RInv, Read
    PROVE  ReaderOK(reading', expenses, incomes)
  <1> DEFINE x == Statements[reading.kind][reading.read + 1]
             v == Select(reading, x)
             s == [f \in DOMAIN reading.seen \cup {x} |->
                      IF f = x THEN v ELSE reading.seen[f]]
             q == [reading EXCEPT !.read = @ + 1, !.seen = s]
  <1>1. /\ ReaderOK(reading, expenses, incomes)
        /\ reading.read < Len(Statements[reading.kind])
        /\ ReaderType(reading, expenses)
        /\ expenses \in Seq(ExpenseType) /\ incomes \in Seq(IncomeType)
    BY DEF RInv, Read, ReaderOK, IInv, Typed
  <1>2. Returns(reading, expenses, incomes, x, v)
    BY SelectIs DEF RInv
  <1>3. reading' = q
    BY DEF Read
  <1> HIDE DEF x, v
  <1>4. /\ DOMAIN s = DOMAIN reading.seen \cup {x} /\ s[x] = v
        /\ \A y \in DOMAIN reading.seen : y # x => s[y] = reading.seen[y]
        /\ s = [f \in DOMAIN s |-> s[f]]
    OBVIOUS
  <1> HIDE DEF s
  <1>5. q = [kind |-> reading.kind, day |-> reading.day,
             window |-> reading.window, read |-> reading.read + 1,
             seen |-> s, rows |-> reading.rows,
             meanwhile |-> reading.meanwhile]
    BY <1>1, OneMoreIs
  <1> HIDE DEF q
  <1>6. ReaderType(q, expenses)
    BY <1>1, <1>4, <1>5 DEF ReaderType
  <1>7. Extended(reading, q, x, v)
    BY <1>4, <1>5 DEF Extended, Seen
  <1>8. ReaderOK(q, expenses, incomes)
    BY <1>1, <1>2, <1>6, <1>7, ReadKeeps DEF x
  <1> QED BY <1>3, <1>8

\* What a reader that is under way has beside it.
LEMMA MeanwhileIs ==
    ASSUME NEW r, NEW rows, ReaderType(r, rows), NEW after,
           Len(after) \in Nat, Len(rows) <= Len(after), Len(rows) \in Nat,
           NEW what, NEW q, q = [r EXCEPT !.meanwhile = what]
    PROVE  ReaderType(q, after) /\ Beside(r, q, what)
  <1>1. q = [kind |-> r.kind, day |-> r.day, window |-> r.window,
             read |-> r.read, seen |-> r.seen, rows |-> r.rows,
             meanwhile |-> what]
    BY DEF ReaderType
  <1> QED BY <1>1 DEF ReaderType, Beside

\* So does the step of a handler that records a row meanwhile.
LEMMA RowAddedOK ==
    ASSUME RInv, RowAdded, reading # Idle
    PROVE  ReaderOK(reading', expenses', incomes')
  <1>1. PICK o \in Datable, p \in Payments :
           expenses' = Append(expenses, [amount |-> p.amount,
                                         category |-> p.category, date |-> o])
    BY DEF RowAdded, AddExpense
  <1>2. [amount |-> p.amount, category |-> p.category, date |-> o]
           \in ExpenseType
    BY DatableType, QuestionsAssumption DEF ExpenseType
  <1>3. PICK row \in ExpenseType : expenses' = Append(expenses, row)
    BY <1>1, <1>2
  <1>4. /\ expenses \in Seq(ExpenseType) /\ expenses' \in Seq(ExpenseType)
        /\ Len(expenses) \in Nat /\ Len(expenses') = Len(expenses) + 1
        /\ incomes' = incomes
        /\ ReaderOK(reading, expenses, incomes)
        /\ ReaderType(reading, expenses)
    BY <1>3 DEF RInv, IInv, Typed, RowAdded, AddExpense, ReaderOK
  <1>5. CASE reading.meanwhile = "changes"
    <2>1. reading' = reading
      BY <1>5 DEF RowAdded, Meanwhile
    <2>2. ReaderType(reading, expenses') /\ Beside(reading, reading, "changes")
      BY <1>4, <1>5 DEF ReaderType, Beside
    <2> QED BY <1>4, <2>1, <2>2, MoveKeeps
  <1>6. CASE reading.meanwhile # "changes"
    <2>1. PICK q : q = [reading EXCEPT !.meanwhile = "rows"]
      OBVIOUS
    <2>2. reading' = q
      BY <1>6, <2>1 DEF RowAdded, Meanwhile
    <2>3. ReaderType(q, expenses') /\ Beside(reading, q, "rows")
      BY <1>4, <2>1, MeanwhileIs
    <2> QED BY <1>3, <1>4, <1>6, <2>2, <2>3, RowKeeps
  <1> QED BY <1>5, <1>6

\* So does a recategorisation, which is remembered as a change.
LEMMA RowMovedOK ==
    ASSUME RInv, RowMoved, reading # Idle
    PROVE  ReaderOK(reading', expenses', incomes')
  <1>1. PICK e \in DOMAIN expenses, c \in Corrections :
           expenses' = [expenses EXCEPT ![e].category = c]
    BY DEF RowMoved, Recategorize
  <1>2. /\ expenses \in Seq(ExpenseType)
        /\ incomes' = incomes
        /\ ReaderOK(reading, expenses, incomes)
        /\ ReaderType(reading, expenses)
    BY DEF RInv, IInv, Typed, RowMoved, Recategorize, ReaderOK
  <1>3. Len(expenses) \in Nat /\ Len(expenses') = Len(expenses)
    <2>1. [Next]_vars
      BY ReadersOnlyRead DEF ReadNext
    <2>2. expenses' \in Seq(ExpenseType) /\ DOMAIN expenses' = DOMAIN expenses
      BY <1>1, <2>1, NextIInv DEF RInv, IInv, Typed
    <2> QED BY <1>2, <2>2
  <1>4. PICK q : q = [reading EXCEPT !.meanwhile = "changes"]
    OBVIOUS
  <1>5. reading' = q
    BY <1>4 DEF RowMoved, Meanwhile
  <1>6. ReaderType(q, expenses') /\ Beside(reading, q, "changes")
    BY <1>2, <1>3, <1>4, MeanwhileIs
  <1> QED BY <1>2, <1>5, <1>6, MoveKeeps

\* Every step of Readings keeps its invariant.
LEMMA ReadersKeep == RInv /\ [ReadNext]_readVars => RInv'
  <1> SUFFICES ASSUME RInv, [ReadNext]_readVars PROVE RInv'
    OBVIOUS
  <1>1. IInv'
    BY NextIInv, ReadersOnlyRead DEF RInv, readVars, vars
  <1>2. CASE StartReading
    <2>1. \E range : \E kind \in {"spend", "income", "net", "digest"} :
             reading' = Begin(kind, range)
      BY <1>2 DEF StartReading
    <2>2. UNCHANGED <<expenses, incomes>>
      BY <1>2 DEF StartReading, vars
    <2> QED BY <1>1, <2>1, <2>2, BeginOK DEF RInv
  <1>3. CASE Read
    <2>1. UNCHANGED <<expenses, incomes>>
      BY <1>3 DEF Read, vars
    <2> QED BY <1>1, <1>3, <2>1, ReadOK DEF RInv
  <1>4. CASE Answer
    BY <1>1, <1>4 DEF Answer, RInv
  <1>5. CASE Midnight
    BY <1>1, <1>5 DEF Midnight, Tick, RInv
  <1>6. CASE RowAdded
    <2>1. CASE reading = Idle
      BY <1>1, <1>6, <2>1 DEF RowAdded, Meanwhile, RInv
    <2>2. CASE reading # Idle
      BY <1>1, <1>6, <2>2, RowAddedOK DEF RInv
    <2> QED BY <2>1, <2>2
  <1>7. CASE RowMoved
    <2>1. CASE reading = Idle
      BY <1>1, <1>7, <2>1 DEF RowMoved, Meanwhile, RInv
    <2>2. CASE reading # Idle
      BY <1>1, <1>7, <2>2, RowMovedOK DEF RInv
    <2> QED BY <2>1, <2>2
  <1>8. CASE IncomeAdded
    <2>1. PICK o \in Datable, a \in Deposits :
             incomes' = Append(incomes, [amount |-> a, date |-> o])
      BY <1>8 DEF IncomeAdded, RecordIncome
    <2>2. [amount |-> a, date |-> o] \in IncomeType
      BY DatableType, QuestionsAssumption DEF IncomeType
    <2>3. /\ incomes \in Seq(IncomeType)
          /\ UNCHANGED <<reading, expenses>>
      BY <1>8 DEF IncomeAdded, RecordIncome, RInv, IInv, Typed
    <2> QED BY <1>1, <2>1, <2>2, <2>3, DepositKeeps DEF RInv
  <1>9. CASE UNCHANGED readVars
    BY <1>1, <1>9 DEF readVars, RInv
  <1> QED BY <1>2, <1>3, <1>4, <1>5, <1>6, <1>7, <1>8, <1>9 DEF ReadNext

\* The inductive invariant of Readings.
LEMMA AlwaysRInv == ReadSpec => []RInv
  <1>1. ReadInit => RInv
    BY InitIInv DEF ReadInit, RInv
  <1> QED BY <1>1, ReadersKeep, PTL DEF ReadSpec

-----------------------------------------------------------------------------
(***************************************************************************)
(* What a finished reader has.                                             *)
(***************************************************************************)
LEMMA AllRead ==
    ASSUME NEW r, r.read = Len(Statements[r.kind])
    PROVE  /\ r.kind = "spend" => r.read = 4
           /\ r.kind = "digest" => r.read = 6
           /\ r.kind = "income" => r.read = 4
           /\ r.kind = "net" => r.read = 3
  <1>1. /\ Len(Statements["spend"]) = 4 /\ Len(Statements["income"]) = 4
        /\ Len(Statements["net"]) = 3 /\ Len(Statements["digest"]) = 6
    BY DEF Statements
  <1> QED BY <1>1

\* A reply that has run its last SELECT has all its figures.
LEMMA AllSeen ==
    ASSUME NEW r, r.kind \in {"spend", "income", "net", "digest"}, Progress(r),
           r.kind = "spend" => r.read = 4, r.kind = "digest" => r.read = 6,
           r.kind = "income" => r.read = 4, r.kind = "net" => r.read = 3
    PROVE  /\ r.kind \in {"spend", "digest"} => \A x \in Sums : Seen(r, x)
           /\ r.kind = "digest" => Seen(r, "categories") /\ Seen(r, "biggest")
           /\ r.kind = "income" => \A x \in Earnings : Seen(r, x)
           /\ r.kind = "net" => Seen(r, "spend") /\ Seen(r, "moved")
  <1>1. CASE r.kind = "spend"
    BY <1>1 DEF Progress, Seen, Sums
  <1>2. CASE r.kind = "digest"
    BY <1>2 DEF Progress, Seen, Sums
  <1>3. CASE r.kind = "income"
    BY <1>3 DEF Progress, Seen, Earnings
  <1>4. CASE r.kind = "net"
    BY <1>4 DEF Progress, Seen
  <1> QED BY <1>1, <1>2, <1>3, <1>4

\* The invariant gives the digest that hangs together.
LEMMA DigestHolds == RInv => DigestConsistent
  <1> SUFFICES ASSUME RInv, Finished("digest") PROVE DigestConsistent
    BY DEF DigestConsistent
  <1> DEFINE g    == reading.seen
             sums == CategoriesOf(expenses, reading.day)
             big  == BiggestOf(expenses, reading.day)
             week == SpendFigures(expenses, reading.day)["week"]
  <1>1. /\ reading.kind = "digest"
        /\ reading.read = Len(Statements[reading.kind])
        /\ reading # Idle
    BY DEF Finished, Idle
  <1>2. /\ ReaderType(reading, expenses) /\ Progress(reading)
        /\ DigestOK(reading, expenses)
        /\ expenses \in Seq(ExpenseType)
    BY <1>1 DEF RInv, ReaderOK, IInv, Typed
  <1>3. Seen(reading, "week") /\ Seen(reading, "categories")
        /\ Seen(reading, "biggest")
    BY <1>1, <1>2, AllRead, AllSeen DEF Sums
  <1>4. reading.meanwhile = "nothing" =>
           g["week"] = week /\ g["categories"] = sums /\ g["biggest"] = big
    BY <1>1, <1>2, <1>3 DEF DigestOK
  <1>5. reading.meanwhile # "changes" =>
           /\ g["week"] <= SumFunction(g["categories"])
           /\ Top(g["categories"]) # {} => g["biggest"] # {}
    BY <1>1, <1>2, <1>3 DEF DigestOK
  <1>6. /\ SumFunction(sums) = week
        /\ Top(sums) = {} <=> big = {}
        /\ \A c \in Top(sums), e \in big : expenses[e].amount <= sums[c]
    BY <1>2, DigestFits
  <1> HIDE DEF sums, big, week
  <1>7. reading.meanwhile = "nothing" =>
           /\ SumFunction(g["categories"]) = g["week"]
           /\ Top(g["categories"]) = {} <=> g["biggest"] = {}
           /\ \A c \in Top(g["categories"]), e \in g["biggest"] :
                 expenses[e].amount <= g["categories"][c]
    BY <1>4, <1>6
  <1> QED BY <1>5, <1>7 DEF DigestConsistent

\* The invariant gives the figures that fit each other.
LEMMA FiguresHold == RInv => FiguresFit
  <1> SUFFICES ASSUME RInv, \E kind \in DOMAIN Statements : Finished(kind)
               PROVE  FiguresFit
    BY DEF FiguresFit, Statements
  <1> DEFINE r == reading
  <1>1. /\ r.kind \in {"spend", "income", "net", "digest"}
        /\ r.read = Len(Statements[r.kind])
        /\ r # Idle
    BY DEF Finished, Idle, Statements
  <1>2. /\ ReaderType(r, expenses) /\ Progress(r)
        /\ SpendOK(r, expenses) /\ IncomeOK(r, incomes) /\ NetOK(r, expenses)
        /\ expenses \in Seq(ExpenseType)
    BY <1>1 DEF RInv, ReaderOK, IInv, Typed
  <1>3. /\ r.kind \in {"spend", "digest"} => \A x \in Sums : Seen(r, x)
        /\ r.kind = "income" => \A x \in Earnings : Seen(r, x)
        /\ r.kind = "net" => Seen(r, "spend") /\ Seen(r, "moved")
    BY <1>1, <1>2, AllRead, AllSeen
  <1>4. r.kind \in {"spend", "digest"} /\ r.meanwhile # "changes" =>
           /\ r.seen["week"] <= r.seen["total"]
           /\ r.seen["month"] <= r.seen["year"]
           /\ r.seen["year"] <= r.seen["total"]
    BY <1>2, <1>3 DEF SpendOK, Sums
  <1>5. r.kind = "income" =>
           /\ r.seen["month"] <= r.seen["year"]
           /\ r.seen["year"] <= r.seen["total"]
           /\ r.seen["month"] + r.seen["lastMonth"] <= r.seen["total"]
    BY <1>2, <1>3 DEF IncomeOK, Earnings
  <1>6. r.kind = "net" /\ r.meanwhile # "changes" =>
           /\ Spent({e \in ExpensesIn(r.window) : e <= r.rows})
                 <= r.seen["spend"] + r.seen["moved"]
           /\ r.seen["spend"] + r.seen["moved"] <= Spent(ExpensesIn(r.window))
    <2> SUFFICES ASSUME r.kind = "net", r.meanwhile # "changes"
                 PROVE  /\ Total(expenses, {e \in InOf(expenses, r.window) :
                                               e <= r.rows})
                              <= r.seen["spend"] + r.seen["moved"]
                        /\ r.seen["spend"] + r.seen["moved"]
                              <= Total(expenses, InOf(expenses, r.window))
      BY DEF Spent, ExpensesIn, Total, InOf
    <2> DEFINE k(n) == Total(expenses, Kept(expenses, r.window, n))
               m(n) == Total(expenses, Moved(expenses, r.window, n))
    <2>1. /\ r.seen["spend"] \in Nat /\ r.seen["moved"] \in Nat
          /\ k(r.rows) <= r.seen["spend"]
          /\ r.seen["spend"] <= k(Len(expenses))
          /\ m(r.rows) <= r.seen["moved"]
          /\ r.seen["moved"] <= m(Len(expenses))
      BY <1>2, <1>3 DEF NetOK
    <2>2. /\ k(r.rows) \in Nat /\ m(r.rows) \in Nat
          /\ k(Len(expenses)) \in Nat /\ m(Len(expenses)) \in Nat
          /\ Total(expenses, {e \in InOf(expenses, r.window) : e <= r.rows})
                = k(r.rows) + m(r.rows)
          /\ Total(expenses, InOf(expenses, r.window))
                = k(Len(expenses)) + m(Len(expenses))
      BY <1>2, WindowFits DEF ReaderType
    <2> HIDE DEF k, m
    <2> QED BY <2>1, <2>2
  <1> QED BY <1>4, <1>5, <1>6 DEF FiguresFit, Finished

\* build_weekly_digest: with nothing written between its SELECTs the figures
\* of the digest belong together, and a row recorded between them can only be
\* missing from the week or be the largest without its category.
THEOREM DigestHangsTogether == ReadSpec => []DigestConsistent
  BY AlwaysRInv, DigestHolds, PTL

\* get_spend_summary, get_income_summary and _run_net_query: the figures that
\* one answer reads one after the other fit each other, whatever is recorded
\* and however the days pass meanwhile.
THEOREM FiguresFitTogether == ReadSpec => []FiguresFit
  BY AlwaysRInv, FiguresHold, PTL
=============================================================================
