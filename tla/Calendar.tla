------------------------------- MODULE Calendar -------------------------------
(***************************************************************************)
(* The part of Python's datetime.date the code relies on: ordinals, as     *)
(* timedelta adds and subtracts days on them, weekday() and replace().     *)
(***************************************************************************)
EXTENDS Integers

CONSTANT Years      \* bound: the years whose dates exist

ASSUME CalendarAssumption == Years \subseteq Nat \ {0}

IsLeap(y) == y % 4 = 0 /\ (y % 100 # 0 \/ y % 400 = 0)

DaysInMonth(y, m) ==
    IF m = 2 THEN (IF IsLeap(y) THEN 29 ELSE 28)
    ELSE IF m \in {4, 6, 9, 11} THEN 30 ELSE 31

Dates == {d \in [year : Years, month : 1 .. 12, day : 1 .. 31] :
             d.day <= DaysInMonth(d.year, d.month)}

BeforeMonth == <<0, 31, 59, 90, 120, 151, 181, 212, 243, 273, 304, 334>>

Ordinal(d) ==
    LET past == d.year - 1
    IN  past * 365 + past \div 4 - past \div 100 + past \div 400
        + BeforeMonth[d.month]
        + (IF d.month > 2 /\ IsLeap(d.year) THEN 1 ELSE 0)
        + d.day

\* The first day of each year and of each of its months are enough to place
\* an ordinal.
FromOrdinal(o) ==
    LET first(y, m) == Ordinal([year |-> y, month |-> m, day |-> 1])
        y == CHOOSE y \in Years :
                first(y, 1) <= o /\ o < first(y, 12) + 31
        m == CHOOSE m \in 1 .. 12 :
                first(y, m) <= o /\ o < first(y, m) + DaysInMonth(y, m)
    IN  [year |-> y, month |-> m, day |-> o - first(y, m) + 1]

\* Monday is 0.
Weekday(o) == (o + 6) % 7
=============================================================================
