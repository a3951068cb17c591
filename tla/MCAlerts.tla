------------------------------ MODULE MCAlerts ------------------------------
(***************************************************************************)
(* Small instances of Alerts for TLC: a February, the thresholds of the    *)
(* code, amounts at and below them.                                        *)
(***************************************************************************)
EXTENDS Alerts

TwoUsers == {"u1", "u2"}
Labels   == {"Food", "Savings"}

Buy(u, c, amount, date) ==
    [owner |-> u, category |-> c, amount |-> amount, date |-> date]
Paid(u, amount, date) == [owner |-> u, amount |-> amount, date |-> date]
Limit(u, c, limit) == [owner |-> u, category |-> c, limit |-> limit]
Plan(u, expected, target, payday) ==
    [owner |-> u, expected |-> expected, target |-> target, payday |-> payday]

\* The first user has set nothing up.  Of the second, a category may be
\* overspent, the pace may be too high and the salary late.
Two_Purchases == {Buy("u2", "Food", 20, 7)}
Two_Deposits  == {Paid("u2", 95, 1)}
Two_Budgets   == {Limit("u2", "Food", 25)}
Two_Plans     == {Plan("u2", 100, 40, 1)}
Two_Days      == {7, 35}
=============================================================================
