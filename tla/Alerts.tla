------------------------------- MODULE Alerts -------------------------------
(***************************************************************************)
(* The two daily jobs that warn a user: budget alerts (app/budgets.py) and *)
(* mid-month salary alerts (app/audit.py), run for every user by the loops *)
(* of app/cron.py.  Both look up a marker row, insert and commit it, and   *)
(* send the message only when the user's last marker is committed.         *)
(*                                                                         *)
(* Steps are cut at the awaits, so a job overlaps with other jobs, with    *)
(* new expenses and incomes and with /setbudget and /salary.  An exception *)
(* of the database or of Telegram ends the job for all users it had left.  *)
(*                                                                         *)
(* Amounts are whole units, dates are day numbers in months of equal       *)
(* length.                                                                 *)
(***************************************************************************)
EXTENDS Integers, FiniteSetsExt

CONSTANTS
    Users,
    Categories,     \* the labels of app/categories.py CATEGORIES
    Savings,        \* SAVINGS_CATEGORY
    Entries,        \* bound: the expense rows
    Purchases,      \* what an expense row may say
    Credits,        \* bound: the income rows
    Deposits,       \* what an income row may say
    Budgets,        \* what /setbudget may be given, as stored
    Plans,          \* what /salary may be given
    Checks,         \* bound: invocations of the two jobs
    Days,           \* bound: the days on which anything happens
    DaysInMonth,    \* calendar.monthrange
    AlertPct,       \* _ALERT_THRESHOLD_PCT, in percent
    TolerancePct,   \* salary_match_tolerance_pct, in percent
    Grace,          \* midmonth_alert_grace_days
    MinPaceDay      \* _MIN_DAY_FOR_PACE_ALERT

NoLimit   == 0              \* no budgets row, or one of zero: both skipped
NotSet    == -1             \* a column that is NULL
NoProfile == [expected |-> NotSet, target |-> NotSet, payday |-> NotSet]
NoUser    == "nobody"
NoKind    == "nothing"
NoEntry   == [owner |-> NoUser, category |-> NoKind, amount |-> 0, date |-> 0]
NoCredit  == [owner |-> NoUser, amount |-> 0, date |-> 0]

ASSUME AlertAssumption ==
    /\ Savings \in Categories
    /\ NoUser \notin Users
    /\ NoKind \notin Categories \cup {"salary_late", "pace_high"}
    /\ Purchases \subseteq [owner : Users, category : Categories,
                            amount : Nat, date : Nat \ {0}]
    /\ Deposits \subseteq [owner : Users, amount : Nat, date : Nat \ {0}]
    /\ Budgets \subseteq [owner : Users, category : Categories, limit : Nat]
    /\ Plans \subseteq [owner : Users, expected : Nat \ {0},
                        target : Nat \cup {NotSet},
                        payday : 1 .. 28 \cup {NotSet}]
    /\ Days \subseteq Nat \ {0}
    /\ DaysInMonth \in Nat \ {0}

Limits   == {x.limit : x \in Budgets}
Profiles == {[expected |-> x.expected, target |-> x.target,
              payday |-> x.payday] : x \in Plans}

Jobs  == {"budget", "salary"}
Kinds == Categories \cup {"salary_late", "pace_high"}

Month(d)      == (d - 1) \div DaysInMonth
DayOfMonth(d) == ((d - 1) % DaysInMonth) + 1
MonthStart(d) == d - DayOfMonth(d) + 1

\* What a marker row is unique for: budget_alerts_sent by category,
\* audit_alerts_sent by alert type.
Items == Users \X Kinds \X {Month(d) : d \in Days}

VARIABLES
    today,      \* date.today()
    budget,     \* the budgets table
    profile,    \* the salary_profiles table
    expense,    \* the expenses table
    income,     \* the incomes table
    marker,     \* the tables budget_alerts_sent and audit_alerts_sent
    told,       \* how often each alert reached the chat
    check       \* the local state of each invocation of a job

vars == <<today, budget, profile, expense, income, marker, told, check>>

-----------------------------------------------------------------------------
IdleCheck == [pc |-> "idle", job |-> "budget", left |-> {}, user |-> NoUser,
              day |-> 0, limits |-> [c \in Categories |-> NoLimit],
              profile |-> NoProfile, due |-> {}, kind |-> NoKind,
              alerts |-> {}]

CheckType == [pc      : {"idle", "next", "incomes", "spend", "look",
                         "insert", "done", "dead"},
              job     : Jobs,
              left    : SUBSET Users,
              user    : Users \cup {NoUser},
              day     : Days \cup {0},
              limits  : [Categories -> Limits \cup {NoLimit}],
              profile : Profiles \cup {NoProfile},
              due     : SUBSET Kinds,
              kind    : Kinds \cup {NoKind},
              alerts  : SUBSET Kinds]

TypeOK ==
    /\ today \in Days
    /\ budget \in [Users -> [Categories -> Limits \cup {NoLimit}]]
    /\ profile \in [Users -> Profiles \cup {NoProfile}]
    /\ DOMAIN expense = Entries
    /\ \A e \in Entries : expense[e] # NoEntry =>
          expense[e] \in [owner : Users, category : Categories,
                          amount : Nat, date : Nat]
    /\ income \in [Credits -> Deposits \cup {NoCredit}]
    /\ marker \subseteq Items
    /\ told \in [Items -> Nat]
    /\ check \in [Checks -> CheckType]

Init ==
    /\ today \in Days /\ \A d \in Days : today <= d
    /\ budget = [u \in Users |-> [c \in Categories |-> NoLimit]]
    /\ profile = [u \in Users |-> NoProfile]
    /\ expense = [e \in Entries |-> NoEntry]
    /\ income = [i \in Credits |-> NoCredit]
    /\ marker = {}
    /\ told = [i \in Items |-> 0]
    /\ check = [k \in Checks |-> IdleCheck]

-----------------------------------------------------------------------------
(***************************************************************************)
(* What the jobs compute from what they read.                              *)
(***************************************************************************)
Total(E) == MapThenSumSet(LAMBDA e : expense[e].amount, E)

\* _month_spend_by_category: there is no upper bound on the date.
SpendSince(u, c, start) ==
    Total({e \in Entries : /\ expense[e].owner = u
                           /\ expense[e].category = c
                           /\ expense[e].date >= start})

\* The categories whose spend has reached the threshold of their limit.
OverBudget(u, limits, day) ==
    {c \in Categories :
        /\ limits[c] > 0
        /\ 100 * SpendSince(u, c, MonthStart(day)) >= AlertPct * limits[c]}

\* _find_salary_credit among the credits of the month up to today.
Distance(i, j) == IF i < j THEN j - i ELSE i - j

SalaryReceived(u, expected, day) ==
    \E i \in Credits :
        /\ income[i].owner = u
        /\ MonthStart(day) <= income[i].date /\ income[i].date <= day
        /\ 100 * Distance(income[i].amount, expected)
              <= TolerancePct * expected

SalaryLate(u, p, day) ==
    /\ p.payday # NotSet
    /\ DayOfMonth(day) > p.payday + Grace
    /\ ~SalaryReceived(u, p.expected, day)

\* Month-to-date spend; what was moved to savings is not spent.
SpentSoFar(u, day) ==
    Total({e \in Entries : /\ expense[e].owner = u
                           /\ expense[e].category # Savings
                           /\ MonthStart(day) <= expense[e].date
                           /\ expense[e].date <= day})

(***************************************************************************)
(* Is spent / day * DaysInMonth more than the ceiling?  Decimal rounds the *)
(* quotient to 28 digits; when it does not terminate and the exact result  *)
(* is the ceiling itself, the product may come out above or below it.      *)
(* (A day number divides some power of ten times the amount only if the    *)
(* fourth does.)                                                           *)
(***************************************************************************)
Projects(spent, day, ceiling, roundedUp) ==
    LET exact == spent * DaysInMonth
    IN  \/ exact > ceiling * day
        \/ /\ exact = ceiling * day
           /\ (10000 * spent) % day # 0
           /\ roundedUp

PaceHigh(u, p, day, roundedUp) ==
    /\ p.target # NotSet
    /\ DayOfMonth(day) >= MinPaceDay
    /\ p.expected - p.target >= 0
    /\ Projects(SpentSoFar(u, day), DayOfMonth(day), p.expected - p.target,
                roundedUp)

-----------------------------------------------------------------------------
(***************************************************************************)
(* What happens around the jobs.                                           *)
(***************************************************************************)
Tick ==
    /\ \E d \in Days : /\ d > today
                       /\ \A x \in Days : x > today => d <= x
                       /\ today' = d
    /\ UNCHANGED <<budget, profile, expense, income, marker, told, check>>

\* Mutated form: a category that is no label.
AddUncategorized(e) ==
    /\ expense[e] = NoEntry
    /\ \E x \in Purchases : expense' = [expense EXCEPT ![e] =
                               [x EXCEPT !.category = "Uncategorized"]]
    /\ UNCHANGED <<today, budget, profile, income, marker, told, check>>

\* An expense is added by /log, an answer or a reconciliation pass.
AddExpense(e) ==
    /\ expense[e] = NoEntry
    /\ \E x \in Purchases : expense' = [expense EXCEPT ![e] = x]
    /\ UNCHANGED <<today, budget, profile, income, marker, told, check>>

Recategorize(e, c) ==
    /\ expense[e] # NoEntry
    /\ expense' = [expense EXCEPT ![e].category = c]
    /\ UNCHANGED <<today, budget, profile, income, marker, told, check>>

RecordIncome(i) ==
    /\ income[i] = NoCredit
    /\ \E x \in Deposits : income' = [income EXCEPT ![i] = x]
    /\ UNCHANGED <<today, budget, profile, expense, marker, told, check>>

\* /setbudget and /salary.  When two first ones race, the unique index
\* rejects one of them: then it is as if it had not been sent.
SetBudget(x) ==
    /\ budget' = [budget EXCEPT ![x.owner][x.category] = x.limit]
    /\ UNCHANGED <<today, profile, expense, income, marker, told, check>>

SetSalary(x) ==
    /\ profile' = [profile EXCEPT ![x.owner] =
                      [expected |-> x.expected, target |-> x.target,
                       payday |-> x.payday]]
    /\ UNCHANGED <<today, budget, expense, income, marker, told, check>>

-----------------------------------------------------------------------------
(***************************************************************************)
(* A job.                                                                  *)
(***************************************************************************)
Local(k, c) ==
    /\ check' = [check EXCEPT ![k] = c]
    /\ UNCHANGED <<today, budget, profile, expense, income, marker, told>>

StartCheck(k, job) ==
    /\ check[k].pc = "idle"
    /\ Local(k, [check[k] EXCEPT !.pc = "next", !.job = job, !.left = Users])

\* Mutated form: a user without a budget ends the job.
ReadBudgetsGivesUp(k, u) ==
    /\ check[k].pc = "next" /\ check[k].job = "budget"
    /\ u \in check[k].left
    /\ IF \E c \in Categories : budget[u][c] # NoLimit
       THEN Local(k, [check[k] EXCEPT !.pc = "spend",
                         !.left = check[k].left \ {u}, !.user = u,
                         !.day = today, !.limits = budget[u]])
       ELSE Local(k, [IdleCheck EXCEPT !.pc = "done"])

\* The next user, whose budgets are read; without any there is no alert.
ReadBudgets(k, u) ==
    /\ check[k].pc = "next" /\ check[k].job = "budget"
    /\ u \in check[k].left
    /\ Local(k, [check[k] EXCEPT
                    !.pc = IF \E c \in Categories : budget[u][c] # NoLimit
                           THEN "spend" ELSE "next",
                    !.left = check[k].left \ {u}, !.user = u, !.day = today,
                    !.limits = budget[u]])

\* The next user, whose profile is read; without one there is no alert.
ReadProfile(k, u) ==
    /\ check[k].pc = "next" /\ check[k].job = "salary"
    /\ u \in check[k].left
    /\ Local(k, [check[k] EXCEPT
                    !.pc = IF profile[u] # NoProfile
                           THEN "incomes" ELSE "next",
                    !.left = check[k].left \ {u}, !.user = u, !.day = today,
                    !.profile = profile[u]])

ReadIncomes(k) ==
    LET c == check[k]
    IN  /\ c.pc = "incomes"
        /\ Local(k, [c EXCEPT
              !.pc = "spend",
              !.due = IF SalaryLate(c.user, c.profile, c.day)
                      THEN {"salary_late"} ELSE {}])

ReadSpend(k) ==
    LET c == check[k]
        found(due) == [c EXCEPT !.pc = "look", !.due = due,
                                !.limits = IdleCheck.limits,
                                !.profile = NoProfile]
    IN  /\ c.pc = "spend"
        /\ \/ /\ c.job = "budget"
              /\ Local(k, found(OverBudget(c.user, c.limits, c.day)))
           \/ /\ c.job = "salary"
              /\ \E roundedUp \in BOOLEAN :
                    Local(k, found(c.due \cup
                        IF PaceHigh(c.user, c.profile, c.day, roundedUp)
                        THEN {"pace_high"} ELSE {}))

Item(c, kind) == <<c.user, kind, Month(c.day)>>

LookUp(k, kind) ==
    LET c == check[k]
    IN  /\ c.pc = "look" /\ kind \in c.due
        /\ Local(k, IF Item(c, kind) \in marker
                    THEN [c EXCEPT !.due = c.due \ {kind}]
                    ELSE [c EXCEPT !.due = c.due \ {kind}, !.pc = "insert",
                                   !.kind = kind])

\* Mutated forms: there is no unique index; only the last alert is kept.
InsertAnyway(k) ==
    LET c == check[k]
    IN  /\ c.pc = "insert"
        /\ marker' = marker \cup {Item(c, c.kind)}
        /\ check' = [check EXCEPT ![k] = [c EXCEPT
                        !.pc = "look", !.kind = NoKind,
                        !.alerts = c.alerts \cup {c.kind}]]
        /\ UNCHANGED <<today, budget, profile, expense, income, told>>

InsertLast(k) ==
    LET c == check[k]
    IN  /\ c.pc = "insert" /\ Item(c, c.kind) \notin marker
        /\ marker' = marker \cup {Item(c, c.kind)}
        /\ check' = [check EXCEPT ![k] = [c EXCEPT
                        !.pc = "look", !.kind = NoKind,
                        !.alerts = {c.kind}]]
        /\ UNCHANGED <<today, budget, profile, expense, income, told>>

\* The marker is committed; the alert is kept for the end.
Insert(k) ==
    LET c == check[k]
    IN  /\ c.pc = "insert" /\ Item(c, c.kind) \notin marker
        /\ marker' = marker \cup {Item(c, c.kind)}
        /\ check' = [check EXCEPT ![k] = [c EXCEPT
                        !.pc = "look", !.kind = NoKind,
                        !.alerts = c.alerts \cup {c.kind}]]
        /\ UNCHANGED <<today, budget, profile, expense, income, told>>

\* A job that ends early keeps what it had not told, for the record.
Dead(c) == [IdleCheck EXCEPT !.pc = "dead", !.job = c.job, !.user = c.user,
                             !.day = c.day, !.alerts = c.alerts]

\* The unique index: another job inserted the marker since the lookup.
InsertConflict(k) ==
    LET c == check[k]
    IN  /\ c.pc = "insert" /\ Item(c, c.kind) \in marker
        /\ Local(k, Dead(c))

\* The alerts of a user are sent when all his markers are committed.
SendAlert(k, kind) ==
    LET c == check[k]
    IN  /\ c.pc = "look" /\ c.due = {} /\ kind \in c.alerts
        /\ told' = [told EXCEPT ![Item(c, kind)] = @ + 1]
        /\ check' = [check EXCEPT ![k].alerts = c.alerts \ {kind}]
        /\ UNCHANGED <<today, budget, profile, expense, income, marker>>

FinishUser(k) ==
    LET c == check[k]
    IN  /\ c.pc = "look" /\ c.due = {} /\ c.alerts = {}
        /\ Local(k, [c EXCEPT !.pc = "next"])

FinishCheck(k) ==
    /\ check[k].pc = "next" /\ check[k].left = {}
    /\ Local(k, [IdleCheck EXCEPT !.pc = "done"])

Running(k) == check[k].pc \notin {"idle", "done", "dead"}

CheckDies(k) == Running(k) /\ Local(k, Dead(check[k]))

-----------------------------------------------------------------------------
CheckStep(k) ==
    \/ \E u \in Users : ReadBudgets(k, u) \/ ReadProfile(k, u)
    \/ ReadIncomes(k) \/ ReadSpend(k)
    \/ \E a \in Kinds : LookUp(k, a) \/ SendAlert(k, a)
    \/ Insert(k) \/ InsertConflict(k)
    \/ FinishUser(k) \/ FinishCheck(k)

Next ==
    \/ Tick
    \/ \E e \in Entries : \/ AddExpense(e)
                          \/ \E c \in Categories : Recategorize(e, c)
    \/ \E i \in Credits : RecordIncome(i)
    \/ \E x \in Budgets : SetBudget(x)
    \/ \E x \in Plans : SetSalary(x)
    \/ \E k \in Checks : \/ \E job \in Jobs : StartCheck(k, job)
                         \/ CheckStep(k) \/ CheckDies(k)

Spec == Init /\ [][Next]_vars

\* A job that has started goes on; nothing makes cron start one.
FairSpec == Spec /\ \A k \in Checks : WF_vars(CheckStep(k))

-----------------------------------------------------------------------------
\* The alerts a job has recorded and not told.
Held(k) == {Item(check[k], a) : a \in check[k].alerts}

\* A marker silences its alert for the month, so each one is accounted for:
\* its alert was told, or one job holds it and loses it only by dying.
MarkerAccounted ==
    \A i \in marker : told[i] = 0 => \E k \in Checks : i \in Held(k)

\* No alert is told twice, by one job or by several, and none before its
\* marker is there: a job that comes later finds the marker or dies of it.
Promise == INSTANCE Announcement WITH claimed <- marker

AnnouncedOnce == Promise!Spec

(***************************************************************************)
(* A budget that stays overspent from the start of a budget job is told in *)
(* that month, unless a job died: neither the other users nor the other    *)
(* alerts of the loop keep it back.                                        *)
(***************************************************************************)
Waiting(k, u, c) ==
    /\ check[k].pc = "next" /\ check[k].job = "budget"
    /\ u \in check[k].left
    /\ c \in OverBudget(u, budget[u], today)

OverspendIsAnnounced ==
    \A x \in Budgets, m \in {Month(d) : d \in Days} :
        LET u == x.owner
            c == x.category
        IN  (\E k \in Checks : Waiting(k, u, c)) /\ Month(today) = m
                ~> \/ told[<<u, c, m>>] > 0
                   \/ c \notin OverBudget(u, budget[u], today)
                   \/ Month(today) # m
                   \/ \E k \in Checks : check[k].pc = "dead"
=============================================================================
