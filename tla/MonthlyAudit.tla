---------------------------- MODULE MonthlyAudit ----------------------------
(***************************************************************************)
(* The audit of the last completed month: run_monthly_audit of             *)
(* app/audit.py with its two callers, /audit for one user and the monthly  *)
(* job of app/cron.py for all, and the buttons of the questions it asks.   *)
(*                                                                         *)
(* The row in audit_runs is looked up first, and inserted after the tables *)
(* are read and the model has answered; the report and the questions are   *)
(* sent when it is committed.  Steps are cut at the awaits.                *)
(*                                                                         *)
(* The model's prose and the lines about the salary are left out: they go  *)
(* into the text of the report and decide nothing.                         *)
(***************************************************************************)
EXTENDS AuditSnapshot

CONSTANTS
    Users,
    Categories,     \* the labels of app/categories.py CATEGORIES
    Entries,        \* bound: the expense rows
    Purchases,      \* what an expense row may say
    Credits,        \* bound: the income rows
    Deposits,       \* what an income row may say
    Audits,         \* bound: invocations of /audit and of the job
    LastMonth       \* bound: the months are 1 .. LastMonth, the first is over

NoUser   == "nobody"
NoEntry  == [owner |-> NoUser, category |-> Savings, amount |-> 0, month |-> 0]
NoCredit == [owner |-> NoUser, amount |-> 0, month |-> 0]
NoFigures == [income |-> 0, spend |-> 0, saved |-> 0, rate |-> {}]

ASSUME AuditAssumption ==
    /\ NoUser \notin Users
    /\ Savings \in Categories
    /\ LastMonth \in Nat /\ LastMonth > 1
    /\ IsFiniteSet(Entries) /\ IsFiniteSet(Credits)
    /\ Purchases \subseteq [owner : Users, category : Categories \cup {Uncategorized},
                            amount : Nat, month : Nat]
    /\ Deposits \subseteq [owner : Users, amount : Nat, month : Nat]

Months == 1 .. LastMonth

\* What a row of audit_runs is unique for.
Items == Users \X Months

FigureType == [income : Int, spend : Int, saved : Int, rate : SUBSET Int]

\* flagged_expense_ids: the model may name any id.  It may name one twice,
\* which only asks the same question twice.
Replies == SUBSET Entries

VARIABLES
    month,      \* the month of date.today()
    expense,    \* the expenses table
    income,     \* the incomes table
    auditRun,   \* the audit_runs table
    told,       \* how often the report of each month reached the chat
    shown,      \* the figures the chat has seen for it, in report and recap
    asked,      \* the questions in the chat: whom, and about which expense
    audit       \* the local state of each invocation

vars == <<month, expense, income, auditRun, told, shown, asked, audit>>

-----------------------------------------------------------------------------
IdleAudit == [pc |-> "idle", cron |-> FALSE, left |-> {}, user |-> NoUser,
              month |-> 0, income |-> 0, figures |-> NoFigures, offered |-> {},
              questions |-> {}, owes |-> FALSE]

AuditType == [pc        : {"idle", "next", "incomes", "expenses", "ask",
                           "insert", "report", "questions", "recap", "done",
                           "dead"},
              cron      : BOOLEAN,
              left      : SUBSET Users,
              user      : Users \cup {NoUser},
              month     : Nat,
              income    : Int,
              figures   : FigureType,
              offered   : SUBSET Entries,
              questions : SUBSET Entries,
              owes      : BOOLEAN]

Audited == DOMAIN auditRun

TypeOK ==
    /\ month \in 2 .. LastMonth
    /\ DOMAIN expense = Entries
    /\ \A e \in Entries : expense[e] # NoEntry =>
          expense[e] \in [owner : Users, category : Categories \cup {Uncategorized},
                          amount : Nat, month : Nat]
    /\ income \in [Credits -> Deposits \cup {NoCredit}]
    /\ Audited \subseteq Items /\ \A i \in Audited : auditRun[i] \in FigureType
    /\ told \in [Items -> Nat]
    /\ shown \in [Items -> SUBSET FigureType]
    /\ asked \subseteq Users \X Entries
    /\ audit \in [Audits -> AuditType]

Init ==
    /\ month = 2
    /\ expense = [e \in Entries |-> NoEntry]
    /\ income = [i \in Credits |-> NoCredit]
    /\ auditRun = [i \in {} |-> NoFigures]
    /\ told = [i \in Items |-> 0]
    /\ shown = [i \in Items |-> {}]
    /\ asked = {}
    /\ audit = [k \in Audits |-> IdleAudit]

RowsOf(table, u, m) ==
    {e \in DOMAIN table : table[e].owner = u /\ table[e].month = m}

-----------------------------------------------------------------------------
(***************************************************************************)
(* What happens around the audits: time, and rows that arrive for any      *)
(* month, also for one that has been audited.                              *)
(***************************************************************************)
NextMonth ==
    /\ month < LastMonth
    /\ month' = month + 1
    /\ UNCHANGED <<expense, income, auditRun, told, shown, asked, audit>>

AddExpense(e) ==
    /\ expense[e] = NoEntry
    /\ \E x \in Purchases : expense' = [expense EXCEPT ![e] = x]
    /\ UNCHANGED <<month, income, auditRun, told, shown, asked, audit>>

RecordIncome(i) ==
    /\ income[i] = NoCredit
    /\ \E x \in Deposits : income' = [income EXCEPT ![i] = x]
    /\ UNCHANGED <<month, expense, auditRun, told, shown, asked, audit>>

\* Mutated form: the key of the button is stored and not its label.
RecategorizeByKey(q, c) ==
    /\ q \in asked
    /\ expense' = [expense EXCEPT ![q[2]].category = "food"]
    /\ UNCHANGED <<month, income, auditRun, told, shown, asked, audit>>

\* A button under a question; it stays there after the first tap.
Recategorize(q, c) ==
    /\ q \in asked
    /\ expense' = [expense EXCEPT ![q[2]].category = c]
    /\ UNCHANGED <<month, income, auditRun, told, shown, asked, audit>>

-----------------------------------------------------------------------------
(***************************************************************************)
(* An audit.                                                               *)
(***************************************************************************)
Local(k, a) ==
    /\ audit' = [audit EXCEPT ![k] = a]
    /\ UNCHANGED <<month, expense, income, auditRun, told, shown, asked>>

StartCron(k) ==
    /\ audit[k].pc = "idle"
    /\ Local(k, [IdleAudit EXCEPT !.pc = "next", !.cron = TRUE, !.left = Users])

StartCommand(k, u) ==
    /\ audit[k].pc = "idle"
    /\ Local(k, [IdleAudit EXCEPT !.pc = "next", !.left = {u}])

\* A job that goes on to its next user keeps nothing of the last.
Onward(a, pc) == [IdleAudit EXCEPT !.pc = pc, !.cron = a.cron, !.left = a.left]

Item(a) == <<a.user, a.month>>

\* Mutated form: the recap is computed from the tables as they are.
RecapNow(u, m) == Figures(TotalOf(income, RowsOf(income, u, m)), expense,
                          RowsOf(expense, u, m))

\* _recap_message
Recap(u, m) == auditRun[<<u, m>>]

\* The next user.  If last month is audited already, /audit recaps it and
\* the job goes on to the next.
FindRun(k, u) ==
    LET a    == audit[k]
        here == [Onward(a, "incomes") EXCEPT !.left = a.left \ {u},
                                             !.user = u, !.month = month - 1]
    IN  /\ a.pc = "next" /\ u \in a.left
        /\ \/ /\ Item(here) \notin Audited
              /\ Local(k, here)
           \/ /\ Item(here) \in Audited /\ a.cron
              /\ Local(k, Onward(here, "next"))
           \/ /\ Item(here) \in Audited /\ ~a.cron
              /\ Local(k, [here EXCEPT !.pc = "recap",
                                       !.figures = Recap(u, month - 1)])

ReadIncomes(k) ==
    LET a == audit[k]
    IN  /\ a.pc = "incomes"
        /\ Local(k, [a EXCEPT
                !.pc = "expenses",
                !.income = TotalOf(income, RowsOf(income, a.user, a.month))])

\* The snapshot.  A month without data ends here, with no row and, for
\* /audit, a notice.
ReadExpenses(k) ==
    LET a == audit[k]
        S == RowsOf(expense, a.user, a.month)
    IN  /\ a.pc = "expenses"
        /\ \/ /\ HasData(a.income, expense, S)
              /\ \E C \in SUBSET S :
                    /\ IsShortlist(expense, S, C)
                    /\ Local(k, [a EXCEPT
                            !.pc = "ask", !.income = 0, !.offered = C,
                            !.figures = Figures(a.income, expense, S)])
           \/ /\ ~HasData(a.income, expense, S)
              /\ Local(k, Onward(a, "next"))

\* Mutated form: the guard passes every flag.
KeepFlags(reply, offered) == reply

\* _apply_audit_guard
Guard(reply, offered) == reply \cap offered

\* Any reply, or none when the call fails: then the numbers go out alone.
AskModel(k) ==
    LET a == audit[k]
    IN  /\ a.pc = "ask"
        /\ \E reply \in Replies :
              Local(k, [a EXCEPT !.pc = "insert", !.offered = {},
                                 !.questions = Guard(reply, a.offered)])

WithRun(i, figures) ==
    [j \in Audited \cup {i} |-> IF j = i THEN figures ELSE auditRun[j]]

\* Mutated form: there is no unique index.
InsertAnyway(k) ==
    LET a == audit[k]
    IN  /\ a.pc = "insert" /\ FitsColumn(a.figures.rate)
        /\ auditRun' = WithRun(Item(a), a.figures)
        /\ audit' = [audit EXCEPT ![k] = [a EXCEPT !.pc = "report", !.owes = TRUE]]
        /\ UNCHANGED <<month, expense, income, told, shown, asked>>

\* Mutated form: without a question there is nothing to send.
InsertQuietly(k) ==
    LET a == audit[k]
    IN  /\ a.pc = "insert"
        /\ Item(a) \notin Audited /\ FitsColumn(a.figures.rate)
        /\ auditRun' = WithRun(Item(a), a.figures)
        /\ audit' = [audit EXCEPT ![k] =
                        IF a.questions = {} THEN Onward(a, "next")
                        ELSE [a EXCEPT !.pc = "report", !.owes = TRUE]]
        /\ UNCHANGED <<month, expense, income, told, shown, asked>>

\* The row is committed; its report is due.
Insert(k) ==
    LET a == audit[k]
    IN  /\ a.pc = "insert"
        /\ Item(a) \notin Audited /\ FitsColumn(a.figures.rate)
        /\ auditRun' = WithRun(Item(a), a.figures)
        /\ audit' = [audit EXCEPT ![k] = [a EXCEPT !.pc = "report", !.owes = TRUE]]
        /\ UNCHANGED <<month, expense, income, told, shown, asked>>

\* For the record, an audit that ends early keeps what it had not reported.
Dead(a) == [IdleAudit EXCEPT !.pc = "dead", !.user = a.user,
                             !.month = a.month, !.owes = a.owes]

\* Another audit inserted the row since the lookup, or the rate is too wide
\* for its column.
InsertFails(k) ==
    LET a == audit[k]
    IN  /\ a.pc = "insert"
        /\ Item(a) \in Audited \/ ~FitsColumn(a.figures.rate)
        /\ Local(k, Dead(a))

SendReport(k) ==
    LET a == audit[k]
    IN  /\ a.pc = "report"
        /\ told' = [told EXCEPT ![Item(a)] = @ + 1]
        /\ shown' = [shown EXCEPT ![Item(a)] = @ \cup {a.figures}]
        /\ audit' = [audit EXCEPT ![k] = [a EXCEPT !.pc = "questions",
                                                   !.owes = FALSE]]
        /\ UNCHANGED <<month, expense, income, auditRun, asked>>

SendQuestion(k, e) ==
    LET a == audit[k]
    IN  /\ a.pc = "questions" /\ e \in a.questions
        /\ asked' = asked \cup {<<a.user, e>>}
        /\ audit' = [audit EXCEPT ![k].questions = a.questions \ {e}]
        /\ UNCHANGED <<month, expense, income, auditRun, told, shown>>

SendRecap(k) ==
    LET a == audit[k]
    IN  /\ a.pc = "recap"
        /\ shown' = [shown EXCEPT ![Item(a)] = @ \cup {a.figures}]
        /\ audit' = [audit EXCEPT ![k] = Onward(a, "next")]
        /\ UNCHANGED <<month, expense, income, auditRun, told, asked>>

FinishUser(k) ==
    LET a == audit[k]
    IN  /\ a.pc = "questions" /\ a.questions = {}
        /\ Local(k, Onward(a, "next"))

FinishAudit(k) ==
    /\ audit[k].pc = "next" /\ audit[k].left = {}
    /\ Local(k, Onward(audit[k], "done"))

AuditDies(k) ==
    /\ audit[k].pc \notin {"idle", "done", "dead"}
    /\ Local(k, Dead(audit[k]))

-----------------------------------------------------------------------------
AuditStep(k) ==
    \/ \E u \in Users : FindRun(k, u)
    \/ ReadIncomes(k) \/ ReadExpenses(k) \/ AskModel(k)
    \/ Insert(k) \/ InsertFails(k)
    \/ SendReport(k) \/ SendRecap(k)
    \/ \E e \in Entries : SendQuestion(k, e)
    \/ FinishUser(k) \/ FinishAudit(k)

Next ==
    \/ NextMonth
    \/ \E e \in Entries : AddExpense(e)
    \/ \E i \in Credits : RecordIncome(i)
    \/ \E q \in asked, c \in Categories : Recategorize(q, c)
    \/ \E k \in Audits : \/ StartCron(k)
                         \/ \E u \in Users : StartCommand(k, u)
                         \/ AuditStep(k) \/ AuditDies(k)

Spec == Init /\ [][Next]_vars

-----------------------------------------------------------------------------
\* A report that is recorded is sent, or one audit still owes it and loses it
\* only by dying.
ReportAccounted ==
    \A i \in Audited : told[i] = 0 =>
        \E k \in Audits : audit[k].owes /\ Item(audit[k]) = i

\* A month is reported once, by whichever of /audit and the job comes first.
Promise == INSTANCE Announcement WITH claimed <- Audited

ReportedOnce == Promise!Spec

\* Report and recaps of a month always show the one set of figures that is
\* stored, whatever rows arrive or change their category in the meantime.
OneSetOfFigures ==
    \A i \in Items : \A f \in shown[i] : i \in Audited /\ auditRun[i] = f

\* Whatever ids the model flags, a user is only asked about an expense of
\* his own in a month whose report he has got.
AskedIsOwn ==
    \A q \in asked :
        LET row == expense[q[2]]
        IN  /\ row.owner = q[1]
            /\ row.month \in Months
            /\ told[<<q[1], row.month>>] > 0

-----------------------------------------------------------------------------
(***************************************************************************)
(* The figures, for the rows of every user and month.                      *)
(***************************************************************************)
RateIsNearest ==
    \A u \in Users, m \in Months :
        LET f == Figures(TotalOf(income, RowsOf(income, u, m)), expense,
                         RowsOf(expense, u, m))
        IN  \A r \in f.rate :
               /\ 2 * (10000 * f.saved - r * f.income) <= f.income
               /\ 2 * (r * f.income - 10000 * f.saved) <= f.income

\* The median by rank: the mean of the least amount that half the rows do not
\* exceed and the greatest that half do not fall below.
MedianIsMiddle ==
    \A u \in Users, m \in Months :
        LET S      == RowsOf(expense, u, m)
            upTo(v) == {e \in S : expense[e].amount <= v}
            from(v) == {e \in S : expense[e].amount >= v}
            values == {expense[e].amount : e \in S}
        IN  S # {} => MedianTwice(expense, S) =
               Min({v \in values : 2 * Cardinality(upTo(v)) >= Cardinality(S)})
               + Max({v \in values : 2 * Cardinality(from(v)) >= Cardinality(S)})

\* What is moved to savings changes nothing but the total it is moved from:
\* neither the figures nor what counts as unusual.
SavingsDoNotCount ==
    [][\A e \in Entries :
          expense[e] = NoEntry /\ expense'[e] # NoEntry
             /\ expense'[e].category = Savings =>
          LET S == RowsOf(expense, expense'[e].owner, expense'[e].month)
              T == S \cup {e}
          IN  /\ Outliers(expense', T) = Outliers(expense, S)
              /\ \A i \in {0, 1} :
                    Figures(i, expense', T) = Figures(i, expense, S)
      ]_vars
-----------------------------------------------------------------------------
\* A claim of a comment that the code does not keep: savings_rate is of "wide
\* precision because overspending a small income can push the rate far below
\* -100%", so every rate that is stored fits.
RateFits ==
    \A k \in Audits : audit[k].pc = "insert" => FitsColumn(audit[k].figures.rate)
=============================================================================
