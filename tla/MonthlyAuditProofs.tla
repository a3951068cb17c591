------------------------- MODULE MonthlyAuditProofs -------------------------
(***************************************************************************)
(* For any users, rows, months and numbers of overlapping audits, any of   *)
(* which may die at any step, and for any reply of the model: MonthlyAudit *)
(* implements Announcement, loses no recorded report but with the audit    *)
(* that owes it, always shows the stored figures, and asks a user only     *)
(* about his own expenses; nothing is assumed of the figures for that.     *)
(* The figures come after it: the rate, the median, and what savings leave *)
(* alone, for any number of rows.                                          *)
(***************************************************************************)
EXTENDS MonthlyAudit, FigureTheorems

Active == {"incomes", "expenses", "ask", "insert", "report", "questions",
           "recap"}

\* A local state is a record of these fields.
Shaped(a) ==
    a \in [pc : {a.pc}, cron : {a.cron}, left : {a.left}, user : {a.user},
           month : {a.month}, income : {a.income}, figures : {a.figures},
           offered : {a.offered}, questions : {a.questions}, owes : {a.owes}]

\* What an audit has in hand agrees with the tables: the rows it may ask
\* about are of its user and month, and it owes a report, recaps or asks
\* only for a month with a row.
AuditOK(a) ==
    /\ Shaped(a)
    /\ a.left \subseteq Users /\ a.owes \in BOOLEAN
    /\ a.pc \in Active \/ a.owes => a.user \in Users /\ a.month \in Months
    /\ \A e \in a.offered \cup a.questions :
          /\ e \in Entries
          /\ expense[e].owner = a.user /\ expense[e].month = a.month
    /\ a.offered # {} \/ a.questions # {} => a.pc \in Active
    /\ a.owes <=> a.pc = "report" \/ (a.pc = "dead" /\ a.owes)
    /\ a.owes => Item(a) \in Audited /\ told[Item(a)] = 0
    /\ a.pc \in {"report", "recap"} =>
          Item(a) \in Audited /\ auditRun[Item(a)] = a.figures
    /\ a.pc = "questions" => told[Item(a)] = 1

TablesOK ==
    /\ month \in 2 .. LastMonth
    /\ DOMAIN expense = Entries
    /\ \A e \in Entries : expense[e] # NoEntry =>
          expense[e] \in [owner : Users, category : Categories \cup {Uncategorized},
                          amount : Nat, month : Nat]

AuditsOK == /\ audit = [k \in Audits |-> audit[k]]
            /\ \A k \in Audits : AuditOK(audit[k])

\* No report is owed by two audits.
Apart == \A j, k \in Audits :
            j # k /\ audit[j].owes /\ audit[k].owes => Item(audit[j]) # Item(audit[k])

TellOK == /\ Audited \subseteq Items
          /\ told \in [Items -> {0, 1}]
          /\ shown = [i \in Items |-> shown[i]]
          /\ \A i \in Items : told[i] = 1 => i \in Audited

AskedOK == /\ asked \subseteq Users \X Entries
           /\ \A q \in asked :
                 /\ expense[q[2]].owner = q[1]
                 /\ expense[q[2]].month \in Months
                 /\ told[<<q[1], expense[q[2]].month>>] = 1

IInv == /\ TablesOK /\ AuditsOK /\ Apart /\ TellOK /\ AskedOK
        /\ ReportAccounted /\ OneSetOfFigures

\* A user's month is something to announce.
LEMMA ItemIsItem ==
    ASSUME NEW a, a.user \in Users, a.month \in Months
    PROVE  Item(a) \in Items
BY DEF Item, Items

\* An audit that has not begun is in order.
LEMMA IdleIsOK == AuditOK(IdleAudit)
BY DEF AuditOK, Shaped, IdleAudit, Active

\* The inductive invariant holds at the start.
LEMMA InitInv == Init => IInv
<1> SUFFICES ASSUME Init PROVE IInv
    OBVIOUS
<1>1. TablesOK
    BY AuditAssumption DEF Init, TablesOK
<1>2. AuditsOK
    BY IdleIsOK DEF Init, AuditsOK
<1>3. Apart
    BY DEF Init, Apart, IdleAudit
<1>4. TellOK /\ AskedOK /\ ReportAccounted /\ OneSetOfFigures
    BY DEF Init, TellOK, AskedOK, ReportAccounted, OneSetOfFigures, Audited
<1> QED
    BY <1>1, <1>2, <1>3, <1>4 DEF IInv

(***************************************************************************)
(* A step of the world: rows may come and change their category, and keep  *)
(* their owner and month.                                                  *)
(***************************************************************************)
RowsKept ==
    \A e \in Entries : expense[e].owner \in Users =>
        /\ expense'[e].owner = expense[e].owner
        /\ expense'[e].month = expense[e].month

\* New rows beside the audits keep it.
LEMMA WorldStep ==
    ASSUME IInv, TablesOK', RowsKept,
           UNCHANGED <<auditRun, told, shown, asked, audit>>
    PROVE  IInv'
<1>1. AuditsOK'
    <2> SUFFICES ASSUME NEW k \in Audits PROVE AuditOK(audit[k])'
        BY DEF IInv, AuditsOK
    <2>1. AuditOK(audit[k])
        BY DEF IInv, AuditsOK
    <2>2. \A e \in audit[k].offered \cup audit[k].questions :
             /\ expense'[e].owner = expense[e].owner
             /\ expense'[e].month = expense[e].month
        BY <2>1 DEF AuditOK, RowsKept
    <2> QED
        BY <2>1, <2>2 DEF AuditOK, Shaped, Item, Audited
<1>2. AskedOK'
    BY DEF IInv, AskedOK, RowsKept
<1>3. Apart' /\ TellOK' /\ ReportAccounted' /\ OneSetOfFigures'
    BY DEF IInv, Apart, TellOK, ReportAccounted, OneSetOfFigures, Audited, Item
<1> QED
    BY <1>1, <1>2, <1>3 DEF IInv

(***************************************************************************)
(* A step of one audit that records, sends and asks nothing.               *)
(***************************************************************************)
LEMMA QuietStep ==
    ASSUME IInv, NEW k \in Audits, NEW c, AuditOK(c), Local(k, c),
           c.owes = audit[k].owes,
           c.owes => c.user = audit[k].user /\ c.month = audit[k].month
    PROVE  IInv'
<1>1. /\ audit' = [audit EXCEPT ![k] = c]
      /\ UNCHANGED <<month, expense, income, auditRun, told, shown, asked>>
    BY DEF Local
<1>2. /\ audit'[k] = c
      /\ \A j \in Audits : j # k => audit'[j] = audit[j]
    BY <1>1 DEF IInv, AuditsOK
<1>3. AuditsOK'
    <2>1. audit' = [j \in Audits |-> audit'[j]]
        BY <1>1 DEF IInv, AuditsOK
    <2>2. ASSUME NEW j \in Audits PROVE AuditOK(audit[j])'
        <3>1. AuditOK(audit'[j])
            BY <1>2 DEF IInv, AuditsOK
        <3> QED
            BY <3>1, <1>1 DEF AuditOK, Shaped, Item, Audited
    <2> QED
        BY <2>1, <2>2 DEF AuditsOK
<1>4. \A j \in Audits : /\ audit'[j].owes = audit[j].owes
                        /\ audit'[j].owes => Item(audit'[j]) = Item(audit[j])
    BY <1>2 DEF Item
<1>5. Apart'
    BY <1>4 DEF IInv, Apart, Item
<1>6. ReportAccounted'
    <2> SUFFICES ASSUME NEW i \in Audited, told[i] = 0
                 PROVE  \E j \in Audits : audit'[j].owes /\ Item(audit'[j]) = i
        BY <1>1 DEF ReportAccounted, Audited, Item
    <2>1. PICK j \in Audits : audit[j].owes /\ Item(audit[j]) = i
        BY DEF IInv, ReportAccounted
    <2> QED
        BY <2>1, <1>4
<1>7. TablesOK' /\ TellOK' /\ AskedOK' /\ OneSetOfFigures'
    BY <1>1 DEF IInv, TablesOK, TellOK, AskedOK, OneSetOfFigures, Audited
<1> QED
    BY <1>3, <1>5, <1>6, <1>7 DEF IInv

\* The record an audit goes on with, or leaves behind when it dies.
LEMMA OnwardIsOK ==
    ASSUME NEW a, AuditOK(a), NEW pc \in {"next", "done"}
    PROVE  AuditOK(Onward(a, pc)) /\ ~Onward(a, pc).owes
<1> DEFINE c == Onward(a, pc)
<1>1. Shaped(c)
    BY DEF Onward, IdleAudit, Shaped
<1>2. /\ Shaped(c) /\ c.pc = pc /\ c.left = a.left
      /\ c.offered = {} /\ c.questions = {} /\ c.owes = FALSE
    BY <1>1 DEF Onward, IdleAudit
<1> HIDE DEF c
<1>3. AuditOK(c) /\ ~c.owes
    BY <1>2 DEF AuditOK, Active
<1> QED
    BY <1>3 DEF c

\* An audit that dies is in order and keeps what it owed.
LEMMA DeadIsOK ==
    ASSUME NEW a, AuditOK(a)
    PROVE  /\ AuditOK(Dead(a)) /\ Dead(a).owes = a.owes
           /\ Dead(a).user = a.user /\ Dead(a).month = a.month
<1> DEFINE d == Dead(a)
<1>1. Shaped(d)
    BY DEF Dead, Shaped, IdleAudit
<1>2. /\ d.pc = "dead" /\ d.left = {} /\ d.owes = a.owes
      /\ d.user = a.user /\ d.month = a.month
      /\ d.offered = {} /\ d.questions = {} /\ Item(d) = Item(a)
    BY DEF Dead, IdleAudit, Item
<1> HIDE DEF d
<1>3. AuditOK(d)
    BY <1>1, <1>2 DEF AuditOK, Active
<1> QED
    BY <1>2, <1>3 DEF d

\* The calendar and the other handlers keep it and announce nothing.
LEMMA WorldInv ==
    ASSUME IInv,
           \/ NextMonth
           \/ \E e \in Entries : AddExpense(e)
           \/ \E i \in Credits : RecordIncome(i)
           \/ \E q \in asked, c \in Categories : Recategorize(q, c)
    PROVE  IInv' /\ UNCHANGED <<auditRun, told, asked>>
<1>1. CASE NextMonth \/ \E i \in Credits : RecordIncome(i)
    <2>1. /\ TablesOK' /\ RowsKept
          /\ UNCHANGED <<auditRun, told, shown, asked, audit>>
        BY <1>1, AuditAssumption
           DEF NextMonth, RecordIncome, IInv, TablesOK, RowsKept
    <2> QED
        BY <2>1, WorldStep
<1>2. ASSUME NEW e \in Entries, AddExpense(e)
      PROVE  IInv' /\ UNCHANGED <<auditRun, told, asked>>
    <2>1. PICK x \in Purchases : expense' = [expense EXCEPT ![e] = x]
        BY <1>2 DEF AddExpense
    <2>2. x \in [owner : Users, category : Categories \cup {Uncategorized},
                 amount : Nat, month : Nat]
        BY AuditAssumption
    <2>3. TablesOK'
        BY <1>2, <2>1, <2>2 DEF AddExpense, IInv, TablesOK
    <2>4. expense[e].owner \notin Users
        BY <1>2, AuditAssumption DEF AddExpense, NoEntry
    <2>5. RowsKept
        BY <2>1, <2>4 DEF IInv, TablesOK, RowsKept
    <2> QED
        BY <1>2, <2>3, <2>5, WorldStep DEF AddExpense
<1>3. ASSUME NEW q \in asked, NEW c \in Categories, Recategorize(q, c)
      PROVE  IInv' /\ UNCHANGED <<auditRun, told, asked>>
    <2> DEFINE e == q[2]
    <2>1. e \in Entries /\ expense[e].owner \in Users
        BY DEF IInv, AskedOK
    <2>2. expense[e] # NoEntry
        BY <2>1, AuditAssumption DEF NoEntry
    <2>3. expense[e] \in [owner : Users, category : Categories \cup {Uncategorized},
                          amount : Nat, month : Nat]
        BY <2>1, <2>2 DEF IInv, TablesOK
    <2> DEFINE x == [expense[e] EXCEPT !.category = c]
    <2>4. /\ x \in [owner : Users, category : Categories \cup {Uncategorized},
                    amount : Nat, month : Nat]
          /\ x.owner = expense[e].owner /\ x.month = expense[e].month
        BY <2>3
    <2>5. expense' = [expense EXCEPT ![e] = x]
        BY <1>3 DEF Recategorize
    <2> HIDE DEF x
    <2>6. TablesOK' /\ RowsKept
        BY <1>3, <2>1, <2>4, <2>5 DEF Recategorize, IInv, TablesOK, RowsKept
    <2> QED
        BY <1>3, <2>6, WorldStep DEF Recategorize
<1> QED
    BY <1>1, <1>2, <1>3 DEF NextMonth, RecordIncome

\* Starting, finding the next user, and ending.
LEMMA NextUserInv ==
    ASSUME IInv, NEW k \in Audits,
           \/ StartCron(k) \/ \E u \in Users : StartCommand(k, u)
           \/ \E u \in Users : FindRun(k, u)
           \/ FinishUser(k) \/ FinishAudit(k) \/ InsertFails(k) \/ AuditDies(k)
    PROVE  IInv' /\ UNCHANGED <<auditRun, told, asked>>
<1> DEFINE a == audit[k]
<1>1. AuditOK(a)
    BY DEF IInv, AuditsOK
<1>2. CASE StartCron(k) \/ \E u \in Users : StartCommand(k, u)
    <2>1. PICK c : Local(k, c) /\ AuditOK(c) /\ ~c.owes
        <3>1. CASE StartCron(k)
            <4> DEFINE d == [IdleAudit EXCEPT !.pc = "next", !.cron = TRUE,
                                              !.left = Users]
            <4>1. AuditOK(d) /\ ~d.owes /\ Local(k, d)
                BY <3>1 DEF StartCron, AuditOK, Shaped, IdleAudit, Active
            <4> QED
                BY <4>1
        <3>2. ASSUME NEW u \in Users, StartCommand(k, u)
              PROVE  \E c : Local(k, c) /\ AuditOK(c) /\ ~c.owes
            <4> DEFINE d == [IdleAudit EXCEPT !.pc = "next", !.left = {u}]
            <4>1. AuditOK(d) /\ ~d.owes
                BY DEF AuditOK, Shaped, IdleAudit, Active
            <4>2. Local(k, d)
                BY <3>2 DEF StartCommand
            <4> QED
                BY <4>1, <4>2
        <3> QED
            BY <1>2, <3>1, <3>2
    <2>2. ~a.owes
        BY <1>1, <1>2 DEF AuditOK, StartCron, StartCommand
    <2> QED
        BY <1>1, <2>1, <2>2, QuietStep DEF Local, AuditOK
<1>3. ASSUME NEW u \in Users, FindRun(k, u)
      PROVE  IInv' /\ UNCHANGED <<auditRun, told, asked>>
    <2> DEFINE here == [Onward(a, "incomes") EXCEPT !.left = a.left \ {u},
                                             !.user = u, !.month = month - 1]
               back == [here EXCEPT !.pc = "recap", !.figures = Recap(u, month - 1)]
    <2>1. ~a.owes /\ a.left \subseteq Users
        BY <1>1, <1>3 DEF AuditOK, FindRun
    <2>2. month - 1 \in Months
        BY AuditAssumption DEF IInv, TablesOK, Months
    <2>3. AuditOK(here) /\ ~here.owes
        <3>1. Shaped(here)
            BY DEF Onward, IdleAudit, Shaped
        <3>2. /\ Shaped(here) /\ here.pc = "incomes" /\ here.left = a.left \ {u}
              /\ here.user = u /\ here.month = month - 1
              /\ here.offered = {} /\ here.questions = {} /\ here.owes = FALSE
            BY <3>1 DEF Onward, IdleAudit
        <3> HIDE DEF here
        <3> QED
            BY <2>1, <2>2, <3>2 DEF AuditOK, Active
    <2>4. CASE Local(k, here)
        BY <1>1, <2>1, <2>3, <2>4, QuietStep DEF Local, AuditOK
    <2>5. CASE Local(k, Onward(here, "next"))
        BY <1>1, <2>1, <2>3, <2>5, OnwardIsOK, QuietStep DEF Local, AuditOK
    <2>6. CASE Item(here) \in Audited /\ Local(k, back)
        <3>1. /\ Item(back) = <<u, month - 1>> /\ Item(here) = <<u, month - 1>>
              /\ back.figures = auditRun[<<u, month - 1>>]
            BY DEF Item, Onward, IdleAudit, Recap
        <3>2. Shaped(back)
            BY DEF Onward, IdleAudit, Shaped
        <3>3. Item(back) \in Audited /\ Local(k, back)
            BY <2>6, <3>1
        <3>4. /\ Shaped(back) /\ back.pc = "recap" /\ back.left = a.left \ {u}
              /\ back.user = u /\ back.month = month - 1
              /\ back.offered = {} /\ back.questions = {} /\ back.owes = FALSE
            BY <3>2 DEF Onward, IdleAudit
        <3> HIDE DEF back
        <3>5. AuditOK(back) /\ ~back.owes
            BY <2>1, <2>2, <3>1, <3>3, <3>4 DEF AuditOK, Active
        <3> QED
            BY <1>1, <2>1, <3>3, <3>5, QuietStep DEF Local, AuditOK
    <2> QED
        BY <1>3, <2>4, <2>5, <2>6 DEF FindRun
<1>4. CASE FinishUser(k) \/ FinishAudit(k)
    <2>1. /\ ~a.owes
          /\ Local(k, Onward(a, "next")) \/ Local(k, Onward(a, "done"))
        BY <1>1, <1>4 DEF AuditOK, FinishUser, FinishAudit
    <2>2. /\ AuditOK(Onward(a, "next")) /\ ~Onward(a, "next").owes
          /\ AuditOK(Onward(a, "done")) /\ ~Onward(a, "done").owes
        BY <1>1, OnwardIsOK
    <2>3. CASE Local(k, Onward(a, "next"))
        BY <1>1, <2>1, <2>2, <2>3, QuietStep DEF Local, AuditOK
    <2>4. CASE Local(k, Onward(a, "done"))
        BY <1>1, <2>1, <2>2, <2>4, QuietStep DEF Local, AuditOK
    <2> QED
        BY <2>1, <2>3, <2>4
<1>5. CASE InsertFails(k) \/ AuditDies(k)
    <2>1. Local(k, Dead(a))
        BY <1>5 DEF InsertFails, AuditDies
    <2> QED
        BY <1>1, <2>1, DeadIsOK, QuietStep DEF Local
<1> QED
    BY <1>2, <1>3, <1>4, <1>5

\* Reading the tables and asking the model: it can only ask about rows of
\* the user and month it has read.
LEMMA ReadingInv ==
    ASSUME IInv, NEW k \in Audits,
           ReadIncomes(k) \/ ReadExpenses(k) \/ AskModel(k)
    PROVE  IInv' /\ UNCHANGED <<auditRun, told, asked>>
<1> DEFINE a == audit[k]
<1>1. AuditOK(a)
    BY DEF IInv, AuditsOK
<1>2. ~a.owes
    BY <1>1 DEF AuditOK, ReadIncomes, ReadExpenses, AskModel
<1>3. CASE ReadIncomes(k)
    <2> DEFINE c == [a EXCEPT !.pc = "expenses",
                      !.income = TotalOf(income, RowsOf(income, a.user, a.month))]
    <2>1. Local(k, c) /\ a.pc = "incomes"
        BY <1>3 DEF ReadIncomes
    <2>2. /\ Shaped(c) /\ c.left = a.left /\ c.owes = a.owes
          /\ c.pc = "expenses" /\ c.user = a.user /\ c.month = a.month
          /\ c.offered = a.offered /\ c.questions = a.questions
        BY <1>1 DEF AuditOK, Shaped
    <2>3. AuditOK(c) /\ ~c.owes
        <3> HIDE DEF c
        <3> QED
            BY <1>1, <1>2, <2>1, <2>2 DEF AuditOK, Active, Item
    <2> QED
        BY <1>1, <1>2, <2>1, <2>3, QuietStep DEF Local, AuditOK
<1>4. CASE ReadExpenses(k)
    <2> DEFINE S == RowsOf(expense, a.user, a.month)
               c(C) == [a EXCEPT !.pc = "ask", !.income = 0, !.offered = C,
                                 !.figures = Figures(a.income, expense, S)]
    <2>1. a.pc = "expenses"
        BY <1>4 DEF ReadExpenses
    <2>2. ASSUME NEW C \in SUBSET S, Local(k, c(C))
          PROVE  IInv' /\ UNCHANGED <<auditRun, told, asked>>
        <3>1. \A e \in C : /\ e \in Entries
                           /\ expense[e].owner = a.user /\ expense[e].month = a.month
            BY DEF RowsOf, IInv, TablesOK
        <3>2. /\ Shaped(c(C)) /\ c(C).left = a.left /\ c(C).owes = a.owes
              /\ c(C).pc = "ask" /\ c(C).user = a.user /\ c(C).month = a.month
              /\ c(C).offered = C /\ c(C).questions = a.questions
            BY <1>1 DEF AuditOK, Shaped
        <3>3. AuditOK(c(C)) /\ ~c(C).owes
            BY <1>1, <1>2, <2>1, <3>1, <3>2 DEF AuditOK, Active, Item
        <3> QED
            BY <1>1, <1>2, <2>2, <3>3, QuietStep DEF Local, AuditOK
    <2>3. CASE Local(k, Onward(a, "next"))
        BY <1>1, <1>2, <2>3, OnwardIsOK, QuietStep DEF Local, AuditOK
    <2> QED
        BY <1>4, <2>2, <2>3 DEF ReadExpenses
<1>5. CASE AskModel(k)
    <2> DEFINE c(R) == [a EXCEPT !.pc = "insert", !.offered = {},
                                 !.questions = Guard(R, a.offered)]
    <2>1. PICK R \in Replies : Local(k, c(R)) /\ a.pc = "ask"
        BY <1>5 DEF AskModel
    <2>2. /\ Shaped(c(R)) /\ c(R).left = a.left /\ c(R).owes = a.owes
          /\ c(R).pc = "insert" /\ c(R).user = a.user /\ c(R).month = a.month
          /\ c(R).offered = {} /\ c(R).questions \subseteq a.offered
        BY <1>1 DEF AuditOK, Shaped, Guard
    <2>3. AuditOK(c(R)) /\ ~c(R).owes
        BY <1>1, <1>2, <2>1, <2>2 DEF AuditOK, Active, Item
    <2> QED
        BY <1>1, <1>2, <2>1, <2>3, QuietStep DEF Local, AuditOK
<1> QED
    BY <1>3, <1>4, <1>5

(***************************************************************************)
(* The four steps that write what the properties are about.                *)
(***************************************************************************)
LEMMA InsertInv ==
    ASSUME IInv, NEW k \in Audits, Insert(k)
    PROVE  IInv' /\ \E i \in Items : Promise!Claim(i)
<1> DEFINE a == audit[k]
           d == [a EXCEPT !.pc = "report", !.owes = TRUE]
           i == Item(a)
<1>1. /\ AuditOK(a) /\ a.pc = "insert" /\ i \notin Audited
      /\ a.user \in Users /\ a.month \in Months
    BY DEF Insert, IInv, AuditsOK, AuditOK, Active
<1>2. i \in Items
    BY <1>1, ItemIsItem
<1>3. /\ auditRun' = WithRun(i, a.figures)
      /\ audit' = [audit EXCEPT ![k] = d]
      /\ UNCHANGED <<month, expense, income, told, shown, asked>>
    BY DEF Insert
<1>4. /\ Audited' = Audited \cup {i} /\ auditRun'[i] = a.figures
      /\ \A x \in Audited : auditRun'[x] = auditRun[x]
    BY <1>1, <1>3 DEF WithRun, Audited
<1>5. told[i] = 0
    BY <1>1, <1>2 DEF IInv, TellOK
<1>6. /\ Shaped(d) /\ d.left = a.left /\ d.owes = TRUE
      /\ d.pc = "report" /\ d.user = a.user /\ d.month = a.month
      /\ d.figures = a.figures
      /\ d.offered = a.offered /\ d.questions = a.questions
    BY <1>1 DEF AuditOK, Shaped
<1> HIDE DEF d
<1>7. /\ audit' = [j \in Audits |-> audit'[j]] /\ audit'[k] = d
      /\ \A j \in Audits : j # k => audit'[j] = audit[j]
    BY <1>3 DEF IInv, AuditsOK
<1>8. Item(d) = i
    BY <1>6 DEF Item
<1>9. ASSUME NEW j \in Audits PROVE AuditOK(audit[j])'
    <2>1. CASE j = k
        <3> DEFINE b == audit'[k]
        <3>1. /\ Shaped(b) /\ b.left = a.left /\ b.owes = d.owes
              /\ b.pc = d.pc /\ b.user = a.user /\ b.month = a.month
              /\ b.figures = d.figures
              /\ b.offered = a.offered /\ b.questions = a.questions
            BY <1>6, <1>7
        <3>2. Item(b) = i /\ Item(b) \in Audited' /\ told'[Item(b)] = 0
              /\ auditRun'[Item(b)] = b.figures
            BY <3>1, <1>3, <1>4, <1>5, <1>6 DEF Item
        <3>3. /\ b.left \subseteq Users /\ b.user \in Users /\ b.month \in Months
              /\ \A e \in b.offered \cup b.questions :
                    /\ e \in Entries
                    /\ expense'[e].owner = b.user /\ expense'[e].month = b.month
            BY <3>1, <1>1, <1>3 DEF AuditOK
        <3>4. audit'[j] = b
            BY <2>1
        <3> HIDE DEF b
        <3> QED
            BY <3>1, <3>2, <3>3, <3>4, <1>6 DEF AuditOK, Active, Item, Shaped
    <2>2. CASE j # k
        <3>1. AuditOK(audit[j]) /\ audit'[j] = audit[j]
            BY <2>2, <1>7 DEF IInv, AuditsOK
        <3> QED
            BY <3>1, <1>3, <1>4 DEF AuditOK, Shaped, Item
    <2> QED
        BY <2>1, <2>2
<1>10. Apart'
    <2>1. \A j \in Audits : j # k /\ audit[j].owes => Item(audit[j]) # i
        BY <1>1 DEF IInv, AuditsOK, AuditOK
    <2> QED
        BY <2>1, <1>7, <1>8 DEF IInv, Apart, Item
<1>11. TellOK' /\ AskedOK' /\ TablesOK' /\ AuditsOK'
    BY <1>2, <1>3, <1>4, <1>7, <1>9 DEF IInv, TellOK, AskedOK, TablesOK, AuditsOK
<1>12. OneSetOfFigures'
    BY <1>3, <1>4 DEF IInv, OneSetOfFigures
<1>13. ReportAccounted'
    <2> SUFFICES ASSUME NEW x \in Audited', told'[x] = 0
                 PROVE  \E j \in Audits : audit'[j].owes /\ Item(audit'[j]) = x
        BY DEF ReportAccounted, Item
    <2>1. CASE x = i
        BY <2>1, <1>6, <1>7, <1>8
    <2>2. CASE x \in Audited
        <3>1. PICK j \in Audits : audit[j].owes /\ Item(audit[j]) = x
            BY <2>2, <1>3 DEF IInv, ReportAccounted
        <3>2. j # k
            BY <3>1, <2>2, <1>1
        <3> QED
            BY <3>1, <3>2, <1>7
    <2> QED
        BY <2>1, <2>2, <1>4
<1>14. Promise!Claim(i)
    BY <1>1, <1>3, <1>4 DEF Promise!Claim
<1> QED
    BY <1>2, <1>10, <1>11, <1>12, <1>13, <1>14 DEF IInv

\* Sending the report keeps it, and tells one announcement.
LEMMA SendReportInv ==
    ASSUME IInv, NEW k \in Audits, SendReport(k)
    PROVE  IInv' /\ \E i \in Items : Promise!Tell(i)
<1> DEFINE a == audit[k]
           d == [a EXCEPT !.pc = "questions", !.owes = FALSE]
           i == Item(a)
<1>1. /\ AuditOK(a) /\ a.pc = "report" /\ a.owes
      /\ a.user \in Users /\ a.month \in Months
    BY DEF SendReport, IInv, AuditsOK, AuditOK, Active
<1>2. i \in Items /\ i \in Audited /\ told[i] = 0 /\ auditRun[i] = a.figures
    BY <1>1, ItemIsItem DEF AuditOK
<1>3. /\ told' = [told EXCEPT ![i] = told[i] + 1]
      /\ shown' = [shown EXCEPT ![i] = shown[i] \cup {a.figures}]
      /\ audit' = [audit EXCEPT ![k] = d]
      /\ UNCHANGED <<month, expense, income, auditRun, asked>>
    BY DEF SendReport
<1>4. /\ told' = [told EXCEPT ![i] = 1] /\ told'[i] = 1
      /\ \A x \in Items : x # i => told'[x] = told[x]
    BY <1>2, <1>3 DEF IInv, TellOK
<1>5. /\ shown' = [x \in Items |-> shown'[x]]
      /\ shown'[i] = shown[i] \cup {a.figures}
      /\ \A x \in Items : x # i => shown'[x] = shown[x]
    BY <1>2, <1>3 DEF IInv, TellOK
<1>6. /\ Shaped(d) /\ d.left = a.left /\ d.owes = FALSE
      /\ d.pc = "questions" /\ d.user = a.user /\ d.month = a.month
      /\ d.offered = a.offered /\ d.questions = a.questions
    BY <1>1 DEF AuditOK, Shaped
<1> HIDE DEF d
<1>7. /\ audit' = [j \in Audits |-> audit'[j]] /\ audit'[k] = d
      /\ \A j \in Audits : j # k => audit'[j] = audit[j]
    BY <1>3 DEF IInv, AuditsOK
<1>8. Item(d) = i /\ Audited' = Audited
    BY <1>3, <1>6 DEF Item, Audited
<1>9. ASSUME NEW j \in Audits PROVE AuditOK(audit[j])'
    <2>1. CASE j = k
        <3> DEFINE b == audit'[k]
        <3>1. /\ Shaped(b) /\ b.left = a.left /\ b.owes = d.owes
              /\ b.pc = d.pc /\ b.user = a.user /\ b.month = a.month
              /\ b.figures = d.figures
              /\ b.offered = a.offered /\ b.questions = a.questions
            BY <1>6, <1>7
        <3>2. Item(b) = i /\ told'[Item(b)] = 1
            BY <3>1, <1>4 DEF Item
        <3>3. /\ b.left \subseteq Users /\ b.user \in Users /\ b.month \in Months
              /\ \A e \in b.offered \cup b.questions :
                    /\ e \in Entries
                    /\ expense'[e].owner = b.user /\ expense'[e].month = b.month
            BY <3>1, <1>1, <1>3 DEF AuditOK
        <3>4. audit'[j] = b
            BY <2>1
        <3> HIDE DEF b
        <3> QED
            BY <3>1, <3>2, <3>3, <3>4, <1>6 DEF AuditOK, Active, Item, Shaped
    <2>2. CASE j # k
        <3> DEFINE b == audit[j]
        <3>1. AuditOK(b) /\ audit'[j] = b
            BY <2>2, <1>7 DEF IInv, AuditsOK
        <3>2. b.owes => Item(b) \in Items /\ told'[Item(b)] = 0
            <4>1. b.owes => Item(b) # i /\ Item(b) \in Items /\ told[Item(b)] = 0
                BY <2>2, <1>1, <3>1, ItemIsItem DEF IInv, Apart, AuditOK
            <4> QED
                BY <4>1, <1>4
        <3>3. b.pc = "questions" => told'[Item(b)] = 1
            <4>1. b.pc = "questions" => Item(b) \in Items /\ told[Item(b)] = 1
                BY <3>1, ItemIsItem DEF AuditOK, Active
            <4> QED
                BY <4>1, <1>4
        <3> QED
            BY <3>1, <3>2, <3>3, <1>3, <1>8 DEF AuditOK, Shaped, Item
    <2> QED
        BY <2>1, <2>2
<1>10. Apart'
    BY <1>6, <1>7 DEF IInv, Apart, Item
<1>11. TablesOK' /\ AuditsOK'
    BY <1>3, <1>7, <1>9 DEF IInv, TablesOK, AuditsOK
<1>12. TellOK'
    BY <1>2, <1>4, <1>5, <1>8 DEF IInv, TellOK
<1>13. AskedOK'
    <2> SUFFICES ASSUME NEW q \in asked
                 PROVE  told'[<<q[1], expense[q[2]].month>>] = 1
        BY <1>3 DEF IInv, AskedOK
    <2>1. <<q[1], expense[q[2]].month>> \in Items
        BY DEF IInv, AskedOK, Items
    <2> QED
        BY <2>1, <1>4 DEF IInv, AskedOK
<1>14. OneSetOfFigures'
    BY <1>2, <1>3, <1>5, <1>8 DEF IInv, OneSetOfFigures
<1>15. ReportAccounted'
    <2> SUFFICES ASSUME NEW x \in Audited, told'[x] = 0
                 PROVE  \E j \in Audits : audit'[j].owes /\ Item(audit'[j]) = x
        BY <1>8 DEF ReportAccounted, Item
    <2>1. x # i /\ told[x] = 0
        BY <1>4 DEF IInv, TellOK
    <2>2. PICK j \in Audits : audit[j].owes /\ Item(audit[j]) = x
        BY <2>1 DEF IInv, ReportAccounted
    <2> QED
        BY <2>1, <2>2, <1>7
<1>16. Promise!Tell(i)
    BY <1>2, <1>4, <1>8 DEF Promise!Tell
<1> QED
    BY <1>2, <1>10, <1>11, <1>12, <1>13, <1>14, <1>15, <1>16 DEF IInv

\* Another local state, with the tables and what it owes as they were.
LEMMA SayInv ==
    ASSUME IInv, NEW k \in Audits, NEW d, AuditOK(d), ~audit[k].owes, ~d.owes,
           audit' = [audit EXCEPT ![k] = d],
           UNCHANGED <<month, expense, auditRun, told>>
    PROVE  AuditsOK' /\ Apart' /\ ReportAccounted' /\ TablesOK'
<1>1. /\ audit' = [j \in Audits |-> audit'[j]] /\ audit'[k] = d
      /\ \A j \in Audits : j # k => audit'[j] = audit[j]
    BY DEF IInv, AuditsOK
<1>2. ASSUME NEW j \in Audits PROVE AuditOK(audit[j])'
    <2>1. AuditOK(audit'[j])
        BY <1>1 DEF IInv, AuditsOK
    <2> QED
        BY <2>1 DEF AuditOK, Shaped, Item, Audited
<1>3. Apart'
    BY <1>1 DEF IInv, Apart, Item
<1>4. ReportAccounted'
    <2> SUFFICES ASSUME NEW x \in Audited, told[x] = 0
                 PROVE  \E j \in Audits : audit'[j].owes /\ Item(audit'[j]) = x
        BY DEF ReportAccounted, Audited, Item
    <2>1. PICK j \in Audits : audit[j].owes /\ Item(audit[j]) = x
        BY DEF IInv, ReportAccounted
    <2> QED
        BY <2>1, <1>1
<1> QED
    BY <1>1, <1>2, <1>3, <1>4 DEF IInv, AuditsOK, TablesOK

\* Sending a question keeps it and announces nothing.
LEMMA SendQuestionInv ==
    ASSUME IInv, NEW k \in Audits, NEW e \in Entries, SendQuestion(k, e)
    PROVE  IInv' /\ UNCHANGED <<auditRun, told>>
<1> DEFINE a == audit[k]
           d == [a EXCEPT !.questions = a.questions \ {e}]
<1>1. /\ AuditOK(a) /\ a.pc = "questions" /\ e \in a.questions
      /\ a.user \in Users /\ a.month \in Months /\ ~a.owes
    BY DEF SendQuestion, IInv, AuditsOK, AuditOK, Active
<1>2. /\ expense[e].owner = a.user /\ expense[e].month = a.month
      /\ told[<<a.user, a.month>>] = 1
    BY <1>1 DEF AuditOK, Item
<1>3. /\ asked' = asked \cup {<<a.user, e>>}
      /\ audit' = [audit EXCEPT ![k] = d]
      /\ UNCHANGED <<month, expense, income, auditRun, told, shown>>
    BY DEF SendQuestion
<1>4. AuditOK(d) /\ ~d.owes
    <2>1. /\ Shaped(d) /\ d.left = a.left /\ d.owes = a.owes
          /\ d.pc = "questions" /\ d.user = a.user /\ d.month = a.month
          /\ d.offered = a.offered /\ d.questions \subseteq a.questions
        BY <1>1 DEF AuditOK, Shaped
    <2> HIDE DEF d
    <2> QED
        BY <1>1, <2>1 DEF AuditOK, Active, Item
<1> HIDE DEF d
<1>5. AuditsOK' /\ Apart' /\ ReportAccounted' /\ TablesOK'
    BY <1>1, <1>3, <1>4, SayInv
<1>6. AskedOK'
    BY <1>1, <1>2, <1>3 DEF IInv, AskedOK
<1>7. TellOK' /\ OneSetOfFigures'
    BY <1>3 DEF IInv, TellOK, OneSetOfFigures, Audited
<1> QED
    BY <1>3, <1>5, <1>6, <1>7 DEF IInv

\* Sending the recap keeps it and announces nothing.
LEMMA SendRecapInv ==
    ASSUME IInv, NEW k \in Audits, SendRecap(k)
    PROVE  IInv' /\ UNCHANGED <<auditRun, told>>
<1> DEFINE a == audit[k]
           d == Onward(a, "next")
           i == Item(a)
<1>1. /\ AuditOK(a) /\ a.pc = "recap" /\ ~a.owes
      /\ i \in Audited /\ auditRun[i] = a.figures
    BY DEF SendRecap, IInv, AuditsOK, AuditOK
<1>2. /\ shown' = [shown EXCEPT ![i] = shown[i] \cup {a.figures}]
      /\ audit' = [audit EXCEPT ![k] = d]
      /\ UNCHANGED <<month, expense, income, auditRun, told, asked>>
    BY DEF SendRecap
<1>3. AuditOK(d) /\ ~d.owes
    BY <1>1, OnwardIsOK
<1> HIDE DEF d
<1>4. AuditsOK' /\ Apart' /\ ReportAccounted' /\ TablesOK'
    BY <1>1, <1>2, <1>3, SayInv
<1>5. AskedOK' /\ TellOK'
    BY <1>2 DEF IInv, AskedOK, TellOK, Audited
<1>6. OneSetOfFigures'
    BY <1>1, <1>2 DEF IInv, OneSetOfFigures, TellOK, Audited
<1> QED
    BY <1>2, <1>4, <1>5, <1>6 DEF IInv

(***************************************************************************)
(* Every step keeps the invariant and maps to a step of Announcement or to *)
(* none.                                                                   *)
(***************************************************************************)
LEMMA NextInv ==
    ASSUME IInv, [Next]_vars
    PROVE  IInv' /\ [Promise!Next]_<<Audited, told>>
<1>0. UNCHANGED <<auditRun, told>> => UNCHANGED <<Audited, told>>
    BY DEF Audited
<1>1. CASE UNCHANGED vars
    <2>1. TablesOK' /\ RowsKept /\ UNCHANGED <<auditRun, told, shown, asked, audit>>
        BY <1>1 DEF vars, IInv, TablesOK, RowsKept
    <2> QED
        BY <2>1, <1>0, WorldStep
<1>2. ASSUME NEW k \in Audits,
             \/ StartCron(k)
             \/ \E u \in Users : StartCommand(k, u)
             \/ AuditStep(k) \/ AuditDies(k)
      PROVE  IInv' /\ [Promise!Next]_<<Audited, told>>
    <2>1. CASE Insert(k)
        BY <2>1, InsertInv DEF Promise!Next
    <2>2. CASE SendReport(k)
        BY <2>2, SendReportInv DEF Promise!Next
    <2>3. CASE SendRecap(k) \/ \E e \in Entries : SendQuestion(k, e)
        BY <2>3, <1>0, SendRecapInv, SendQuestionInv
    <2>4. CASE ReadIncomes(k) \/ ReadExpenses(k) \/ AskModel(k)
        BY <2>4, <1>0, ReadingInv
    <2>5. CASE \/ StartCron(k) \/ \E u \in Users : StartCommand(k, u)
               \/ \E u \in Users : FindRun(k, u)
               \/ FinishUser(k) \/ FinishAudit(k) \/ InsertFails(k) \/ AuditDies(k)
        BY <2>5, <1>0, NextUserInv
    <2> QED
        BY <1>2, <2>1, <2>2, <2>3, <2>4, <2>5 DEF AuditStep
<1>3. CASE Next
    BY <1>0, <1>2, <1>3, WorldInv DEF Next
<1> QED
    BY <1>1, <1>3

\* A stored report that was not sent is owed by an audit, if only a dead one:
\* run_monthly_audit loses a report in no other way.
THEOREM ReportsAccounted == Spec => []ReportAccounted
<1>1. IInv /\ [Next]_vars => IInv'
    BY NextInv
<1>2. IInv => ReportAccounted
    BY DEF IInv
<1> QED
    BY InitInv, <1>1, <1>2, PTL DEF Spec

\* The audits implement Announcement: the unique row of audit_runs is the
\* claim, and each month is reported at most once, by whichever audit.
THEOREM ReportAtMostOnce == Spec => ReportedOnce
<1>1. Init => Promise!Init
    BY DEF Init, Promise!Init, Audited
<1>2. IInv /\ [Next]_vars => IInv' /\ [Promise!Next]_<<Audited, told>>
    BY NextInv
<1> QED
    BY InitInv, <1>1, <1>2, PTL DEF Spec, ReportedOnce, Promise!Spec

\* Report and recaps of a month always show the figures that are stored.
THEOREM OneSetShown == Spec => []OneSetOfFigures
<1>1. IInv /\ [Next]_vars => IInv'
    BY NextInv
<1>2. IInv => OneSetOfFigures
    BY DEF IInv
<1> QED
    BY InitInv, <1>1, <1>2, PTL DEF Spec

\* Whatever the model flags, a user is asked about his own expenses, of a
\* month that was reported to him.
THEOREM QuestionsAreOwn == Spec => []AskedIsOwn
<1>1. IInv /\ [Next]_vars => IInv'
    BY NextInv
<1>2. IInv => AskedIsOwn
    BY DEF IInv, AskedOK, AskedIsOwn
<1> QED
    BY InitInv, <1>1, <1>2, PTL DEF Spec

-----------------------------------------------------------------------------
(***************************************************************************)
(* The figures.                                                            *)
(***************************************************************************)
LEMMA HalfEvenNearest ==
    ASSUME NEW n \in Int, NEW d \in Nat \ {0}
    PROVE  /\ HalfEven(n, d) \in Int
           /\ 2 * (n - HalfEven(n, d) * d) <= d
           /\ 2 * (HalfEven(n, d) * d - n) <= d
<1> DEFINE q == n \div d
           r == n % d
<1>1. q \in Int /\ r \in 0 .. d - 1 /\ n = d * q + r
    OBVIOUS
<1> HIDE DEF q, r
<1>2. HalfEven(n, d) = IF 2 * r > d \/ (2 * r = d /\ q % 2 = 1) THEN q + 1 ELSE q
    BY DEF HalfEven, q, r
<1>3. d * (q + 1) = d * q + d /\ (q + 1) * d = d * q + d /\ q * d = d * q
      /\ d * q \in Int
    BY <1>1
<1>4. CASE HalfEven(n, d) = q /\ 2 * r <= d
    BY <1>1, <1>3, <1>4
<1>5. CASE HalfEven(n, d) = q + 1 /\ 2 * r >= d
    BY <1>1, <1>3, <1>5
<1> QED
    BY <1>1, <1>2, <1>4, <1>5

\* The total of rows is an integer.
LEMMA TotalInt ==
    ASSUME NEW table, NEW S, IsFiniteSet(S), S \subseteq DOMAIN table,
           \A e \in S : table[e].amount \in Int
    PROVE  TotalOf(table, S) \in Int
BY SumInt DEF TotalOf

\* The figures of a month are of their type, the rate from them.
LEMMA FiguresAre ==
    ASSUME NEW t \in Int, NEW table, NEW S, IsFiniteSet(S), S \subseteq DOMAIN table,
           \A e \in S : table[e].amount \in Nat
    PROVE  LET f == Figures(t, table, S)
           IN  /\ f \in FigureType
               /\ f.income = t /\ f.saved \in Int
               /\ f.rate = SavingsRate(f.income, f.saved)
<1> DEFINE U == Spending(table, S)
           spend == TotalOf(table, U)
<1>1. /\ IsFiniteSet(U) /\ U \subseteq DOMAIN table
      /\ \A e \in U : table[e].amount \in Int
    BY FS_Subset DEF Spending
<1> HIDE DEF U
<1>2. spend \in Int
    BY <1>1, TotalInt
<1> HIDE DEF spend
<1>3. SavingsRate(t, t - spend) \in SUBSET Int
    <2>1. CASE t > 0
        <3> DEFINE n == 10000 * (t - spend)
        <3>1. n \in Int /\ t \in Nat \ {0}
            BY <1>2, <2>1
        <3> HIDE DEF n
        <3>2. HalfEven(n, t) \in Int
            BY <3>1, HalfEvenNearest
        <3> QED
            BY <2>1, <3>2 DEF SavingsRate, n
    <2>2. CASE ~(t > 0)
        BY <2>2 DEF SavingsRate
    <2> QED
        BY <2>1, <2>2
<1>4. Figures(t, table, S) = [income |-> t, spend |-> spend, saved |-> t - spend,
                              rate |-> SavingsRate(t, t - spend)]
    BY DEF Figures, U, spend
<1> QED
    BY <1>2, <1>3, <1>4 DEF FigureType

\* What the columns hold.
Typing ==
    /\ income \in [Credits -> Deposits \cup {NoCredit}]
    /\ \A i \in Audited : auditRun[i] \in FigureType
    /\ shown \in [Items -> SUBSET FigureType]
    /\ audit \in [Audits -> AuditType]

\* The rows of a user's month are finitely many, with amounts.
LEMMA RowsAre ==
    ASSUME IInv, Typing, NEW u \in Users, NEW m
    PROVE  /\ IsFiniteSet(RowsOf(income, u, m))
           /\ RowsOf(income, u, m) \subseteq DOMAIN income
           /\ \A i \in RowsOf(income, u, m) : income[i].amount \in Nat
           /\ IsFiniteSet(RowsOf(expense, u, m))
           /\ RowsOf(expense, u, m) \subseteq DOMAIN expense
           /\ DOMAIN expense = Entries
           /\ \A e \in RowsOf(expense, u, m) : expense[e].amount \in Nat
           /\ TotalOf(income, RowsOf(income, u, m)) \in Int
<1> DEFINE S == RowsOf(expense, u, m)
           R == RowsOf(income, u, m)
<1>1. DOMAIN income = Credits /\ DOMAIN expense = Entries
    BY DEF IInv, TablesOK, Typing
<1>2. /\ IsFiniteSet(R) /\ R \subseteq DOMAIN income
      /\ IsFiniteSet(S) /\ S \subseteq DOMAIN expense
    BY <1>1, AuditAssumption, FS_Subset DEF RowsOf
<1>3. \A i \in R : income[i].amount \in Nat
    <2> TAKE i \in R
    <2>1. income[i].owner = u /\ i \in Credits
        BY <1>1 DEF RowsOf
    <2>2. income[i] # NoCredit
        BY <2>1, AuditAssumption DEF NoCredit
    <2> QED
        BY <2>1, <2>2, AuditAssumption DEF Typing
<1>4. \A e \in S : expense[e].amount \in Nat
    <2> TAKE e \in S
    <2>1. expense[e].owner = u /\ e \in Entries
        BY <1>1 DEF RowsOf
    <2>2. expense[e] # NoEntry
        BY <2>1, AuditAssumption DEF NoEntry
    <2> QED
        BY <2>1, <2>2 DEF IInv, TablesOK
<1> HIDE DEF R, S
<1>5. TotalOf(income, R) \in Int
    BY <1>2, <1>3, TotalInt
<1> QED
    BY <1>1, <1>2, <1>3, <1>4, <1>5 DEF R, S

\* The invariant gives the rate rounded to the nearest.
LEMMA RateNearest == IInv /\ Typing => RateIsNearest
<1> SUFFICES ASSUME IInv, Typing, NEW u \in Users, NEW m \in Months,
                    NEW r \in Figures(TotalOf(income, RowsOf(income, u, m)),
                                      expense, RowsOf(expense, u, m)).rate
             PROVE  LET f == Figures(TotalOf(income, RowsOf(income, u, m)),
                                     expense, RowsOf(expense, u, m))
                    IN  /\ 2 * (10000 * f.saved - r * f.income) <= f.income
                        /\ 2 * (r * f.income - 10000 * f.saved) <= f.income
    BY DEF RateIsNearest
<1> DEFINE t == TotalOf(income, RowsOf(income, u, m))
           S == RowsOf(expense, u, m)
           f == Figures(t, expense, S)
           n == 10000 * f.saved
<1>1. /\ t \in Int /\ IsFiniteSet(S) /\ S \subseteq DOMAIN expense
      /\ \A e \in S : expense[e].amount \in Nat
    BY RowsAre
<1> HIDE DEF t, S
<1>2. f.income = t /\ f.saved \in Int /\ f.rate = SavingsRate(t, f.saved)
    BY <1>1, FiguresAre
<1>3. t > 0 /\ r = HalfEven(n, t)
    BY <1>2 DEF SavingsRate, t, S
<1>4. n \in Int /\ t \in Nat \ {0}
    BY <1>1, <1>2, <1>3
<1> HIDE DEF n
<1>5. 2 * (n - r * t) <= t /\ 2 * (r * t - n) <= t
    BY <1>3, <1>4, HalfEvenNearest
<1> QED
    BY <1>2, <1>5 DEF n, t, S

-----------------------------------------------------------------------------
(***************************************************************************)
(* Types.                                                                  *)
(***************************************************************************)
LEMMA IdleType ==
    /\ NoFigures \in FigureType /\ IdleAudit \in AuditType
    /\ IdleAudit = [pc |-> "idle", cron |-> FALSE, left |-> {}, user |-> NoUser,
                    month |-> 0, income |-> 0, figures |-> NoFigures,
                    offered |-> {}, questions |-> {}, owes |-> FALSE]
<1>1. NoFigures \in FigureType
    BY DEF NoFigures, FigureType
<1> HIDE DEF NoFigures
<1> QED
    BY <1>1 DEF IdleAudit, AuditType

\* An audit that goes on keeps its type.
LEMMA OnwardType ==
    ASSUME NEW a \in AuditType, NEW pc \in {"next", "done", "incomes"}
    PROVE  Onward(a, pc) \in AuditType
<1>1. a.cron \in BOOLEAN /\ a.left \in SUBSET Users
    BY DEF AuditType
<1>2. IdleAudit \in AuditType
    BY IdleType
<1>3. [IdleAudit EXCEPT !.pc = pc, !.cron = a.cron, !.left = a.left] \in AuditType
    BY <1>1, <1>2 DEF AuditType
<1> QED
    BY <1>3 DEF Onward

\* An audit that turns to the model keeps its type.
LEMMA AskType ==
    ASSUME NEW a \in AuditType, NEW C \in SUBSET Entries, NEW f \in FigureType
    PROVE  [a EXCEPT !.pc = "ask", !.income = 0, !.offered = C, !.figures = f]
              \in AuditType
<1> DEFINE zero == 0
<1>1. zero \in Int
    OBVIOUS
<1> HIDE DEF zero
<1>2. [a EXCEPT !.pc = "ask", !.income = zero, !.offered = C, !.figures = f]
         \in AuditType
    BY <1>1 DEF AuditType
<1> QED
    BY <1>2 DEF zero

\* An audit that dies keeps its type.
LEMMA DeadType ==
    ASSUME NEW a \in AuditType
    PROVE  Dead(a) \in AuditType
BY IdleType DEF Dead, AuditType

\* Everything is of its type at the start.
LEMMA InitTyping == Init => Typing
BY IdleType DEF Init, Typing, Audited

\* A step of one audit that writes no table keeps the types.
LEMMA LocalTyping ==
    ASSUME Typing, NEW k \in Audits, NEW c \in AuditType, Local(k, c)
    PROVE  Typing'
BY DEF Local, Typing, Audited

\* The calendar and the other handlers keep the types.
LEMMA WorldTyping ==
    ASSUME Typing,
           \/ NextMonth
           \/ \E e \in Entries : AddExpense(e)
           \/ \E i \in Credits : RecordIncome(i)
           \/ \E q \in asked, c \in Categories : Recategorize(q, c)
    PROVE  Typing'
<1>1. UNCHANGED <<auditRun, shown, audit>>
    BY DEF NextMonth, AddExpense, RecordIncome, Recategorize
<1>2. income' \in [Credits -> Deposits \cup {NoCredit}]
    BY DEF Typing, NextMonth, AddExpense, RecordIncome, Recategorize
<1> QED
    BY <1>1, <1>2 DEF Typing, Audited

\* Going from user to user keeps the types.
LEMMA NextUserTyping ==
    ASSUME IInv, Typing, NEW k \in Audits,
           \/ StartCron(k) \/ \E u \in Users : StartCommand(k, u)
           \/ \E u \in Users : FindRun(k, u)
           \/ FinishUser(k) \/ FinishAudit(k) \/ InsertFails(k) \/ AuditDies(k)
    PROVE  Typing'
<1> DEFINE a == audit[k]
<1>1. a \in AuditType
    BY DEF Typing
<1>2. CASE StartCron(k)
    <2> DEFINE c == [IdleAudit EXCEPT !.pc = "next", !.cron = TRUE, !.left = Users]
    <2>1. c \in AuditType
        BY IdleType DEF AuditType
    <2> QED
        BY <1>2, <2>1, LocalTyping DEF StartCron
<1>3. ASSUME NEW u \in Users, StartCommand(k, u)
      PROVE  Typing'
    <2> DEFINE c == [IdleAudit EXCEPT !.pc = "next", !.left = {u}]
    <2>1. c \in AuditType
        BY IdleType DEF AuditType
    <2> QED
        BY <1>3, <2>1, LocalTyping DEF StartCommand
<1>4. ASSUME NEW u \in Users, FindRun(k, u)
      PROVE  Typing'
    <2> DEFINE here == [Onward(a, "incomes") EXCEPT !.left = a.left \ {u},
                                             !.user = u, !.month = month - 1]
               back == [here EXCEPT !.pc = "recap", !.figures = Recap(u, month - 1)]
    <2>1. here \in AuditType
        <3>1. Onward(a, "incomes") \in AuditType /\ month - 1 \in Nat
            BY <1>1, OnwardType DEF IInv, TablesOK
        <3>2. a.left \ {u} \in SUBSET Users
            BY <1>1 DEF AuditType
        <3> QED
            BY <3>1, <3>2 DEF AuditType
    <2>2. CASE Local(k, here)
        BY <2>1, <2>2, LocalTyping
    <2>3. CASE Local(k, Onward(here, "next"))
        <3> HIDE DEF here
        <3>1. Onward(here, "next") \in AuditType
            BY <2>1, OnwardType
        <3> QED
            BY <2>3, <3>1, LocalTyping
    <2>4. CASE Item(here) \in Audited /\ Local(k, back)
        <3>1. Item(here) = <<u, month - 1>>
            BY DEF Item, Onward, IdleAudit
        <3>2. Recap(u, month - 1) \in FigureType
            BY <2>4, <3>1 DEF Recap, Typing
        <3> HIDE DEF here
        <3>3. back \in AuditType
            BY <2>1, <3>2 DEF AuditType
        <3> HIDE DEF back
        <3> QED
            BY <2>4, <3>3, LocalTyping
    <2> QED
        BY <1>4, <2>2, <2>3, <2>4 DEF FindRun
<1>5. CASE FinishUser(k) \/ FinishAudit(k)
    <2>1. Local(k, Onward(a, "next")) \/ Local(k, Onward(a, "done"))
        BY <1>5 DEF FinishUser, FinishAudit
    <2>2. Onward(a, "next") \in AuditType /\ Onward(a, "done") \in AuditType
        BY <1>1, OnwardType
    <2> QED
        BY <2>1, <2>2, LocalTyping
<1>6. CASE InsertFails(k) \/ AuditDies(k)
    <2>1. Local(k, Dead(a)) /\ Dead(a) \in AuditType
        BY <1>1, <1>6, DeadType DEF InsertFails, AuditDies
    <2> QED
        BY <2>1, LocalTyping
<1> QED
    BY <1>2, <1>3, <1>4, <1>5, <1>6

\* Reading a month and asking the model keep the types.
LEMMA ReadingTyping ==
    ASSUME IInv, Typing, NEW k \in Audits,
           ReadIncomes(k) \/ ReadExpenses(k) \/ AskModel(k)
    PROVE  Typing'
<1> DEFINE a == audit[k]
<1>1. a \in AuditType /\ AuditOK(a)
    BY DEF Typing, IInv, AuditsOK
<1>2. a.user \in Users
    BY <1>1 DEF AuditOK, Active, ReadIncomes, ReadExpenses, AskModel
<1>3. CASE ReadIncomes(k)
    <2> DEFINE t == TotalOf(income, RowsOf(income, a.user, a.month))
               c == [a EXCEPT !.pc = "expenses", !.income = t]
    <2>1. t \in Int
        BY <1>2, RowsAre
    <2>2. Local(k, c)
        BY <1>3 DEF ReadIncomes
    <2> HIDE DEF t
    <2>3. c \in AuditType
        BY <1>1, <2>1 DEF AuditType
    <2> QED
        BY <2>2, <2>3, LocalTyping
<1>4. CASE ReadExpenses(k)
    <2> DEFINE S == RowsOf(expense, a.user, a.month)
               f == Figures(a.income, expense, S)
               c(C) == [a EXCEPT !.pc = "ask", !.income = 0, !.offered = C,
                                 !.figures = f]
    <2>1. /\ IsFiniteSet(S) /\ S \subseteq DOMAIN expense /\ S \subseteq Entries
          /\ \A e \in S : expense[e].amount \in Nat
        BY <1>2, RowsAre
    <2>2. (\E C \in SUBSET S : Local(k, c(C))) \/ Local(k, Onward(a, "next"))
        BY <1>4 DEF ReadExpenses
    <2>3. a.income \in Int
        BY <1>1 DEF AuditType
    <2> HIDE DEF S
    <2>4. f \in FigureType
        BY <2>1, <2>3, FiguresAre
    <2> HIDE DEF f
    <2>5. ASSUME NEW C \in SUBSET S, Local(k, c(C)) PROVE Typing'
        <3>1. C \in SUBSET Entries
            BY <2>1
        <3>2. c(C) \in AuditType
            BY <1>1, <2>4, <3>1, AskType
        <3> QED
            BY <2>5, <3>2, LocalTyping
    <2>6. Onward(a, "next") \in AuditType
        BY <1>1, OnwardType
    <2> QED
        BY <2>2, <2>5, <2>6, LocalTyping
<1>5. CASE AskModel(k)
    <2>1. PICK reply \in Replies :
             Local(k, [a EXCEPT !.pc = "insert", !.offered = {},
                                !.questions = Guard(reply, a.offered)])
        BY <1>5 DEF AskModel
    <2> DEFINE c == [a EXCEPT !.pc = "insert", !.offered = {},
                              !.questions = Guard(reply, a.offered)]
    <2>2. Guard(reply, a.offered) \in SUBSET Entries
        BY DEF Guard, Replies
    <2>3. c \in AuditType
        BY <1>1, <2>2 DEF AuditType
    <2> QED
        BY <2>1, <2>3, LocalTyping
<1> QED
    BY <1>3, <1>4, <1>5

\* Storing and sending keep the types.
LEMMA SayingTyping ==
    ASSUME IInv, Typing, NEW k \in Audits,
           \/ Insert(k) \/ SendReport(k) \/ SendRecap(k)
           \/ \E e \in Entries : SendQuestion(k, e)
    PROVE  Typing'
<1> DEFINE a == audit[k]
<1>1. a \in AuditType /\ a.figures \in FigureType
    BY DEF Typing, AuditType
<1>2. UNCHANGED income
    BY DEF Insert, SendReport, SendRecap, SendQuestion
<1>3. audit' \in [Audits -> AuditType]
    <2>1. PICK c : audit' = [audit EXCEPT ![k] = c] /\ c \in AuditType
        <3>1. CASE Insert(k)
            <4> DEFINE c == [a EXCEPT !.pc = "report", !.owes = TRUE]
            <4>1. c \in AuditType /\ audit' = [audit EXCEPT ![k] = c]
                BY <1>1, <3>1 DEF Insert, AuditType
            <4> QED
                BY <4>1
        <3>2. CASE SendReport(k)
            <4> DEFINE c == [a EXCEPT !.pc = "questions", !.owes = FALSE]
            <4>1. c \in AuditType /\ audit' = [audit EXCEPT ![k] = c]
                BY <1>1, <3>2 DEF SendReport, AuditType
            <4> QED
                BY <4>1
        <3>3. CASE SendRecap(k)
            <4>1. Onward(a, "next") \in AuditType
                BY <1>1, OnwardType
            <4>2. audit' = [audit EXCEPT ![k] = Onward(a, "next")]
                BY <3>3 DEF SendRecap
            <4> QED
                BY <4>1, <4>2
        <3>4. ASSUME NEW e \in Entries, SendQuestion(k, e)
              PROVE  \E c : audit' = [audit EXCEPT ![k] = c] /\ c \in AuditType
            <4> DEFINE c == [a EXCEPT !.questions = a.questions \ {e}]
            <4>1. c \in AuditType
                BY <1>1 DEF AuditType
            <4>2. audit' = [audit EXCEPT ![k] = c]
                BY <3>4 DEF SendQuestion
            <4> QED
                BY <4>1, <4>2
        <3> QED
            BY <3>1, <3>2, <3>3, <3>4
    <2> QED
        BY <2>1 DEF Typing
<1>4. \A i \in Audited' : auditRun'[i] \in FigureType
    <2>1. CASE Insert(k)
        <3>1. auditRun' = WithRun(Item(a), a.figures)
            BY <2>1 DEF Insert
        <3> QED
            BY <1>1, <3>1 DEF WithRun, Typing, Audited
    <2>2. CASE UNCHANGED auditRun
        BY <2>2 DEF Typing, Audited
    <2> QED
        BY <2>1, <2>2 DEF SendReport, SendRecap, SendQuestion
<1>5. shown' \in [Items -> SUBSET FigureType]
    <2>1. CASE SendReport(k) \/ SendRecap(k)
        <3>1. shown' = [shown EXCEPT ![Item(a)] = @ \cup {a.figures}]
            BY <2>1 DEF SendReport, SendRecap
        <3> QED
            BY <1>1, <3>1 DEF Typing
    <2>2. CASE UNCHANGED shown
        BY <2>2 DEF Typing
    <2> QED
        BY <2>1, <2>2 DEF Insert, SendQuestion
<1> QED
    BY <1>2, <1>3, <1>4, <1>5 DEF Typing

\* Every step keeps the types.
LEMMA NextTyping ==
    ASSUME IInv, Typing, [Next]_vars
    PROVE  Typing'
<1>1. CASE UNCHANGED vars
    BY <1>1 DEF vars, Typing, Audited
<1>2. ASSUME NEW k \in Audits,
             \/ StartCron(k)
             \/ \E u \in Users : StartCommand(k, u)
             \/ AuditStep(k) \/ AuditDies(k)
      PROVE  Typing'
    <2>1. CASE \/ Insert(k) \/ SendReport(k) \/ SendRecap(k)
               \/ \E e \in Entries : SendQuestion(k, e)
        BY <2>1, SayingTyping
    <2>2. CASE ReadIncomes(k) \/ ReadExpenses(k) \/ AskModel(k)
        BY <2>2, ReadingTyping
    <2>3. CASE \/ StartCron(k) \/ \E u \in Users : StartCommand(k, u)
               \/ \E u \in Users : FindRun(k, u)
               \/ FinishUser(k) \/ FinishAudit(k) \/ InsertFails(k) \/ AuditDies(k)
        BY <2>3, NextUserTyping
    <2> QED
        BY <1>2, <2>1, <2>2, <2>3 DEF AuditStep
<1>3. CASE Next
    BY <1>2, <1>3, WorldTyping DEF Next
<1> QED
    BY <1>1, <1>3

\* The inductive invariant and the types always hold.
LEMMA AlwaysTyped == Spec => [](IInv /\ Typing)
<1>1. Init => IInv /\ Typing
    BY InitInv, InitTyping
<1>2. (IInv /\ Typing) /\ [Next]_vars => (IInv /\ Typing)'
    BY NextInv, NextTyping
<1> QED
    BY <1>1, <1>2, PTL DEF Spec

\* Rows, figures and local states are what their columns and fields hold,
\* for any rows and whatever the model flags.
THEOREM TypeCorrect == Spec => []TypeOK
<1>1. IInv /\ Typing => TypeOK
    BY DEF IInv, Typing, TypeOK, TablesOK, TellOK, AskedOK
<1> QED
    BY <1>1, AlwaysTyped, PTL

\* The savings rate that is stored is the nearest hundredth of a percent, for
\* every income and every overspending, also where it is negative.
THEOREM RatesAreNearest == Spec => []RateIsNearest
BY AlwaysTyped, RateNearest, PTL

-----------------------------------------------------------------------------
(***************************************************************************)
(* The median.                                                             *)
(***************************************************************************)
Amounts(table, S) == [e \in S |-> table[e].amount]

\* The least of a set of integers, found.
LEMMA MinIs ==
    ASSUME NEW V, V \subseteq Int, NEW v \in V, \A w \in V : v <= w
    PROVE  Min(V) = v
<1>1. \E x \in V : \A w \in V : x <= w
    OBVIOUS
<1>2. Min(V) \in V /\ \A w \in V : Min(V) <= w
    BY <1>1 DEF Min
<1>3. Min(V) \in Int /\ v \in Int
    BY <1>2
<1> QED
    BY <1>2, <1>3

\* The greatest of a set of integers, found.
LEMMA MaxIs ==
    ASSUME NEW V, V \subseteq Int, NEW v \in V, \A w \in V : w <= v
    PROVE  Max(V) = v
<1>1. \E x \in V : \A w \in V : w <= x
    OBVIOUS
<1>2. Max(V) \in V /\ \A w \in V : w <= Max(V)
    BY <1>1 DEF Max
<1>3. Max(V) \in Int /\ v \in Int
    BY <1>2
<1> QED
    BY <1>2, <1>3

\* The rows put in order are sorted and all there.
LEMMA OrderedSorts ==
    ASSUME NEW table, NEW S, IsFiniteSet(S), \A e \in S : table[e].amount \in Nat
    PROVE  /\ Sorts(Ordered(table, S), Amounts(table, S), S)
           /\ Len(Ordered(table, S)) = Cardinality(S)
<1> DEFINE f == Amounts(table, S)
           n == Cardinality(S)
           InOrder(o) == \A i, j \in DOMAIN o :
                            i <= j => table[o[i]].amount <= table[o[j]].amount
<1>1. /\ \A e \in S : f[e] = table[e].amount /\ f[e] \in Int
      /\ n \in Nat
    BY FS_CardinalityType DEF Amounts
<1>2. PICK p : Sorts(p, f, S)
    <2> HIDE DEF f
    <2> QED
        BY <1>1, SortedExists
<1>3. p \in SetToSeqs(S) /\ InOrder(p)
    BY <1>1, <1>2 DEF Sorts, SetToSeqs
<1> DEFINE o == Ordered(table, S)
<1>4. o \in SetToSeqs(S) /\ InOrder(o)
    BY <1>3 DEF Ordered
<1> HIDE DEF o
<1>5. /\ o \in [1 .. n -> S]
      /\ \A i, j \in 1 .. n : i # j => o[i] # o[j]
    BY <1>4 DEF SetToSeqs
<1>6. \A i, j \in 1 .. n : i <= j => f[o[i]] <= f[o[j]]
    BY <1>1, <1>4, <1>5
<1>7. Len(o) = n
    BY <1>1, <1>5
<1> QED
    BY <1>5, <1>6, <1>7 DEF Sorts, o

\* Half the values do not exceed the lower of the middle values, and half do
\* not fall below the upper.
LEMMA MedianByRank ==
    ASSUME NEW table, NEW S, IsFiniteSet(S), S # {},
           \A e \in S : table[e].amount \in Nat
    PROVE  LET upTo(v) == {e \in S : table[e].amount <= v}
               from(v) == {e \in S : table[e].amount >= v}
               values == {table[e].amount : e \in S}
           IN  MedianTwice(table, S) =
                  Min({v \in values : 2 * Cardinality(upTo(v)) >= Cardinality(S)})
                  + Max({v \in values : 2 * Cardinality(from(v)) >= Cardinality(S)})
<1> DEFINE upTo(v) == {e \in S : table[e].amount <= v}
           from(v) == {e \in S : table[e].amount >= v}
           values == {table[e].amount : e \in S}
           f == Amounts(table, S)
           o == Ordered(table, S)
           n == Cardinality(S)
           low == (n + 1) \div 2
           high == n \div 2 + 1
           Low == {v \in values : 2 * Cardinality(upTo(v)) >= n}
           High == {v \in values : 2 * Cardinality(from(v)) >= n}
<1>1. n \in Nat \ {0} /\ Sorts(o, f, S) /\ Len(o) = n
    BY FS_CardinalityType, FS_EmptySet, OrderedSorts
<1>2. low \in 1 .. n /\ high \in 1 .. n /\ 2 * low >= n /\ 2 * (low - 1) < n
      /\ 2 * (n - high + 1) >= n /\ 2 * (n - high) < n
    <2> HIDE DEF n
    <2> QED
        BY <1>1
<1>3. /\ \A e \in S : f[e] = table[e].amount /\ f[e] \in Int
      /\ values \subseteq Int
    BY DEF Amounts
<1>4. \A v : upTo(v) = UpTo(f, S, v) /\ from(v) = From(f, S, v)
    BY <1>3 DEF UpTo, From
<1>5. \A v : Cardinality(upTo(v)) \in Nat /\ Cardinality(from(v)) \in Nat
    BY FS_Subset, FS_CardinalityType
<1>6. /\ o[low] \in S /\ o[high] \in S
      /\ f[o[low]] \in values /\ f[o[high]] \in values
    BY <1>1, <1>2, <1>3 DEF Sorts
<1> HIDE DEF f, o, low, high
<1>7. /\ Cardinality(upTo(f[o[low]])) >= low
      /\ \A w \in Int : w < f[o[low]] => Cardinality(upTo(w)) <= low - 1
      /\ Cardinality(from(f[o[high]])) >= n - high + 1
      /\ \A w \in Int : w > f[o[high]] => Cardinality(from(w)) <= n - high
    <2>1. /\ low \in DOMAIN o /\ high \in DOMAIN o
          /\ \A e \in S : f[e] \in Int
        BY <1>1, <1>2, <1>3 DEF Sorts
    <2>2. /\ Cardinality(UpTo(f, S, f[o[low]])) >= low
          /\ \A w \in Int : w < f[o[low]] =>
                Cardinality(UpTo(f, S, w)) <= low - 1
        BY <1>1, <2>1, Ranks
    <2>3. /\ Cardinality(From(f, S, f[o[high]])) >= n - high + 1
          /\ \A w \in Int : w > f[o[high]] =>
                Cardinality(From(f, S, w)) <= n - high
        BY <1>1, <2>1, Ranks
    <2> HIDE DEF upTo, from
    <2> QED
        BY <1>4, <2>2, <2>3
<1> HIDE DEF upTo, from, n, values
<1>8. Min(Low) = f[o[low]]
    <2>1. 2 * Cardinality(upTo(f[o[low]])) >= n
        BY <1>1, <1>2, <1>5, <1>7
    <2>2. Low \subseteq Int /\ f[o[low]] \in Low
        BY <1>3, <1>6, <2>1
    <2>3. ASSUME NEW w \in Low PROVE f[o[low]] <= w
        <3>1. w \in Int /\ f[o[low]] \in Int /\ 2 * Cardinality(upTo(w)) >= n
            BY <1>3, <1>6
        <3>2. ~(Cardinality(upTo(w)) <= low - 1)
            BY <1>1, <1>2, <1>5, <3>1
        <3> QED
            BY <1>7, <3>1, <3>2
    <2> HIDE DEF Low
    <2> QED
        BY <2>2, <2>3, MinIs
<1>9. Max(High) = f[o[high]]
    <2>1. 2 * Cardinality(from(f[o[high]])) >= n
        BY <1>1, <1>2, <1>5, <1>7
    <2>2. High \subseteq Int /\ f[o[high]] \in High
        BY <1>3, <1>6, <2>1
    <2>3. ASSUME NEW w \in High PROVE w <= f[o[high]]
        <3>1. w \in Int /\ f[o[high]] \in Int /\ 2 * Cardinality(from(w)) >= n
            BY <1>3, <1>6
        <3>2. ~(Cardinality(from(w)) <= n - high)
            BY <1>1, <1>2, <1>5, <3>1
        <3> QED
            BY <1>7, <3>1, <3>2
    <2> HIDE DEF High
    <2> QED
        BY <2>2, <2>3, MaxIs
<1>10. MedianTwice(table, S) = f[o[low]] + f[o[high]]
    <2>1. MedianTwice(table, S) =
             IF n % 2 = 1 THEN 2 * table[o[(n \div 2) + 1]].amount
             ELSE table[o[(n \div 2) + 1 - 1]].amount
                  + table[o[(n \div 2) + 1]].amount
        BY <1>1 DEF MedianTwice, o
    <2>2. CASE n % 2 = 1
        <3>1. low = n \div 2 + 1 /\ high = n \div 2 + 1
            BY <1>1, <2>2 DEF low, high
        <3> QED
            BY <1>3, <1>6, <2>1, <2>2, <3>1
    <2>3. CASE n % 2 # 1
        <3>1. low = n \div 2 + 1 - 1 /\ high = n \div 2 + 1
            BY <1>1, <2>3 DEF low, high
        <3> QED
            BY <1>3, <1>6, <2>1, <2>3, <3>1
    <2> QED
        BY <2>2, <2>3
<1> QED
    BY <1>8, <1>9, <1>10 DEF upTo, from, values, n

\* The median of a month's rows is the middle by rank, however many rows
\* there are and however often an amount occurs.
THEOREM MedianIsTheMiddle == Spec => []MedianIsMiddle
<1>1. IInv /\ Typing => MedianIsMiddle
    <2> SUFFICES ASSUME IInv, Typing, NEW u \in Users, NEW m \in Months,
                        RowsOf(expense, u, m) # {}
                 PROVE  LET S      == RowsOf(expense, u, m)
                            upTo(v) == {e \in S : expense[e].amount <= v}
                            from(v) == {e \in S : expense[e].amount >= v}
                            values == {expense[e].amount : e \in S}
                        IN  MedianTwice(expense, S) =
               Min({v \in values : 2 * Cardinality(upTo(v)) >= Cardinality(S)})
               + Max({v \in values : 2 * Cardinality(from(v)) >= Cardinality(S)})
        BY DEF MedianIsMiddle
    <2> DEFINE S == RowsOf(expense, u, m)
    <2>1. IsFiniteSet(S) /\ S # {} /\ \A e \in S : expense[e].amount \in Nat
        BY RowsAre
    <2> HIDE DEF S
    <2>2. LET upTo(v) == {e \in S : expense[e].amount <= v}
              from(v) == {e \in S : expense[e].amount >= v}
              values == {expense[e].amount : e \in S}
          IN  MedianTwice(expense, S) =
               Min({v \in values : 2 * Cardinality(upTo(v)) >= Cardinality(S)})
               + Max({v \in values : 2 * Cardinality(from(v)) >= Cardinality(S)})
        BY <2>1, MedianByRank, Zenon
    <2> QED
        BY <2>2, Zenon DEF S
<1> QED
    BY <1>1, AlwaysTyped, PTL

-----------------------------------------------------------------------------
(***************************************************************************)
(* Savings.                                                                *)
(***************************************************************************)

\* Only the amounts matter, by MedianByRank.
LEMMA SameMedian ==
    ASSUME NEW table, NEW other, NEW U, IsFiniteSet(U),
           \A e \in U : /\ table[e].amount \in Nat
                        /\ other[e].amount = table[e].amount
    PROVE  MedianTwice(other, U) = MedianTwice(table, U)
<1>1. CASE U = {}
    BY <1>1 DEF MedianTwice
<1>2. CASE U # {}
    <2> DEFINE Middle(t) ==
            Min({v \in {t[e].amount : e \in U} :
                   2 * Cardinality({e \in U : t[e].amount <= v})
                      >= Cardinality(U)})
            + Max({v \in {t[e].amount : e \in U} :
                     2 * Cardinality({e \in U : t[e].amount >= v})
                        >= Cardinality(U)})
    <2>1. MedianTwice(table, U) = Middle(table)
        BY <1>2, MedianByRank, Zenon
    <2>2. MedianTwice(other, U) = Middle(other)
        <3>1. \A e \in U : other[e].amount \in Nat
            OBVIOUS
        <3> QED
            BY <1>2, <3>1, MedianByRank, Zenon
    <2>3. /\ {other[e].amount : e \in U} = {table[e].amount : e \in U}
          /\ \A v : {e \in U : other[e].amount <= v}
                       = {e \in U : table[e].amount <= v}
          /\ \A v : {e \in U : other[e].amount >= v}
                       = {e \in U : table[e].amount >= v}
        OBVIOUS
    <2>4. Middle(other) = Middle(table)
        BY <2>3
    <2> QED
        BY <2>1, <2>2, <2>4
<1> QED
    BY <1>1, <1>2

\* Tables with the same spending give the same figures.
LEMMA SameFigures ==
    ASSUME NEW table, NEW other, NEW S, NEW T,
           DOMAIN other = DOMAIN table, S \subseteq DOMAIN table,
           IsFiniteSet(S), Spending(other, T) = Spending(table, S),
           \A e \in Spending(table, S) :
              table[e].amount \in Nat /\ other[e].amount = table[e].amount
    PROVE  /\ Outliers(other, T) = Outliers(table, S)
           /\ \A i : Figures(i, other, T) = Figures(i, table, S)
<1> DEFINE U == Spending(table, S)
<1>1. IsFiniteSet(U) /\ U \subseteq DOMAIN table
    BY FS_Subset DEF Spending
<1>2. MedianTwice(other, U) = MedianTwice(table, U)
    <2> HIDE DEF U
    <2>1. \A e \in U : /\ table[e].amount \in Nat
                       /\ other[e].amount = table[e].amount
        BY DEF U
    <2> QED
        BY <1>1, <2>1, SameMedian
<1>3. Outliers(other, T) = Outliers(table, S)
    <2> DEFINE median == MedianTwice(table, U)
    <2>1. Spending(other, T) = U
        OBVIOUS
    <2>2. \A e \in U : other[e].amount = table[e].amount
        OBVIOUS
    <2> HIDE DEF U
    <2>3. {e \in U : 2 * other[e].amount >= OutlierMultiple * median}
             = {e \in U : 2 * table[e].amount >= OutlierMultiple * median}
        BY <2>2
    <2>4. Outliers(other, T) =
             IF Cardinality(U) >= MinExpenses /\ MedianTwice(other, U) > 0
             THEN {e \in U : 2 * other[e].amount
                                >= OutlierMultiple * MedianTwice(other, U)}
             ELSE {}
        BY <2>1 DEF Outliers
    <2>5. Outliers(table, S) =
             IF Cardinality(U) >= MinExpenses /\ median > 0
             THEN {e \in U : 2 * table[e].amount >= OutlierMultiple * median}
             ELSE {}
        BY DEF Outliers, U
    <2> QED
        BY <1>2, <2>3, <2>4, <2>5
<1>4. TotalOf(other, U) = TotalOf(table, U)
    <2> DEFINE f == [e \in DOMAIN table |-> table[e].amount]
               g == [e \in DOMAIN other |-> other[e].amount]
    <2>1. \A e \in U : f[e] \in Int /\ g[e] = f[e]
        BY <1>1
    <2> HIDE DEF f, g, U
    <2>2. SumFunctionOnSet(f, U) = SumFunctionOnSet(g, U)
        BY <1>1, <2>1, SumSame
    <2> QED
        BY <2>2 DEF TotalOf, f, g
<1>5. \A i : Figures(i, other, T) = Figures(i, table, S)
    BY <1>4 DEF Figures
<1> QED
    BY <1>3, <1>5

\* A savings row leaves figures and outliers as they were.
LEMMA SavingsAside ==
    ASSUME IInv, Typing, [Next]_vars, NEW e \in Entries,
           expense[e] = NoEntry, expense'[e] # NoEntry,
           expense'[e].category = Savings
    PROVE  LET S == RowsOf(expense, expense'[e].owner, expense'[e].month)
               T == S \cup {e}
           IN  /\ Outliers(expense', T) = Outliers(expense, S)
               /\ \A i : Figures(i, expense', T) = Figures(i, expense, S)
<1>1. DOMAIN expense = Entries
    BY DEF IInv, TablesOK
<1>2. \A d \in Entries : AddExpense(d) => d = e
    BY <1>1 DEF AddExpense
<1>3. ASSUME NEW q \in asked, NEW c \in Categories, Recategorize(q, c)
      PROVE  FALSE
    <2>1. q[1] \in Users /\ expense[q[2]].owner = q[1]
        BY DEF IInv, AskedOK
    <2>2. expense[e].owner = NoUser
        BY DEF NoEntry
    <2>3. q[2] # e
        BY <2>1, <2>2, AuditAssumption
    <2> QED
        BY <1>1, <1>3, <2>3 DEF Recategorize
<1>4. expense' # expense
    OBVIOUS
<1>5. AddExpense(e)
    <2>1. UNCHANGED vars => UNCHANGED expense
        BY DEF vars
    <2>2. ASSUME NEW k \in Audits,
                 \/ StartCron(k)
                 \/ \E u \in Users : StartCommand(k, u)
                 \/ AuditStep(k) \/ AuditDies(k)
          PROVE  UNCHANGED expense
        BY <2>2 DEF StartCron, StartCommand, AuditStep, AuditDies, Local,
                    FindRun, ReadIncomes, ReadExpenses, AskModel, Insert,
                    InsertFails, SendReport, SendRecap, SendQuestion,
                    FinishUser, FinishAudit
    <2>3. NextMonth \/ (\E i \in Credits : RecordIncome(i)) => UNCHANGED expense
        BY DEF NextMonth, RecordIncome
    <2> QED
        BY <1>2, <1>3, <1>4, <2>1, <2>2, <2>3 DEF Next
<1>6. PICK x \in Purchases : expense' = [expense EXCEPT ![e] = x]
    BY <1>5 DEF AddExpense
<1>7. /\ expense'[e] = x /\ x.owner \in Users
      /\ \A d \in Entries : d # e => expense'[d] = expense[d]
      /\ DOMAIN expense' = DOMAIN expense
    BY <1>1, <1>6, AuditAssumption
<1> DEFINE S == RowsOf(expense, x.owner, x.month)
           T == S \cup {e}
<1>8. /\ IsFiniteSet(S) /\ S \subseteq DOMAIN expense
      /\ \A d \in S : expense[d].amount \in Nat
    BY <1>7, RowsAre
<1>9. e \notin S
    BY <1>7, AuditAssumption DEF RowsOf, NoEntry
<1>10. \A d \in S : expense'[d] = expense[d]
    BY <1>1, <1>7, <1>8, <1>9
<1> HIDE DEF S
<1>11. Spending(expense', T) = Spending(expense, S)
    BY <1>10 DEF Spending
<1>12. \A d \in Spending(expense, S) :
          expense[d].amount \in Nat /\ expense'[d].amount = expense[d].amount
    BY <1>8, <1>10 DEF Spending
<1> DEFINE later == expense'
<1> HIDE DEF later, T
<1>13. /\ Outliers(later, T) = Outliers(expense, S)
       /\ \A i : Figures(i, later, T) = Figures(i, expense, S)
    <2>1. /\ DOMAIN later = DOMAIN expense
          /\ Spending(later, T) = Spending(expense, S)
          /\ \A d \in Spending(expense, S) :
                expense[d].amount \in Nat /\ later[d].amount = expense[d].amount
        BY <1>7, <1>11, <1>12 DEF later
    <2> QED
        BY <1>8, <2>1, SameFigures
<1> QED
    BY <1>7, <1>13 DEF later, S, T

\* Money moved to savings leaves the month's spending, its savings rate and
\* what counts as unusual as they were, whatever else the month holds.
THEOREM SavingsAreSetAside == Spec => SavingsDoNotCount
<1>1. IInv /\ Typing /\ [Next]_vars =>
         [\A e \in Entries :
            expense[e] = NoEntry /\ expense'[e] # NoEntry
               /\ expense'[e].category = Savings =>
            LET S == RowsOf(expense, expense'[e].owner, expense'[e].month)
                T == S \cup {e}
            IN  /\ Outliers(expense', T) = Outliers(expense, S)
                /\ \A i \in {0, 1} :
                      Figures(i, expense', T) = Figures(i, expense, S)]_vars
    BY SavingsAside, Zenon
<1> QED
    BY <1>1, AlwaysTyped, PTL DEF Spec, SavingsDoNotCount
=============================================================================
