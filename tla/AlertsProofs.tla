---------------------------- MODULE AlertsProofs ----------------------------
(***************************************************************************)
(* For any users, categories, expenses, incomes and numbers of overlapping *)
(* jobs, any of which may die at any step: Alerts is well-typed, loses no  *)
(* marker's alert but with the job that holds it, and implements           *)
(* Announcement, so that no alert is told twice.                           *)
(***************************************************************************)
EXTENDS Alerts, TLAPS

\* A job's locals: it works for a real user on a real day whenever it may
\* name an item, and holds alerts only between a marker and its message.
CheckOK(c) ==
    /\ c \in CheckType
    /\ c.pc \in {"incomes", "spend", "look", "insert"} \/ c.alerts # {} =>
          c.user \in Users /\ c.day \in Days
    /\ c.pc \in {"idle", "next", "incomes", "spend", "done"} => c.alerts = {}
    /\ c.pc = "insert" => c.kind \in Kinds

TablesOK ==
    /\ today \in Days
    /\ budget \in [Users -> [Categories -> Limits \cup {NoLimit}]]
    /\ profile \in [Users -> Profiles \cup {NoProfile}]
    /\ DOMAIN expense = Entries
    /\ \A e \in Entries : expense[e] # NoEntry =>
          expense[e] \in [owner : Users, category : Categories,
                          amount : Nat, date : Nat]
    /\ income \in [Credits -> Deposits \cup {NoCredit}]

ChecksOK == /\ DOMAIN check = Checks
            /\ check = [k \in Checks |-> check[k]]
            /\ \A k \in Checks : CheckOK(check[k])

\* What a job holds has its marker and was not told.
HeldOK == \A k \in Checks : \A a \in check[k].alerts :
             /\ Item(check[k], a) \in marker
             /\ told[Item(check[k], a)] = 0

\* No alert is held by two jobs.
Apart == \A j, k \in Checks : j # k =>
            \A a \in check[j].alerts, b \in check[k].alerts :
               Item(check[j], a) # Item(check[k], b)

TellOK == /\ marker \subseteq Items
          /\ told \in [Items -> {0, 1}]
          /\ \A i \in Items : told[i] = 1 => i \in marker

IInv == /\ TablesOK /\ ChecksOK /\ HeldOK /\ Apart /\ TellOK
        /\ MarkerAccounted

\* The item a job names is one of the items.
LEMMA ItemIsItem ==
    ASSUME NEW c, CheckOK(c), c.user \in Users, c.day \in Days,
           NEW a \in Kinds
    PROVE  Item(c, a) \in Items
BY DEF Item, Items

\* The inductive invariant contains the type invariant.
LEMMA IInvImpliesTypeOK == IInv => TypeOK
BY DEF IInv, TypeOK, TablesOK, ChecksOK, CheckOK, TellOK

\* A check that has not begun is in order.
LEMMA IdleIsOK == CheckOK(IdleCheck)
BY AlertAssumption DEF CheckOK, IdleCheck, CheckType, Jobs, NoLimit

\* The inductive invariant holds at the start.
LEMMA InitInv == Init => IInv
<1> SUFFICES ASSUME Init PROVE IInv
    OBVIOUS
<1>1. TablesOK
    BY AlertAssumption DEF Init, TablesOK, NoLimit
<1>2. ChecksOK
    BY IdleIsOK DEF Init, ChecksOK
<1>3. HeldOK /\ Apart /\ MarkerAccounted
    BY DEF Init, HeldOK, Apart, MarkerAccounted, IdleCheck
<1>4. TellOK
    BY DEF Init, TellOK
<1> QED
    BY <1>1, <1>2, <1>3, <1>4 DEF IInv

(***************************************************************************)
(* A step of the world around the jobs, and a step of a job that neither   *)
(* records nor tells anything.                                             *)
(***************************************************************************)
LEMMA WorldStep ==
    ASSUME IInv, TablesOK', UNCHANGED <<marker, told, check>>
    PROVE  IInv'
BY DEF IInv, ChecksOK, HeldOK, Apart, TellOK, MarkerAccounted, Held, Item

\* A step of one check that leaves the tables alone keeps it.
LEMMA QuietStep ==
    ASSUME IInv, NEW k \in Checks, NEW c, CheckOK(c), Local(k, c),
           c.alerts = check[k].alerts,
           c.alerts # {} => c.user = check[k].user /\ c.day = check[k].day
    PROVE  IInv'
<1>1. /\ check' = [check EXCEPT ![k] = c]
      /\ marker' = marker /\ told' = told
    BY DEF Local
<1>2. TablesOK'
    BY DEF IInv, TablesOK, Local
<1>3. ChecksOK'
    BY <1>1 DEF IInv, ChecksOK
<1>4. \A j \in Checks : /\ check'[j].alerts = check[j].alerts
                        /\ \A a \in check[j].alerts :
                              Item(check'[j], a) = Item(check[j], a)
    BY <1>1 DEF IInv, ChecksOK, Item
<1>5. HeldOK' /\ Apart'
    BY <1>1, <1>4 DEF IInv, HeldOK, Apart
<1>6. TellOK'
    BY <1>1 DEF IInv, TellOK
<1>7. MarkerAccounted'
    <2>1. \A j \in Checks : Held(j)' = Held(j)
        BY <1>4 DEF Held
    <2> QED
        BY <1>1, <2>1 DEF IInv, MarkerAccounted
<1> QED
    BY <1>2, <1>3, <1>5, <1>6, <1>7 DEF IInv

\* A check that dies is in order and keeps what it had to say.
LEMMA DeadIsOK ==
    ASSUME NEW c, CheckOK(c)
    PROVE  /\ CheckOK(Dead(c))
           /\ Dead(c).alerts = c.alerts
           /\ Dead(c).user = c.user /\ Dead(c).day = c.day
<1> DEFINE d == Dead(c)
<1>1. /\ c.user \in Users \cup {NoUser} /\ c.day \in Days \cup {0}
      /\ c.alerts \subseteq Kinds /\ c.job \in Jobs
      /\ c.alerts # {} => c.user \in Users /\ c.day \in Days
    BY DEF CheckOK, CheckType
<1>2. d \in CheckType
    BY <1>1 DEF Dead, IdleCheck, CheckType
<1>3. /\ d.pc = "dead" /\ d.alerts = c.alerts
      /\ d.user = c.user /\ d.day = c.day
    BY <1>1 DEF Dead, IdleCheck
<1> HIDE DEF d
<1>4. CheckOK(d)
    BY <1>1, <1>2, <1>3 DEF CheckOK
<1> QED
    BY <1>3, <1>4 DEF d

\* Storing an alert keeps it, and claims one announcement.
LEMMA InsertInv ==
    ASSUME IInv, NEW k \in Checks, Insert(k)
    PROVE  IInv' /\ \E i \in Items : Promise!Claim(i)
<1> DEFINE c == check[k]
           d == [c EXCEPT !.pc = "look", !.kind = NoKind,
                          !.alerts = c.alerts \cup {c.kind}]
           i == Item(c, c.kind)
<1>1. /\ CheckOK(c) /\ c.pc = "insert" /\ i \notin marker
      /\ c.user \in Users /\ c.day \in Days /\ c.kind \in Kinds
    BY DEF Insert, IInv, ChecksOK, CheckOK
<1>2. i \in Items
    BY <1>1, ItemIsItem
<1>3. /\ marker' = marker \cup {i} /\ told' = told
      /\ check' = [check EXCEPT ![k] = d]
    BY DEF Insert
<1>4. CheckOK(d)
    BY <1>1 DEF CheckOK, CheckType
<1>5. TablesOK'
    BY DEF IInv, TablesOK, Insert
<1>6. ChecksOK'
    BY <1>3, <1>4 DEF IInv, ChecksOK
<1>7. told[i] = 0
    BY <1>1, <1>2 DEF IInv, TellOK
<1>8. /\ \A j \in Checks : j # k => check'[j] = check[j]
      /\ check'[k] = d
    BY <1>3 DEF IInv, ChecksOK
<1>9. \A a : Item(d, a) = Item(c, a)
    BY <1>1 DEF CheckOK, CheckType, Item
<1>10. d.alerts = c.alerts \cup {c.kind}
    BY <1>1 DEF CheckOK, CheckType
<1>11. HeldOK'
    BY <1>3, <1>7, <1>8, <1>9, <1>10 DEF IInv, HeldOK
<1>12. \A j \in Checks : \A a \in check[j].alerts : Item(check[j], a) # i
    BY <1>1 DEF IInv, HeldOK
<1>13. Apart'
    <2> SUFFICES ASSUME NEW j \in Checks, NEW l \in Checks, j # l,
                        NEW a \in check'[j].alerts, NEW b \in check'[l].alerts
                 PROVE  Item(check'[j], a) # Item(check'[l], b)
        BY DEF Apart, Item
    <2>1. CASE j # k /\ l # k
        BY <2>1, <1>8 DEF IInv, Apart
    <2>2. CASE j = k
        <3>1. Item(check'[j], a) = i \/ a \in c.alerts
            BY <2>2, <1>8, <1>9, <1>10
        <3>2. check'[l] = check[l]
            BY <2>2, <1>8
        <3> QED
            BY <2>2, <3>1, <3>2, <1>8, <1>9, <1>12 DEF IInv, Apart
    <2>3. CASE l = k
        <3>1. Item(check'[l], b) = i \/ b \in c.alerts
            BY <2>3, <1>8, <1>9, <1>10
        <3>2. check'[j] = check[j]
            BY <2>3, <1>8
        <3> QED
            BY <2>3, <3>1, <3>2, <1>8, <1>9, <1>12 DEF IInv, Apart
    <2> QED
        BY <2>1, <2>2, <2>3
<1>14. TellOK'
    BY <1>2, <1>3 DEF IInv, TellOK
<1>15. MarkerAccounted'
    <2> SUFFICES ASSUME NEW x \in marker', told'[x] = 0
                 PROVE  \E j \in Checks : x \in Held(j)'
        BY DEF MarkerAccounted
    <2>1. CASE x = i
        <3>1. c.kind \in check'[k].alerts /\ x = Item(check'[k], c.kind)
            BY <2>1, <1>8, <1>9, <1>10
        <3> QED
            BY <3>1 DEF Held, Item
    <2>2. CASE x \in marker
        <3>1. PICK j \in Checks : x \in Held(j)
            BY <2>2, <1>3 DEF IInv, MarkerAccounted
        <3>2. PICK a \in check[j].alerts : x = Item(check[j], a)
            BY <3>1 DEF Held
        <3>3. a \in check'[j].alerts /\ x = Item(check'[j], a)
            BY <3>2, <1>8, <1>9, <1>10
        <3> QED
            BY <3>3 DEF Held, Item
    <2> QED
        BY <2>1, <2>2, <1>3
<1>16. Promise!Claim(i)
    BY <1>1, <1>3 DEF Promise!Claim
<1> QED
    BY <1>2, <1>5, <1>6, <1>11, <1>13, <1>14, <1>15, <1>16 DEF IInv

\* Sending an alert keeps it, and tells one announcement.
LEMMA SendInv ==
    ASSUME IInv, NEW k \in Checks, NEW kind \in Kinds, SendAlert(k, kind)
    PROVE  IInv' /\ \E i \in Items : Promise!Tell(i)
<1> DEFINE c == check[k]
           d == [c EXCEPT !.alerts = c.alerts \ {kind}]
           i == Item(c, kind)
<1>1. /\ CheckOK(c) /\ c.pc = "look" /\ kind \in c.alerts
      /\ c.user \in Users /\ c.day \in Days
    BY DEF SendAlert, IInv, ChecksOK, CheckOK
<1>2. i \in Items
    BY <1>1, ItemIsItem
<1>3. i \in marker /\ told[i] = 0
    BY <1>1 DEF IInv, HeldOK
<1>4. /\ marker' = marker /\ told' = [told EXCEPT ![i] = told[i] + 1]
      /\ check' = [check EXCEPT ![k] = d]
    BY <1>1 DEF SendAlert, IInv, ChecksOK, CheckOK, CheckType
<1>5. told' = [told EXCEPT ![i] = 1]
    BY <1>3, <1>4
<1>6. CheckOK(d)
    BY <1>1 DEF CheckOK, CheckType
<1>7. TablesOK'
    BY DEF IInv, TablesOK, SendAlert
<1>8. ChecksOK'
    BY <1>4, <1>6 DEF IInv, ChecksOK
<1>9. /\ \A j \in Checks : j # k => check'[j] = check[j]
      /\ check'[k] = d
    BY <1>4 DEF IInv, ChecksOK
<1>10. /\ \A a : Item(d, a) = Item(c, a)
       /\ d.alerts = c.alerts \ {kind}
    BY <1>1 DEF CheckOK, CheckType, Item
<1>11. \A a \in d.alerts : Item(c, a) # i
    BY <1>10 DEF Item
<1>12. \A j \in Checks : j # k =>
          \A a \in check[j].alerts : Item(check[j], a) # i
    BY <1>1 DEF IInv, Apart
<1>13. \A x \in Items : x # i => told'[x] = told[x]
    BY <1>5 DEF IInv, TellOK
<1>14. HeldOK'
    <2> SUFFICES ASSUME NEW j \in Checks, NEW a \in check'[j].alerts
                 PROVE  /\ Item(check'[j], a) \in marker'
                        /\ told'[Item(check'[j], a)] = 0
        BY DEF HeldOK, Item
    <2>1. /\ a \in check[j].alerts
          /\ Item(check'[j], a) = Item(check[j], a)
          /\ Item(check[j], a) # i
        BY <1>9, <1>10, <1>11, <1>12
    <2>2. Item(check[j], a) \in marker /\ told[Item(check[j], a)] = 0
        BY <2>1 DEF IInv, HeldOK
    <2> QED
        BY <2>1, <2>2, <1>4, <1>13 DEF IInv, TellOK
<1>15. Apart'
    <2> SUFFICES ASSUME NEW j \in Checks, NEW l \in Checks, j # l,
                        NEW a \in check'[j].alerts, NEW b \in check'[l].alerts
                 PROVE  Item(check'[j], a) # Item(check'[l], b)
        BY DEF Apart, Item
    <2>1. /\ a \in check[j].alerts /\ Item(check'[j], a) = Item(check[j], a)
          /\ b \in check[l].alerts /\ Item(check'[l], b) = Item(check[l], b)
        BY <1>9, <1>10
    <2> QED
        BY <2>1 DEF IInv, Apart
<1>16. TellOK'
    BY <1>2, <1>3, <1>4, <1>5 DEF IInv, TellOK
<1>17. MarkerAccounted'
    <2> SUFFICES ASSUME NEW x \in marker', told'[x] = 0
                 PROVE  \E j \in Checks : x \in Held(j)'
        BY DEF MarkerAccounted
    <2>1. x # i /\ x \in Items /\ told[x] = 0 /\ x \in marker
        BY <1>2, <1>4, <1>5, <1>13 DEF IInv, TellOK
    <2>2. PICK j \in Checks : x \in Held(j)
        BY <2>1 DEF IInv, MarkerAccounted
    <2>3. PICK a \in check[j].alerts : x = Item(check[j], a)
        BY <2>2 DEF Held
    <2>4. a \in check'[j].alerts /\ x = Item(check'[j], a)
        BY <2>1, <2>3, <1>9, <1>10
    <2> QED
        BY <2>4 DEF Held, Item
<1>18. Promise!Tell(i)
    BY <1>3, <1>4, <1>5 DEF Promise!Tell
<1> QED
    BY <1>2, <1>7, <1>8, <1>14, <1>15, <1>16, <1>17, <1>18 DEF IInv

(***************************************************************************)
(* The other steps: none touches a marker or tells an alert.               *)
(***************************************************************************)
LEMMA WorldInv ==
    ASSUME IInv,
           \/ Tick
           \/ \E e \in Entries : \/ AddExpense(e)
                                 \/ \E c \in Categories : Recategorize(e, c)
           \/ \E i \in Credits : RecordIncome(i)
           \/ \E x \in Budgets : SetBudget(x)
           \/ \E x \in Plans : SetSalary(x)
    PROVE  IInv' /\ UNCHANGED <<marker, told>>
<1>1. CASE Tick
    <2>1. TablesOK' /\ UNCHANGED <<marker, told, check>>
        BY <1>1 DEF Tick, IInv, TablesOK
    <2> QED
        BY <2>1, WorldStep
<1>2. ASSUME NEW e \in Entries, AddExpense(e)
      PROVE  IInv' /\ UNCHANGED <<marker, told>>
    <2>1. PICK x \in Purchases : expense' = [expense EXCEPT ![e] = x]
        BY <1>2 DEF AddExpense
    <2>2. x \in [owner : Users, category : Categories,
                 amount : Nat, date : Nat]
        BY AlertAssumption
    <2>3. TablesOK' /\ UNCHANGED <<marker, told, check>>
        BY <1>2, <2>1, <2>2 DEF AddExpense, IInv, TablesOK
    <2> QED
        BY <2>3, WorldStep
<1>3. ASSUME NEW e \in Entries, NEW c \in Categories, Recategorize(e, c)
      PROVE  IInv' /\ UNCHANGED <<marker, told>>
    <2>1. expense[e] \in [owner : Users, category : Categories,
                          amount : Nat, date : Nat]
        BY <1>3 DEF Recategorize, IInv, TablesOK
    <2>2. [expense[e] EXCEPT !.category = c]
             \in [owner : Users, category : Categories,
                  amount : Nat, date : Nat]
        BY <2>1
    <2>3. expense' = [expense EXCEPT
                         ![e] = [expense[e] EXCEPT !.category = c]]
        BY <1>3 DEF Recategorize
    <2>4. TablesOK' /\ UNCHANGED <<marker, told, check>>
        BY <1>3, <2>2, <2>3 DEF Recategorize, IInv, TablesOK
    <2> QED
        BY <2>4, WorldStep
<1>4. ASSUME NEW i \in Credits, RecordIncome(i)
      PROVE  IInv' /\ UNCHANGED <<marker, told>>
    <2>1. TablesOK' /\ UNCHANGED <<marker, told, check>>
        BY <1>4 DEF RecordIncome, IInv, TablesOK
    <2> QED
        BY <2>1, WorldStep
<1>5. ASSUME NEW x \in Budgets, SetBudget(x)
      PROVE  IInv' /\ UNCHANGED <<marker, told>>
    <2>1. /\ x.owner \in Users /\ x.category \in Categories
          /\ x.limit \in Limits
        BY AlertAssumption DEF Limits
    <2>2. TablesOK' /\ UNCHANGED <<marker, told, check>>
        BY <1>5, <2>1 DEF SetBudget, IInv, TablesOK
    <2> QED
        BY <2>2, WorldStep
<1>6. ASSUME NEW x \in Plans, SetSalary(x)
      PROVE  IInv' /\ UNCHANGED <<marker, told>>
    <2>1. /\ x.owner \in Users
          /\ [expected |-> x.expected, target |-> x.target,
              payday |-> x.payday] \in Profiles
        BY AlertAssumption DEF Profiles
    <2>2. TablesOK' /\ UNCHANGED <<marker, told, check>>
        BY <1>6, <2>1 DEF SetSalary, IInv, TablesOK
    <2> QED
        BY <2>2, WorldStep
<1> QED
    BY <1>1, <1>2, <1>3, <1>4, <1>5, <1>6

\* A job that picks up its next user, or ends with none left.
LEMMA NextUserInv ==
    ASSUME IInv, NEW k \in Checks,
           \/ \E job \in Jobs : StartCheck(k, job)
           \/ \E u \in Users : ReadBudgets(k, u) \/ ReadProfile(k, u)
           \/ FinishCheck(k)
    PROVE  IInv' /\ UNCHANGED <<marker, told>>
<1> DEFINE c == check[k]
<1>1. CheckOK(c)
    BY DEF IInv, ChecksOK
<1>2. ASSUME NEW job \in Jobs, StartCheck(k, job)
      PROVE  IInv' /\ UNCHANGED <<marker, told>>
    <2> DEFINE d == [c EXCEPT !.pc = "next", !.job = job, !.left = Users]
    <2>1. Local(k, d) /\ c.pc = "idle"
        BY <1>2 DEF StartCheck
    <2>2. CheckOK(d) /\ c.alerts = {} /\ d.alerts = {}
        BY <1>1, <2>1 DEF CheckOK, CheckType
    <2> QED
        BY <2>1, <2>2, QuietStep DEF Local
<1>3. ASSUME NEW u \in Users, ReadBudgets(k, u)
      PROVE  IInv' /\ UNCHANGED <<marker, told>>
    <2> DEFINE pc == IF \E x \in Categories : budget[u][x] # NoLimit
                     THEN "spend" ELSE "next"
               d == [c EXCEPT
                 !.pc = pc, !.left = c.left \ {u}, !.user = u, !.day = today,
                 !.limits = budget[u]]
    <2>1. Local(k, d) /\ c.pc = "next"
        BY <1>3 DEF ReadBudgets
    <2>2. /\ today \in Days
          /\ budget[u] \in [Categories -> Limits \cup {NoLimit}]
        BY DEF IInv, TablesOK
    <2>0. pc \in {"spend", "next"}
        OBVIOUS
    <2> HIDE DEF pc
    <2>3. d \in CheckType
        BY <1>1, <2>2, <2>0 DEF CheckOK, CheckType
    <2>4. /\ d.pc \in {"spend", "next"} /\ d.user = u /\ d.day = today
          /\ c.alerts = {} /\ d.alerts = c.alerts
        BY <1>1, <2>1, <2>0 DEF CheckOK, CheckType
    <2>5. CheckOK(d)
        <3> HIDE DEF d
        <3> QED
            BY <2>2, <2>3, <2>4 DEF CheckOK
    <2> QED
        BY <2>1, <2>4, <2>5, QuietStep DEF Local
<1>4. ASSUME NEW u \in Users, ReadProfile(k, u)
      PROVE  IInv' /\ UNCHANGED <<marker, told>>
    <2> DEFINE pc == IF profile[u] # NoProfile THEN "incomes" ELSE "next"
               d == [c EXCEPT
                 !.pc = pc, !.left = c.left \ {u}, !.user = u, !.day = today,
                 !.profile = profile[u]]
    <2>1. Local(k, d) /\ c.pc = "next"
        BY <1>4 DEF ReadProfile
    <2>2. today \in Days /\ profile[u] \in Profiles \cup {NoProfile}
        BY DEF IInv, TablesOK
    <2>0. pc \in {"incomes", "next"}
        OBVIOUS
    <2> HIDE DEF pc
    <2>3. d \in CheckType
        BY <1>1, <2>2, <2>0 DEF CheckOK, CheckType
    <2>4. /\ d.pc \in {"incomes", "next"} /\ d.user = u /\ d.day = today
          /\ c.alerts = {} /\ d.alerts = c.alerts
        BY <1>1, <2>1, <2>0 DEF CheckOK, CheckType
    <2>5. CheckOK(d)
        <3> HIDE DEF d
        <3> QED
            BY <2>2, <2>3, <2>4 DEF CheckOK
    <2> QED
        BY <2>1, <2>4, <2>5, QuietStep DEF Local
<1>5. CASE FinishCheck(k)
    <2> DEFINE d == [IdleCheck EXCEPT !.pc = "done"]
    <2>1. Local(k, d) /\ c.pc = "next"
        BY <1>5 DEF FinishCheck
    <2>2. CheckOK(d) /\ c.alerts = {} /\ d.alerts = {}
        BY <1>1, <2>1, IdleIsOK DEF CheckOK, CheckType, IdleCheck
    <2> QED
        BY <2>1, <2>2, QuietStep DEF Local
<1> QED
    BY <1>2, <1>3, <1>4, <1>5

\* A job that reads, looks up, goes on to the next user or dies.
LEMMA ReadingInv ==
    ASSUME IInv, NEW k \in Checks,
           \/ ReadIncomes(k) \/ ReadSpend(k)
           \/ \E a \in Kinds : LookUp(k, a)
           \/ FinishUser(k) \/ InsertConflict(k) \/ CheckDies(k)
    PROVE  IInv' /\ UNCHANGED <<marker, told>>
<1> DEFINE c == check[k]
<1>1. CheckOK(c)
    BY DEF IInv, ChecksOK
<1>2. CASE ReadIncomes(k)
    <2> DEFINE d == [c EXCEPT
                 !.pc = "spend",
                 !.due = IF SalaryLate(c.user, c.profile, c.day)
                         THEN {"salary_late"} ELSE {}]
    <2>1. Local(k, d) /\ c.pc = "incomes"
        BY <1>2 DEF ReadIncomes
    <2>2. CheckOK(d) /\ c.alerts = {} /\ d.alerts = {}
        BY <1>1, <2>1 DEF CheckOK, CheckType, Kinds
    <2> QED
        BY <2>1, <2>2, QuietStep DEF Local
<1>3. CASE ReadSpend(k)
    <2> DEFINE d(due) == [c EXCEPT !.pc = "look", !.due = due,
                                   !.limits = IdleCheck.limits,
                                   !.profile = NoProfile]
    <2>1. c.pc = "spend" /\ c.due \subseteq Kinds
        BY <1>1, <1>3 DEF ReadSpend, CheckOK, CheckType
    <2>2. PICK due \in SUBSET Kinds : Local(k, d(due))
        <3>1. OverBudget(c.user, c.limits, c.day) \subseteq Kinds
            BY DEF OverBudget, Kinds
        <3>2. \A roundedUp \in BOOLEAN :
                 c.due \cup (IF PaceHigh(c.user, c.profile, c.day, roundedUp)
                             THEN {"pace_high"} ELSE {}) \subseteq Kinds
            BY <2>1 DEF Kinds
        <3> QED
            BY <1>3, <3>1, <3>2 DEF ReadSpend
    <2>3. IdleCheck.limits \in [Categories -> Limits \cup {NoLimit}]
        BY DEF IdleCheck
    <2>4. CheckOK(d(due)) /\ c.alerts = {} /\ d(due).alerts = {}
        BY <1>1, <2>1, <2>3 DEF CheckOK, CheckType
    <2> QED
        BY <2>2, <2>4, QuietStep DEF Local
<1>4. ASSUME NEW a \in Kinds, LookUp(k, a)
      PROVE  IInv' /\ UNCHANGED <<marker, told>>
    <2> DEFINE d == [c EXCEPT !.due = c.due \ {a}]
               e == [c EXCEPT !.due = c.due \ {a}, !.pc = "insert",
                              !.kind = a]
    <2>1. c.pc = "look" /\ (Local(k, d) \/ Local(k, e))
        BY <1>4 DEF LookUp
    <2>2. /\ CheckOK(d) /\ d.alerts = c.alerts
          /\ d.user = c.user /\ d.day = c.day
        BY <1>1, <2>1 DEF CheckOK, CheckType
    <2>3. /\ CheckOK(e) /\ e.alerts = c.alerts
          /\ e.user = c.user /\ e.day = c.day
        BY <1>1, <2>1 DEF CheckOK, CheckType
    <2>4. CASE Local(k, d)
        BY <2>2, <2>4, QuietStep DEF Local
    <2>5. CASE Local(k, e)
        BY <2>3, <2>5, QuietStep DEF Local
    <2> QED
        BY <2>1, <2>4, <2>5
<1>5. CASE FinishUser(k)
    <2> DEFINE d == [c EXCEPT !.pc = "next"]
    <2>1. Local(k, d) /\ c.pc = "look" /\ c.alerts = {}
        BY <1>5 DEF FinishUser
    <2>2. CheckOK(d) /\ d.alerts = {}
        BY <1>1, <2>1 DEF CheckOK, CheckType
    <2> QED
        BY <2>1, <2>2, QuietStep DEF Local
<1>6. CASE InsertConflict(k) \/ CheckDies(k)
    <2>1. Local(k, Dead(c))
        BY <1>6 DEF InsertConflict, CheckDies
    <2> QED
        BY <1>1, <2>1, DeadIsOK, QuietStep DEF Local
<1> QED
    BY <1>2, <1>3, <1>4, <1>5, <1>6

(***************************************************************************)
(* Every step keeps the invariant and maps to a step of Announcement or to *)
(* none.                                                                   *)
(***************************************************************************)
LEMMA NextInv ==
    ASSUME IInv, [Next]_vars
    PROVE  IInv' /\ [Promise!Next]_<<marker, told>>
<1>1. CASE UNCHANGED vars
    <2>1. TablesOK' /\ UNCHANGED <<marker, told, check>>
        BY <1>1 DEF vars, IInv, TablesOK
    <2> QED
        BY <2>1, WorldStep
<1>2. ASSUME NEW k \in Checks, Insert(k)
      PROVE  IInv' /\ [Promise!Next]_<<marker, told>>
    BY <1>2, InsertInv DEF Promise!Next
<1>3. ASSUME NEW k \in Checks, NEW a \in Kinds, SendAlert(k, a)
      PROVE  IInv' /\ [Promise!Next]_<<marker, told>>
    BY <1>3, SendInv DEF Promise!Next
<1>4. CASE Next
    <2>1. CASE \E k \in Checks : \/ \E job \in Jobs : StartCheck(k, job)
                                 \/ CheckStep(k) \/ CheckDies(k)
        <3>1. PICK k \in Checks : \/ \E job \in Jobs : StartCheck(k, job)
                                  \/ CheckStep(k) \/ CheckDies(k)
            BY <2>1
        <3> QED
            BY <3>1, <1>2, <1>3, NextUserInv, ReadingInv DEF CheckStep
    <2> QED
        BY <1>4, <2>1, WorldInv DEF Next
<1> QED
    BY <1>1, <1>4

\* Every variable keeps its type, whatever the jobs interleave with.
THEOREM TypeCorrect == Spec => []TypeOK
<1>1. IInv /\ [Next]_vars => IInv'
    BY NextInv
<1> QED
    BY InitInv, <1>1, IInvImpliesTypeOK, PTL DEF Spec

\* A marker whose alert was not told is held by a job, if only a dead one:
\* no other loss of an alert is possible.
THEOREM MarkersAccounted == Spec => []MarkerAccounted
<1>1. IInv /\ [Next]_vars => IInv'
    BY NextInv
<1>2. IInv => MarkerAccounted
    BY DEF IInv
<1> QED
    BY InitInv, <1>1, <1>2, PTL DEF Spec

\* The jobs implement Announcement: each alert is claimed before it is told
\* and told at most once a month, by however many overlapping jobs.
THEOREM AtMostOnce == Spec => AnnouncedOnce
<1>1. Init => Promise!Init
    BY DEF Init, Promise!Init
<1>2. IInv /\ [Next]_vars => IInv' /\ [Promise!Next]_<<marker, told>>
    BY NextInv
<1> QED
    BY InitInv, <1>1, <1>2, PTL DEF Spec, AnnouncedOnce, Promise!Spec
=============================================================================
