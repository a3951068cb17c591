------------------------------ MODULE Readings -------------------------------
(***************************************************************************)
(* How the figures of Questions are read.  /spend, /income, the balance of *)
(* /ask and the digest each run several SELECTs and await every one.       *)
(* Under READ COMMITTED a SELECT sees what is committed at its moment:     *)
(* between two of them other handlers record rows, recategorise them, and  *)
(* midnight passes.  Windows keep the day the reader began with.           *)
(***************************************************************************)
EXTENDS Questions

CONSTANTS
    AskDays,    \* bound: the days on which a figure is asked for
    Ranges      \* the date ranges of the balances asked for

VARIABLE
    reading     \* the reader, its locals and what it has seen so far

readVars == <<today, walk, expenses, incomes, reading>>

\* Mutated form: the sum over all time is read first.
TotalFirst ==
    [spend  |-> <<"total", "week", "month", "year">>,
     income |-> <<"month", "lastMonth", "year", "total">>,
     net    |-> <<"income", "spend", "moved">>,
     digest |-> <<"total", "week", "month", "year", "categories", "biggest">>]

\* What each reader selects, in order.
Statements ==
    [spend  |-> <<"week", "month", "year", "total">>,
     income |-> <<"month", "lastMonth", "year", "total">>,
     net    |-> <<"income", "spend", "moved">>,
     digest |-> <<"week", "month", "year", "total", "categories", "biggest">>]

\* One SELECT of reader r, on the tables as they are.
Select(r, figure) ==
    CASE r.kind = "income" -> IncomeSummary(r.day)[figure]
      [] r.kind = "net"    -> Net(r.window)[figure]
      [] r.kind \in {"spend", "digest"}
            /\ figure \notin {"categories", "biggest"} ->
            SpendSummary(r.day)[figure]
      [] r.kind = "digest" /\ figure = "categories" -> Categories(r.day)
      [] r.kind = "digest" /\ figure = "biggest" -> Biggest(WeekRows(r.day))

Idle == [kind |-> "none"]

\* rows and meanwhile are no variables of the code: how many expenses there
\* were at the start, and what has happened to expenses since.
\* The window is a balance's alone.
Begin(kind, range) ==
    [kind |-> kind, day |-> today, window |-> Window(range, today),
     read |-> 0, seen |-> [figure \in {} |-> 0],
     rows |-> Len(expenses), meanwhile |-> "nothing"]

StartReading ==
    /\ reading = Idle
    /\ today \in AskDays
    /\ \/ \E kind \in {"spend", "income", "digest"} :
             reading' = Begin(kind, Period("today"))
       \/ \E range \in Ranges : reading' = Begin("net", range)
    /\ UNCHANGED vars

Finished(kind) ==
    reading.kind = kind /\ reading.read = Len(Statements[kind])

Read ==
    /\ reading # Idle
    /\ reading.read < Len(Statements[reading.kind])
    /\ LET figure == Statements[reading.kind][reading.read + 1]
           seen   == [f \in DOMAIN reading.seen \cup {figure} |->
                         IF f = figure THEN Select(reading, figure)
                         ELSE reading.seen[f]]
       IN  reading' = [reading EXCEPT !.read = @ + 1, !.seen = seen]
    /\ UNCHANGED vars

\* The figures are sent.
Answer ==
    /\ \E kind \in DOMAIN Statements : Finished(kind)
    /\ reading' = Idle
    /\ UNCHANGED vars

\* What a reader that is under way has beside it.
Meanwhile(what) ==
    reading' = IF reading = Idle \/ reading.meanwhile = "changes" THEN reading
               ELSE [reading EXCEPT !.meanwhile = what]

\* Bound: a reader sees one midnight at most.
Midnight ==
    /\ reading # Idle => today = reading.day
    /\ Tick
    /\ UNCHANGED reading

RowAdded    == AddExpense /\ Meanwhile("rows")
IncomeAdded == RecordIncome /\ UNCHANGED reading

\* Bound: a reader sees one row recategorised at most.
RowMoved ==
    /\ reading # Idle => reading.meanwhile # "changes"
    /\ Recategorize
    /\ Meanwhile("changes")

ReadInit == Init /\ reading = Idle

ReadNext ==
    \/ StartReading \/ Read \/ Answer
    \/ Midnight \/ RowAdded \/ RowMoved \/ IncomeAdded

ReadSpec == ReadInit /\ [][ReadNext]_readVars

-----------------------------------------------------------------------------
(***************************************************************************)
(* Properties.                                                             *)
(***************************************************************************)
\* The digest hangs together.  With nothing written between its SELECTs, its
\* categories make up the week, the top one has at least the largest row, and
\* both are there or neither is.  A row recorded in between may be missing
\* from the week, or be the largest without its category: no more than that.
\* Only a row recategorised in between breaks these.
DigestConsistent ==
    LET g   == reading.seen
        top == Top(g.categories)
    IN  Finished("digest") =>
           /\ reading.meanwhile = "nothing" =>
                 /\ SumFunction(g.categories) = g.week
                 /\ top = {} <=> g.biggest = {}
                 /\ \A c \in top, e \in g.biggest :
                       expenses[e].amount <= g.categories[c]
           /\ reading.meanwhile # "changes" =>
                 /\ g.week <= SumFunction(g.categories)
                 /\ top # {} => g.biggest # {}

\* The figures of one answer fit each other whatever is recorded while they
\* are read: the wider sums are read after the narrower, and a balance counts
\* each row that was there once, and none that is not.  This is lost when a
\* row is recategorised in between.
FiguresFit ==
    LET s == reading.seen
        E == ExpensesIn(reading.window)
    IN  /\ /\ Finished("spend") \/ Finished("digest")
           /\ reading.meanwhile # "changes"
           => s.week <= s.total /\ s.month <= s.year /\ s.year <= s.total
        /\ Finished("income") =>
              /\ s.month <= s.year /\ s.year <= s.total
              /\ s.month + s.lastMonth <= s.total
        /\ Finished("net") /\ reading.meanwhile # "changes" =>
              /\ Spent({e \in E : e <= reading.rows}) <= s.spend + s.moved
              /\ s.spend + s.moved <= Spent(E)
=============================================================================
