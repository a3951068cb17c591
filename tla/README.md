# PocketAuditor in TLA+

PocketAuditor is a Telegram bot (FastAPI webhook, async SQLAlchemy over
PostgreSQL, a language model behind a provider interface) that turns forwarded
bank SMS and receipt photos into a ledger of expenses. This directory models
its core in TLA+, checks small instances with TLC and proves the main
invariants for every instance with TLAPS. File names such as `agent.py` are
relative to `app/`.

## 1. The system and its parts

| Component | State it keeps | Operations | Hard part |
|---|---|---|---|
| Ingestion (`ingestion.py`, `telegram/handlers/messages.py`) | `transactions`, `incomes` | SMS -> pending transaction or income; photo -> pending transaction | redelivered messages; unreadable photos |
| Reconcile agent (`agent.py`) | per pass: the batch, candidates, decision, questions; writes `expenses`, `transactions.status`, `reconciliation_runs` | perceive, recall, decide, guard, act, commit per transaction | everything it writes was read before a model call |
| Expense services (`expenses.py`) | `expenses`, run and transaction status | `/log`, answer to a question, recategorise | double taps, row locks, rollback |
| Merchant memory (`merchant_memory.py`) | `merchant_categories` | recall, remember | two first answers race on the unique index |
| Callbacks and keyboards (`telegram/handlers/callbacks.py`, `telegram/keyboards.py`) | questions in the chat | send question, tap | sent only after the batch is committed |
| Cron jobs, endpoints (`cron.py`, `routes.py`) | none | five all-users jobs; every webhook call runs its handler concurrently | overlap with commands; one exception ends the loop |
| Budgets (`budgets.py`) | `budgets`, `budget_alerts_sent` | `/setbudget`, `/budgets`, daily alerts | recorded before sent; month bound |
| Monthly audit, mid-month alerts (`audit.py`) | `audit_runs`, `audit_alerts_sent` | once-a-month report, alerts | check, model call, insert, send |
| Income, salary (`income.py`, `salary.py`) | `incomes`, `salary_profiles` | record, sum, upsert | concurrent upserts |
| Parser (`parser.py`) | none | regular expressions first, model when unsure | which result wins |
| Questions in natural language (`query.py`) | none | date ranges, net query | month and year boundaries; three SELECTs |
| Reports, digest (`reports.py`, `digest.py`) | none | sums over a window | window bounds; four and six SELECTs |
| Providers (`llm/*`, `schemas.py`) | none | five structured calls, retries | which errors become `LLMDecisionError` |
| Engine (`db.py`) | connection pool | sessions | a pass holds a connection across model calls |
| Users (`telegram/handlers/_shared.py`) | `users` | get or create | two first messages |
| Start-up (`main.py`, `config.py`, `telegram/bot.py`, `logging_config.py`), migrations, scripts | none | wiring | - |

How they interact: handlers and cron jobs are coroutines of one event loop.
They share nothing but the database (READ COMMITTED, no row versions, no
`SELECT ... FOR UPDATE`); between two awaits of one handler any other may run.
`routes.py` awaits `process_update` inside each HTTP request, so two updates of
one chat are handled concurrently, and cron jobs run as background tasks
beside them. The bot answers through Telegram after its database session is
closed.

What makes each part correct, in one line each:

- **Reconcile flow**: a bank transaction ends up backed by exactly one expense;
  nothing is booked without sufficient reason; what is uncertain is asked; a
  crash loses nothing silently but the questions not yet sent.
- **Guards**: whatever the model answers, only a link to an offered candidate
  or a log under a canonical category passes unasked.
- **Budgets and alerts**: at most one alert of a kind per month, grounded in
  the month's own spend.
- **Audit**: one report per month, its figures those of the stored run.
- **Income, salary, users**: one row per user and kind.
- **Parser, query, reports, snapshot**: the pure results their docs state; the
  figures of one answer fit each other although they are read one by one.
- **Pool**: no handler waits for ever for a connection.

## 2. Modules

| Module | Role |
|---|---|
| `DecisionGuards` | the pure part of `agent.py`: candidate window and shortlist, duplicate lookup, the guard chain |
| `Reconcile` | one user's ledger and every writer of it, as a state machine |
| `SpendLedger` | abstract: a transaction is settled once, backed by one expense of its own |
| `MCReconcile` | the instances for TLC |
| `ReconcileProofs`, `HabitsProofs`, `LedgerProofs` | the guard chain, the invariants of `Reconcile`, the theorems from them and the refinement, each module on top of the one before |
| `Announcement` | abstract: a thing worth telling is claimed first, told after that, and never told twice |
| `Alerts` | the budget alerts and the mid-month salary alerts with their jobs |
| `MCAlerts`, `AlertsProofs` | its instance for TLC; its invariant and theorems |
| `AuditSnapshot` | the figures of an audit: sums, rate, median, outliers, shortlist |
| `MonthlyAudit` | `run_monthly_audit` with `/audit`, the monthly job and the questions |
| `MCAudit`, `MonthlyAuditProofs` | its instances for TLC; its invariant and theorems |
| `SmsParser` | `parse_sms`: which fields the expressions find, how sure they are, what the model fills in |
| `Providers` | what each provider makes of an answer, a bad one, none, or an error of its client |
| `FrontDesk` | every handler between an update and the tables: users, ingestion, settings, model calls, the connection pool |
| `MCFrontDesk`, `FrontDeskProofs` | its instances for TLC; its invariant and theorems |
| `Calendar` | the part of `datetime.date` the code computes with |
| `Questions` | `/ask`, `/spend`, `/income` and the digest: windows and sums over the tables as they stand |
| `Readings` | the same figures read by one SELECT after the other, with writers in between |
| `MCQuestions`, `QuestionsProofs` | its instance for TLC; its invariant and theorems |
| `FigureTheorems` | lemmas on sums, on the order of a finite set and on ranks, used by `MonthlyAuditProofs` and `QuestionsProofs` |

`FrontDesk` extends `SmsParser` and `Providers`; `Readings` extends `Questions`,
which extends `Calendar`; `MonthlyAudit` extends `AuditSnapshot`; `Reconcile` extends
`DecisionGuards`. `Alerts` and `MonthlyAudit` are both shown to implement
`Announcement`, `Reconcile` to implement `SpendLedger`. What two state machines
share is modelled in detail in one of them: a pass is one transaction with its
sessions in `FrontDesk` and everything else in `Reconcile`; the upserts of
settings are cut at their awaits in `FrontDesk` and one step in `Alerts`, which
is about what the jobs read.

### DecisionGuards

Texts are abstract. What `strip`, `lower`, `removesuffix("s")` and
`" ".join(split())` do to them is given by constant functions (`FoldKey`,
`StoredFold`, `LookupFold`, `NormalKey`), because the code folds the same
merchant in three different ways: the database lower-cases the stored one, the
duplicate lookup strips and lower-cases, the memory also collapses inner
blanks. Amounts are whole paise (`Numeric(10,2)`), dates day numbers. The
amount window is stated without division:
`100 * |e - t| <= TolerancePct * t`. A shortlist is any set of `MaxCandidates`
rows that no left-out row is strictly closer than; a stable sort leaves ties in
the order the database returned, which is arbitrary.

### Reconcile

| Variable | Code |
|---|---|
| `txn` | table `transactions`: status and what ingestion extracted |
| `expense` | table `expenses`, rows keyed by what creates them: a `/log`, an auto_log of a pass, a tap |
| `run` | table `reconciliation_runs`, at most one row per pass and transaction |
| `memory` | table `merchant_categories` |
| `delivered` | the questions that reached the chat |
| `pass` | the locals of each `reconcile_user` invocation and its caller |
| `tap` | the locals of each `handle_category_callback` |

| Actions | Code |
|---|---|
| `IngestSms`, `IngestPhoto` | `ingest_sms_transaction`, `ingest_photo_transaction`, the outcomes that create a row |
| `LogManual`, `Recategorize` | `log_manual_expense`, `recategorize_expense` |
| `StartPass` | the single select of the pending transactions |
| `Perceive` | `_find_candidates` and `recall_merchant_category` for the next transaction |
| `DecideFromMemory`, `DecideByModel`, `SkipTxn` | the two branches and the `LLMDecisionError` handler; the model may answer anything its schema allows |
| `AutoLink`, `AutoLog`, `AskUser` | the three branches of `_act` with its commit |
| `FinishBatch`, `SendQuestion`, `SendSummary` | the caller (`handle_reconcile_command`, `reconcile_all_users`) |
| `AnswerRead`, `AnswerFlush`, `AnswerCommit`, `AnswerConflict` | `resolve_ask_user_answer`, cut at its awaits |
| `PassDies`, `AnswerDies` | an escaping exception or the end of the process: commits stay, locals are lost |

Two details of the database are modelled because they decide what can happen.
The lookup of the memory flushes the pending updates of an answer, so from
there to its commit the answer holds the row locks of its run and of the
transaction it flips; others wait (`RunLocked`, `TxnLocked`). And the unique
index on (user, merchant) makes the second of two first answers for a merchant
fail as a whole (`AnswerConflict`).

`Discipline` says which habits the people and the cron are known to keep:
`one_pass` (no two passes of a user overlap), `one_tap` (a tap comes when the
one before is handled), `answers_first` (a pass starts when no delivered
question is open, nobody taps during one). The code enforces none of them;
each stronger promise is proved under exactly the habits it needs and checked
under those of its run, and two violated claims below show what happens
without.

A redelivered or forwarded-twice SMS is a second `IngestSms` of the same
message; a repeated tap or a webhook call that Telegram retries is a second
`AnswerRead` of the same run.

### Alerts

The two daily jobs are one state machine: both loop over the users, look up a
marker row, insert it, commit, and send when all alerts of a user are
recorded. They differ in what is due and in when they commit.

| Variable | Code |
|---|---|
| `today` | `date.today()` |
| `expense`, `income`, `budget`, `profile` | `expenses`, `incomes`, `budgets`, `salary_profiles` |
| `marker` | `budget_alerts_sent` and `audit_alerts_sent`, by what they are unique for |
| `told` | how often each alert reached the chat |
| `check` | the locals of each job, with the users left |

| Actions | Code |
|---|---|
| `Tick`, `AddExpense`, `Recategorize`, `RecordIncome`, `SetBudget`, `SetSalary` | time and the writers of the tables that are read |
| `StartCheck`, `FinishUser`, `FinishCheck` | the loops of `cron.py:45-56` and `80-94` |
| `ReadBudgets`, `ReadProfile`, `ReadIncomes`, `ReadSpend` | the reads of `check_budget_alerts` and `check_midmonth_alerts`, and what they find due |
| `LookUp`, `Insert`, `InsertConflict` | the marker: found, inserted and committed, or refused by the unique index |
| `SendAlert`, `CheckDies` | the messages, an exception or the end of the process |

`Decimal` divides with 28 digits, so a spending pace that is exactly the
ceiling may come out above it; there `PaceHigh` takes both outcomes.

### AuditSnapshot and MonthlyAudit

`AuditSnapshot` is `build_snapshot` over a table and the ids of one user's rows
of a month. `_median` is doubled to stay whole; `savings_rate` counts hundredths
of a percent, rounded half to even as `quantize` does.

| Variable | Code |
|---|---|
| `month` | the month of `date.today()` |
| `expense`, `income` | `expenses`, `incomes` |
| `auditRun` | `audit_runs`: from the audited (user, month) to the stored figures |
| `told`, `shown` | how often each report reached the chat, and all figures shown for it |
| `asked` | the questions in the chat |
| `audit` | the locals of each `/audit` or monthly job |

| Actions | Code |
|---|---|
| `NextMonth`, `AddExpense`, `RecordIncome` | time; rows, also late ones |
| `Recategorize` | `handle_audit_category_callback`; the buttons stay |
| `StartCron`, `StartCommand`, `FinishUser`, `FinishAudit` | the two callers |
| `FindRun` | the lookup; a recap for `/audit`, the next user for the job |
| `ReadIncomes`, `ReadExpenses` | `_load_month` and the snapshot; a month without data ends here |
| `AskModel` | `audit_finances` and the guard; the model flags any ids, or the call fails |
| `Insert`, `InsertFails` | the row; refused when another audit was first, or the rate is too wide |
| `SendReport`, `SendQuestion`, `SendRecap`, `AuditDies` | the messages, an escaping exception |

Left out: the lines of the report about budgets, categories and salary, and the
model's prose. Nothing is decided by them.

### SmsParser and Providers

A text is the record of what each regular expression finds in it, so every
decision of `parse_sms` is kept and no string is matched: the weights and the
threshold, a date that is matched and does not exist (which ends the search, a
second pattern is not tried), the counterparty on the side the direction says,
the defaults (a debit, today), the check of the model's answer in code.

`Outcome` is the whole of a structured call: an answer, `LLMDecisionError`,
another attempt (Ollama only, once), or an exception that no handler expects.
The five calls of a provider are alike in this. Every provider lets something
escape: Claude the errors of its client and a response without a text block,
Gemini the errors of its client, and Ollama a response of status 200 that is no
JSON or has no message or content (`ollama.py:81` stands behind the handler of
`httpx.HTTPError` and before that of the validation).

### FrontDesk

| Variable | Code |
|---|---|
| `user` | table `users`, by chat; the chat id is unique |
| `row` | the row a handler inserted into `transactions`, `incomes` or `expenses` |
| `profile`, `budget` | `salary_profiles`, `budgets` |
| `handler` | the locals of each update's handler: where it is, its request, its user, whether its session holds a connection, the attempts of the model |
| `lent` | connections that handlers of other chats keep all along |

| Actions | Code |
|---|---|
| `Arrive` | `routes.py:52-67`; what the handler refuses before it opens a session is refused here |
| `FindUser`, `CreateUser` | `_get_or_create_user`: the lookup, then the insert with its commit or the unique index |
| `CallModel` | one attempt of `parse_transaction`, `extract_receipt`, `parse_query` or `decide_match`, and what the caller does with its outcome |
| `Store` | `ingest_sms_transaction`, `ingest_photo_transaction`, `record_income`, `log_manual_expense` |
| `ReadSetting`, `WriteProfile`, `WriteBudget` | the two upserts: select, then commit of the columns that differ from what was read |
| `Query` | the commands that only read |
| `Perceive`, `Act`, `SendQuestion`, `RecordQuestion` | a pass as a user of sessions: the question is sent after its session is closed, and recorded in one of its own |
| `Reply`, `HandlerDies` | the answer to the chat; the end of the process, the pool's timeout, an error of the database or of Telegram |

What a handler raises by itself is in the actions, not in `HandlerDies`. A
command whose number is NaN dies where the code compares it, outside the `try`
that parsed it (`Incomparable`: `/log`, `/setbudget`, `/salary`; in `/salary`
the target is compared only when the expected salary passed). An amount beyond
`Widest`, the largest that `Numeric(10, 2)` holds, dies at its commit
(`TooWide`), from a command, from what the expressions found in an SMS, or from
what the model extracted.

A session checks its connection out at the first statement and returns it at
the commit or the end (`db.py`). A handler whose user is known therefore waits
for the model with a connection in its hands; one that has just created the
user has committed and waits without. `alone` is a history variable: whether
another update of the chat was handled at the same time.

The outcome "not_implemented" of a photo (`ingestion.py`) is left out: all
three providers implement `extract_receipt`. In polling mode updates are
handled one after the other and the races of one chat cannot happen; they need
the webhook (`routes.py`), which is how the project's README deploys it.

### Calendar, Questions and Readings

| Variable | Code |
|---|---|
| `today` | `date.today()` |
| `expenses`, `incomes` | the rows of one user, in the order of their insertion |
| `walk` | the days so far, numbered by counting: no variable of the code |
| `reading` | the locals of the command or job that reads: its day, its window, the figures it has |

| Actions | Code |
|---|---|
| `Tick`, `Midnight` | a day passes |
| `AddExpense`, `RecordIncome`, `RowAdded`, `IncomeAdded` | a row, dated that day, the day before or the day after |
| `Recategorize`, `RowMoved` | `recategorize_expense` |
| `StartReading`, `Read`, `Answer` | `/spend`, `/income`, a balance of `/ask` or a digest begins, runs its next SELECT, is sent |

`Window` is `resolve_date_range`, `Net` and `Result` are `_run_net_query` and
`run_query`, `SpendSummary`, `IncomeSummary` the functions of those names,
`Categories` and `Biggest` the rest of `build_weekly_digest`. In `Questions` they
are operators over one state of the tables, and `MoneyCountedOnce` and
`SummariesAgree` compare figures of one state: they say that the windows and
filters are right, not that two answers agree which were computed at different
moments.

`Readings` is about those moments. `get_spend_summary` awaits four SELECTs,
`get_income_summary` four, the net query three, the digest six, and under READ
COMMITTED each sees what is committed when it runs; `Statements` has their
order. `run_query` without "net" is a single SELECT. The figures of one answer
may therefore belong to different tables, and the code lets that show:

- a row recorded between the fifth and the sixth SELECT of the digest can be its
  biggest expense without there being a top category;
- one recorded after the summary is in the categories and not in the week, which
  they then exceed;
- a row recategorised between the second and the third SELECT of a balance is
  counted in both sums or in neither.

`DigestConsistent` and `FiguresFit` say what is left: with nothing written in
between the digest is consistent; with rows recorded in between the figures err
in one direction only, because narrow sums are read before wide ones; and a
balance counts every row that was there once, unless a row was recategorised in
between. `meanwhile` and `rows` are history variables for that.

`walk` knows nothing of ordinals or weekdays: it counts days and weeks from a
first day whose weekday was read off a calendar, and is what the windows are
compared with. That the weekday read off is the one the day number gives is an
assumption on `Starts`, which TLC evaluates; a walk stays within `Years`, and the
year before its first day is one of them, because last month may lie there.

## 3. Runs

Every run has `CHECK_DEADLOCK FALSE`: people may stop sending messages and the
bounded numbers of passes, taps and updates run out, so the system may rightly
stop.

| Run | Specification | States | Checks |
|---|---|---|---|
| `overlap` | no habit, fair | 142,586 | `ProcessedIffResolved`, `LinkedIsProcessed`, `QuestionNotLost`, `BatchAccounted`, `SettledIsFinal`; `HandlersEnd` |
| `one_pass` | habits one_pass, one_tap | 450,108 | `UnlinkedIsManual`, `ProcessedIsBacked`, `OneAutomaticDecision`, `NoAutoDuplicates`, `LedgerMatchesRuns`, `LinkIsPermanent` |
| `patient` | all three habits | 538,310 | `TypeOK`, `PhotoAutoLogIsTaught`, `CandidateIsNotDuplicate`; `ExactlyOnce`: `Reconcile` implements `SpendLedger` |
| `double_tap` | no habit | - | violated: `QuestionAnsweredOnce` |
| `two_passes` | no habit | - | violated: `LinkIsPermanent` |
| `alerts` | fair | 213,224 | `TypeOK`, `MarkerAccounted`; `AnnouncedOnce`: `Alerts` implements `Announcement`; `OverspendIsAnnounced` |
| `audit` | any overlap | 483,428 | `TypeOK`, `ReportAccounted`, `OneSetOfFigures`, `AskedIsOwn`; `ReportedOnce`: `MonthlyAudit` implements `Announcement`; `RateIsNearest`, `MedianIsMiddle`, `SavingsDoNotCount` about the figures |
| `audit_rate` | any overlap | - | violated: `RateFits` |
| `desk` | Ollama, fair | 249,396 | `TypeOK`, `NothingIsOrphaned`, `PoolBalanced`, `ReplyTellsTheTable`, `BadTextKeepsAmount`, `AloneFailsOnInput`; `HandlersEnd` |
| `desk_claude` | Claude | - | violated: `FailedModelKeepsAmount` |
| `desk_salary` | Ollama | - | violated: `TargetWithinExpected` |
| `questions` | a reader and writers | 166,227 | `RangesMatchCalendar`, `MoneyCountedOnce`, `SummariesAgree`, `DigestConsistent`, `FiguresFit` |

What the violated claims show:

- `double_tap`: two taps read the open run before either commits; one question
  books the charge twice (`expenses.py:48-50` calls the race expected and
  handled).
- `two_passes`: `/reconcile` overlapping the cron links one `/log` row to two
  transactions, and the first is left processed with no expense
  (`agent.py:91-93`).
- `audit_rate`: `savings_rate` has no bound and its column holds at most
  99999.99 (`models.py:193-196`). With one small credit in a month, spending a
  thousand times as much makes every audit of that month fail at its insert,
  and ends the monthly job for the users after that one.
- `desk_claude`: an error of the Claude client, or an answer without a text
  block, is no `LLMDecisionError`; it leaves `parse_sms`, whose comment promises
  the fallback on what the expressions found (`parser.py:225-228`), and the SMS
  is stored nowhere. Gemini lets errors of its client out in the same way, and
  Ollama a response without JSON, message or content (`ollama.py:81`), next to
  a comment that says callers only ever have to handle `LLMDecisionError`
  (`ollama.py:77-79`): this is what `BadTextKeepsAmount` excepts in `desk`.
- `desk_salary`: two `/salary` commands that both read before either commits
  each write the columns they change; the row ends with the expected salary of
  one and a savings target of the other that lies beyond it, which either
  command alone would have refused (`commands.py:153`).

Other places where the code and its words part, met while modelling. The models
do what the code does there, and nothing more is promised of it:

- A later pass takes a transaction whose question is open and settles it; the
  answer is then still accepted (`agent.py:314`, against the comment at 282).
  Under one_pass and one_tap the ledger therefore matches the *resolved runs*,
  not the transactions: `LedgerMatchesRuns`, in `one_pass`, where this happens.
- Of two SMS of one charge the first may link to a `/log` row, which has no
  merchant; the duplicate lookup does not see it and the second is logged
  without a question (`agent.py:119-135`).
- A budget alert counts every expense dated this month *or later*
  (`budgets.py:83`), where the project's README says only current-month spend.
  `/spend`, `/income` and the digest have no upper bound either
  (`reports.py:47`), the ranges of `/ask` have: a row dated ahead of today is in
  "this month" of the former and not of the latter. `SummariesAgree` says they
  agree as long as no row is.
- `projected = mtd_spend / today.day * days_in_month` may exceed a ceiling it
  equals: 10 spent by the 7th of 28 days is projected to a little more than 40
  (`audit.py:555`).
- With a payday near 28 and two days of grace a missing February salary is
  never late (`audit.py:540`): the month ends first.
- Two overlapping audits both call the model; only the second insert fails
  (`audit.py:386-389` says a re-run makes no second call).
- The figures of a digest or a balance are read by several SELECTs and may belong
  to different moments: see Readings above.
- `/log NaN` and amounts too wide for their column end in an exception
  (`commands.py:243`): `AloneFailsOnInput` says that with a chat to itself a
  handler ends by an exception of its own only for such a number, or for a
  response its provider lets through.
- Credits have no duplicate guard: an SMS of income that arrives twice is
  counted twice (`ingestion.py:51`).
- Of two first messages of a chat the second insert of the user fails and takes
  its message with it (`_shared.py:16-22`); `NothingIsOrphaned` says that at
  least nothing is left behind.

**Bounds.** Two transactions, two passes and two taps are the least with which
a pass overlaps a pass on the same batch, a tap races a tap on one run, a tap
races a pass on one transaction, and a re-asked question is answered after the
transaction is settled. In `overlap` there is no `/log` row, which keeps the
liveness check small: linking under overlap is what `two_passes` and the
theorems are about. `one_pass` has two `/log` rows for the passes to fight for;
with one merchant all conflicts fall on it. Its second pass may settle what the
first asked about, and the answer come after that. It keeps `one_tap`, which
`LedgerMatchesRuns` needs; that its other properties hold with overlapping taps
as well is proved. `patient` varies the data instead:
photos, captions, padded and blank merchants, two labels, both sides of every
window. Passes and taps are symmetric (no action tells two of them apart);
symmetry is used only where no liveness is checked.

`alerts` has two jobs, either kind each, over two days a month apart in months
of 28 days, with the thresholds of the code. Of its two users one has nothing
set up, so that he can keep the other waiting; one expense, one income, one
budget and one profile are enough for an alert of either kind, a late salary
that arrives, two jobs racing for one marker, and a new month.

`audit` has two audits (a command and a job, or two of one kind), three months
of which two get audited, two users, two rows and one credit. With two rows the
thresholds are scaled so that they matter: an outlier is any row at the median,
a shortlist holds one. The amounts reach a negative rate, a rounded one and one
that does not fit.

`desk` has two handlers, which is what a race of one chat takes, two chats, a
requests of every kind, some of them refused, extractions and receipts on
either side of every check, and a pool of two connections of which
other chats may keep one, so that handlers do wait. `desk_salary` needs a third
handler that creates the profile the other two race on.

`questions` walks 32 days from each of five first days: from the first of a month
into the next over a turn of the year, and over the end of February in a common
year, a leap year and 2100, which divides by four and has no leap day; and from
the last Monday of 2023 into the new year, which is the walk with readers. Up to
two expenses (Food, Rent) and one income are dated about the ends of those
months and the Sundays and Mondays beside them, and rows are
recategorised to Savings. One reader at a time begins on the last Sunday of
2023, so that a midnight in the middle of its SELECTs ends a week, a month and a
year; a balance is asked of that month. A reader sees at most one midnight and
one row recategorised. Readers write nothing, so more of them would show nothing
new; other days and ranges are for the proofs.

**Fairness.** `FairSpec` asks weak fairness of the steps of a handler that has
started: the event loop runs every ready coroutine, and the database, Telegram
and the model answer or time out. Starting a pass or a job, tapping, sending an
update and dying are never assumed. In `FrontDesk` a handler that waits for a
connection is served when one is free; no handler waits for one while it holds
one, which is why `HandlersEnd` holds without the pool's timeout.

## 4. Proofs

The theorems hold for any numbers of transactions, passes, taps, `/log` rows,
users, chats, updates and connections, and for any messages and answers of the
model. They rest on the named assumptions alone (`GuardAssumption`,
`ReconcileAssumption`, `AlertAssumption`, `AuditAssumption`,
`FrontDeskAssumption`, `ParserAssumption`, `SnapshotAssumption`,
`CalendarAssumption`, `QuestionsAssumption`: constants have their types, labels fold to distinct keys,
stand-ins for "none" are none, a table has finitely many rows, a first day
comes with its weekday and with the year before it), and on a habit only where
the statement names one.

| Theorem | Property | Under |
|---|---|---|
| `ReconcileProofs!GuardChainSound` | what leaves the guard chain unasked | |
| `ReconcileProofs!TypeCorrect` | `TypeOK` | |
| `ReconcileProofs!StatusAgreement` | `ProcessedIffResolved` | |
| `ReconcileProofs!LinkAgreement` | `LinkedIsProcessed` | |
| `ReconcileProofs!UnlinkedRows` | `UnlinkedIsManual` | |
| `ReconcileProofs!CandidatesAreNoDuplicates` | `CandidateIsNotDuplicate` | |
| `ReconcileProofs!NothingIsTakenBack` | `SettledIsFinal` | |
| `HabitsProofs!QuestionsKept` | `QuestionNotLost` | |
| `HabitsProofs!BatchesAccounted` | `BatchAccounted` | |
| `LedgerProofs!LinksArePermanent` | `LinkIsPermanent` | one_pass |
| `LedgerProofs!ProcessedIsInTheLedger` | `ProcessedIsBacked` | one_pass |
| `LedgerProofs!OneDecides` | `OneAutomaticDecision` | one_pass |
| `LedgerProofs!LedgerAndTrailAgree` | `LedgerMatchesRuns` | one_pass, one_tap |
| `LedgerProofs!PhotosAreTaught` | `PhotoAutoLogIsTaught` | |
| `LedgerProofs!NoChargeTwice` | `NoAutoDuplicates` | one_pass, `FoldsAgree` |
| `LedgerProofs!EachIsSettledOnce` | `ExactlyOnce` | one_pass, one_tap, answers_first |
| `AlertsProofs!TypeCorrect` | `TypeOK` | |
| `AlertsProofs!MarkersAccounted` | `MarkerAccounted` | |
| `AlertsProofs!AtMostOnce` | `AnnouncedOnce` | |
| `MonthlyAuditProofs!ReportsAccounted` | `ReportAccounted` | |
| `MonthlyAuditProofs!ReportAtMostOnce` | `ReportedOnce` | |
| `MonthlyAuditProofs!OneSetShown` | `OneSetOfFigures` | |
| `MonthlyAuditProofs!QuestionsAreOwn` | `AskedIsOwn` | |
| `MonthlyAuditProofs!TypeCorrect` | `TypeOK` | |
| `MonthlyAuditProofs!RatesAreNearest` | `RateIsNearest` | |
| `MonthlyAuditProofs!MedianIsTheMiddle` | `MedianIsMiddle` | |
| `MonthlyAuditProofs!SavingsAreSetAside` | `SavingsDoNotCount` | |
| `FrontDeskProofs!TypeCorrect` | `TypeOK` | |
| `FrontDeskProofs!OwnersExist` | `NothingIsOrphaned` | |
| `FrontDeskProofs!ConnectionsAreGivenBack` | `PoolBalanced` | |
| `FrontDeskProofs!RepliesAreTrue` | `ReplyTellsTheTable` | |
| `FrontDeskProofs!AloneIsSafe` | `AloneFailsOnInput` | |
| `FrontDeskProofs!AmountIsKept` | `BadTextKeepsAmount` | Ollama |
| `QuestionsProofs!RangesAreTheCalendars` | `RangesMatchCalendar` | |
| `QuestionsProofs!MoneyIsCountedOnce` | `MoneyCountedOnce` | |
| `QuestionsProofs!SummariesTellOneStory` | `SummariesAgree` | |
| `QuestionsProofs!DigestHangsTogether` | `DigestConsistent` | |
| `QuestionsProofs!FiguresFitTogether` | `FiguresFit` | |

The arguments, module by module.

`ReconcileProofs` begins with the guards: `NormalizeRange` and `NormalizeLabel` say what
`normalize_category` returns, `IsDecision` that the chain keeps the shape of a
decision, `GuardChainSound` that what leaves the chain as auto_link or auto_log
is confident, no duplicate, and links to an offered row or logs under a
canonical category.

Then the tables: the invariants are not inductive by themselves. The
strengthening `IInv` relates the locals of a handler to the tables it read them
from: a pass in flight holds a transaction that exists and candidates that were
and still are merchant-less `/log` rows, and a decision that passed the chain; a
tap in flight belongs to a run that exists; every run belongs to a transaction
that exists.

`HabitsProofs` adds what a pass owes: `BatchInv` accounts for every transaction
it took and every question it asked. Then `PassInv`, under one_pass: what a
running pass holds is still true. Its candidates are unlinked, and no pass has
settled by itself what it has yet to work through, whatever taps do beside it;
row keys are used once.

`LedgerProofs` compares steps: with one pass at a time a step settles one run
by one expense that had no transaction before, or it settles nothing. From this
follow the links, the backing, the single decision and, when answers do not
overlap either, the counts of ledger and trail. `TaughtInv` follows a category
of a photo from the memory through the pass to the row. `ChargeInv` carries the
verdict of the duplicate guard from the moment it was read to the commit: only
another pass could make it stale. `FoldsAgree` (the database's folding of a
stored merchant and the lookup's folding of a new one give the same text) is a
real condition: `lower()` keeps the blanks around a stored merchant that
`strip()` takes off the new one, so two SMS with a padded merchant do not meet.

`EachIsSettledOnce` is the refinement of `SpendLedger`. It needs `CalmInv` on top
of the invariants before: while a pass runs no tap is under way and only its own
questions are open, what it has yet to work through is pending, and so is every
transaction an open question in the chat is about.
The commit of a pass or of a tap is then the one step of the abstract ledger
that settles this transaction; every other step leaves status and backing
alone. `CalmInv` was checked on the `patient` instance before it was proved.

`AlertsProofs`: the invariant says that what a job holds to send has its marker
and was not told, and that no alert is held by two jobs (`HeldOK`, `Apart`).
Inserting a marker is then a `Claim` of `Announcement`, sending a `Tell`,
everything else a stutter.

`MonthlyAuditProofs`: the invariant ties each audit's locals to the tables: the
rows it may ask about are its user's and month's (no step changes the owner or
the month of a row), and from its insert on it holds the figures that are
stored. Nothing is assumed of the figures for this. `Typing` adds what the
columns hold. The figures come last: `HalfEvenNearest` bounds the rounding by
half a unit on either side, `MedianByRank` shows the sorted middle to be the
one found by counting, and since counting sees only the amounts, the median
of the spending is the same before and after a row of savings, and with it the
outliers; the sums are the same because they are sums over the same rows.

`FigureTheorems`: the sums of the models are folds, whose value is a chosen
solution of a recursive equation over sets. `SolutionExists` and
`SolutionUnique` pin it down, `SumWithout` frees it from the order in which
elements are taken, and the rest (a union, a part, groups that make up a whole,
one number for another) follows. `SortedExists` puts any finite set in order,
`Ranks` counts what is at most, at least, less and more than its k-th value.
The library's induction theorems take an operator as a parameter and cannot be
cited; induction is on a set instead: among the subsets of a finite set that
fail, if there are any, one is minimal (`MinimalSubset`, from the set of their
sizes).

`QuestionsProofs`: `WalkOK` is the invariant, and it is about the calendar. Each
day of the walk is one day after the one before, and its weekday and its counted
week are those that its ordinal gives. Underneath are
the lemmas on `Ordinal`: years and months begin where the ones before them end,
also at a leap day, so that every day number has one date and months are
intervals. A named range is then an interval of day numbers on both sides. For
the sums, a period that is cut is two disjoint sets of rows (`SumSplit`) and the
categories of a week are its groups (`SumOfGroups`).

The reader has an invariant of its own, `ReaderOK`. What it has seen follows its
statements (`Progress`). A sum it has read is not more than the same sum over the
tables now, because rows are only added, nor than a wider sum it read later
(`SpendOK`, `IncomeOK`); the sums of a balance are not less than what the rows of
its window were worth when it began (`NetOK`); and a category it has read has
rows, which are still there (`DigestOK`). `ReadKeeps` is the step of the reader,
`RowKeeps`, `DepositKeeps` and `MoveKeeps` are those of the writers. Every step of
the readers' specification is one of `Questions` or leaves its variables alone
(`ReadersOnlyRead`).

`FrontDeskProofs`: `Shape` says what a handler may hold at each place, `Fits`
how it agrees with the tables: what it read is still so if it has its chat to
itself (`Fresh`), its row belongs to a user a chat leads to (`RowFits`), its user
is its chat's and nobody has become a user's creator before the insert
(`UserFits`), alone it ends only for a number or a response that is excused, and
an SMS whose amount was found is stored (`Resilient`). `Company` is what
`alone` stands for; `OneChatEach` keeps a handler of another chat from writing
to the user in between. `PoolOK` counts connections with the cardinality
theorems of the library. `StepInv` reduces every step of one handler to its own
`Shape` and to `Fits`.

Every invariant, refinement and action property that a run checks as one that
holds is also proved. Only model-checked is what is live: `HandlersEnd` of
`Reconcile` and of `FrontDesk`, and `OverspendIsAnnounced`. They rest on fairness
and so on ENABLED, which is out of the provers' reach. The five runs that end in
a violation show states and have nothing to prove.

Definitions were chosen so that they can be reasoned about: sums are
`SumFunctionOnSet` of the amounts, `Ordered` is some arrangement of the rows in
which no amount is followed by a smaller one (`SortSeq` has no definition the
provers can expand; among equal amounts the order does not matter to a median),
and no module declares a RECURSIVE operator.

## 5. Not modelled

- Texts: prompts, replies, formatting, keyboards, the edits of messages. The
  regular expressions of `parser.py` and `merchant_memory.py` are represented by
  what they find, the foldings by constant functions.
- `Decimal` parsing: numbers are whole, with one value that stands for NaN; what
  cannot be parsed is refused before a session is opened. Infinities are too
  wide, like any other number beyond the column.
- The loops of the digest and reconcile jobs over users: they only repeat what
  is modelled for one user, and the loops of the alert and audit jobs are
  modelled.
- `/start` and `/help` (a text), start-up and wiring, settings, logging, the
  Alembic history, the try-out script.
- What a model answers: any value its schema allows.
