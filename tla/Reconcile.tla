----------------------------- MODULE Reconcile ------------------------------
(***************************************************************************)
(* One user's ledger and everything that writes it: ingestion of SMS and   *)
(* receipt photos, /log, reconciliation passes (/reconcile and the weekly  *)
(* cron), the answers to the questions a pass asks, and recategorisation   *)
(* from the monthly audit.                                                 *)
(*                                                                         *)
(* A handler is a sequence of steps cut at its awaits: between two steps   *)
(* of one handler any step of another may happen.  Every step is one       *)
(* database statement or commit (READ COMMITTED, no row versions), together*)
(* with the local work around it.  All queries and rows carry the user's   *)
(* id, so users do not interact here and one is modelled.                  *)
(*                                                                         *)
(* An in-flight pass or answer may die at any point: an exception of the   *)
(* model provider that is not an LLMDecisionError, of the database or of   *)
(* Telegram, or the process stopping (which kills all of them).  What it   *)
(* committed stays; what it holds in memory is gone.                       *)
(***************************************************************************)
EXTENDS DecisionGuards

CONSTANTS
    NumTxns,     \* bound: how many transactions arrive
    Passes,      \* bound: invocations of reconcile_user
    Taps,        \* bound: taps on the buttons of a question
    Logs,        \* bound: /log commands
    Messages,    \* what ingestion may extract, a subset of Message
    Reports,     \* what /log may be given: [amount, date, category]
    Discipline   \* which habits the people and the cron are known to keep

(***************************************************************************)
(* "one_pass": no pass starts while another runs.  "one_tap": a tap comes  *)
(* when the one before is handled.  "answers_first": a pass starts when    *)
(* no delivered question is open, and nobody taps while a pass runs.       *)
(* Nothing in the code enforces any of them.                               *)
(***************************************************************************)
Habits == {"one_pass", "one_tap", "answers_first"}

ASSUME ReconcileAssumption ==
    /\ NumTxns \in Nat
    /\ Messages \subseteq Message
    /\ Reports \subseteq [amount : Int, date : Int, category : Categories]
    /\ Discipline \subseteq Habits

Txns       == 1 .. NumTxns
RunIds     == Passes \X Txns
ExpenseIds == ({"log"} \X Logs) \cup ({"auto"} \X RunIds)
                                \cup ({"answer"} \X Taps)
NoTxn      == 0
NoRun      == <<"none">>

VARIABLES
    txn,         \* the transactions table
    expense,     \* the expenses table
    run,         \* the reconciliation_runs table: one row per pass and txn
    memory,      \* the merchant_categories table
    delivered,   \* the questions that reached the chat, with their buttons
    pass,        \* the local state of each reconcile_user invocation
    tap          \* the local state of each answer handler

vars == <<txn, expense, run, memory, delivered, pass, tap>>

-----------------------------------------------------------------------------
NoMessage == [source |-> "none", merchant |-> NoMerchant, amount |-> 0,
              date |-> 0, hint |-> NoCategory]

ExpenseRow == [via      : {"absent", "manual", "auto_log"},
               amount   : Int,
               date     : Int,
               merchant : Merchants \cup {NoMerchant},
               category : Categories \cup {NoCategory},
               linked   : Txns \cup {NoTxn}]

NoRow == [via |-> "absent", amount |-> 0, date |-> 0,
          merchant |-> NoMerchant, category |-> NoCategory, linked |-> NoTxn]

Decision == [action    : Actions,
             target    : ExpenseIds \cup {NoExpense},
             category  : Suggestions \cup {NoCategory},
             confident : BOOLEAN]

NoDecision == [action |-> "ask_user", target |-> NoExpense,
               category |-> NoCategory, confident |-> FALSE]

\* What a model may answer; a field its action makes irrelevant is None.
Replies ==
    [action : {"auto_link"}, target : ExpenseIds \cup {NoExpense},
     category : {NoCategory}, confident : BOOLEAN]
    \cup [action : {"auto_log"}, target : {NoExpense},
          category : Suggestions \cup {NoCategory}, confident : BOOLEAN]
    \cup [action : {"ask_user"}, target : {NoExpense},
          category : {NoCategory}, confident : {TRUE}]

IdlePass == [pc |-> "idle", taken |-> {}, todo |-> {}, current |-> NoTxn,
             offered |-> {}, remembered |-> NoCategory,
             decision |-> NoDecision, skipped |-> {}, questions |-> {}]

IdleTap == [pc |-> "idle", run |-> NoRun, category |-> NoCategory,
            known |-> FALSE]

PassType == [pc         : {"idle", "next", "decide", "act", "send",
                           "done", "dead"},
             taken      : SUBSET Txns,
             todo       : SUBSET Txns,
             current    : Txns \cup {NoTxn},
             offered    : SUBSET ExpenseIds,
             remembered : Categories \cup {NoCategory},
             decision   : Decision,
             skipped    : SUBSET Txns,
             questions  : SUBSET Txns]

TapType == [pc       : {"idle", "opened", "flushed", "done", "dead"},
            run      : RunIds \cup {NoRun},
            category : Categories \cup {NoCategory},
            known    : BOOLEAN]

TypeOK ==
    /\ txn \in [Txns -> [status : {"absent", "pending", "processed"},
                         msg    : Messages \cup {NoMessage}]]
    /\ expense \in [ExpenseIds -> ExpenseRow]
    /\ run \in [RunIds -> [status   : {"absent", "open", "resolved"},
                           decision : Actions \cup {"none"}]]
    /\ memory \in [Keys -> Categories \cup {NoCategory}]
    /\ delivered \subseteq RunIds
    /\ pass \in [Passes -> PassType]
    /\ tap \in [Taps -> TapType]

Init ==
    /\ txn = [t \in Txns |-> [status |-> "absent", msg |-> NoMessage]]
    /\ expense = [e \in ExpenseIds |-> NoRow]
    /\ run = [r \in RunIds |-> [status |-> "absent", decision |-> "none"]]
    /\ memory = [k \in Keys |-> NoCategory]
    /\ delivered = {}
    /\ pass = [p \in Passes |-> IdlePass]
    /\ tap = [k \in Taps |-> IdleTap]

-----------------------------------------------------------------------------
Pending   == {t \in Txns : txn[t].status = "pending"}
Processed == {t \in Txns : txn[t].status = "processed"}
Ledger    == {e \in ExpenseIds : expense[e].via # "absent"}
Linked(t) == {e \in Ledger : expense[e].linked = t}

Active(p)   == pass[p].pc \in {"next", "decide", "act", "send"}
InFlight(k) == tap[k].pc \in {"opened", "flushed"}

\* Mutated form: linked rows are offered as well.
AnyWindow(m) == {e \in Ledger : InWindow(expense[e], m)}

\* The rows _find_candidates selects, before it sorts and cuts them.
Window(m) == {e \in Ledger : /\ expense[e].linked = NoTxn
                             /\ InWindow(expense[e], m)}

\* recall_merchant_category as reconcile_user calls it: not when hinted.
Recalled(m) ==
    LET key == MerchantKey(m.merchant)
    IN  IF key = NoKey \/ m.hint # NoCategory THEN NoCategory
        ELSE memory[key]

\* Does _find_recent_duplicate_expense find a row?
HasDuplicate(m) == \E e \in Ledger : SameCharge(expense[e], m)

-----------------------------------------------------------------------------
(***************************************************************************)
(* Ingestion.  Rows are created in the order of their numbers, which is    *)
(* the created_at order a pass works through.                              *)
(***************************************************************************)
Insert(t, m) ==
    /\ txn[t].status = "absent"
    /\ \A u \in Txns : u < t => txn[u].status # "absent"
    /\ txn' = [txn EXCEPT ![t] = [status |-> "pending", msg |-> m]]
    /\ UNCHANGED <<expense, run, memory, delivered, pass, tap>>

\* A forwarded debit SMS that could be parsed.
IngestSms(t) ==
    \E m \in Messages : m.source = "sms" /\ m.hint = NoCategory /\ Insert(t, m)

\* A receipt photo that was read with enough confidence.
IngestPhoto(t) ==
    \E m \in Messages : m.source = "photo" /\ Insert(t, m)

\* /log <category> <amount>: an expense with no transaction behind it.
LogManual(l) ==
    /\ expense[<<"log", l>>].via = "absent"
    /\ \E x \in Reports :
          expense' = [expense EXCEPT ![<<"log", l>>] =
                         [via |-> "manual", amount |-> x.amount,
                          date |-> x.date, merchant |-> NoMerchant,
                          category |-> x.category, linked |-> NoTxn]]
    /\ UNCHANGED <<txn, run, memory, delivered, pass, tap>>

\* The audit's acat: buttons change the category of an existing expense.
Recategorize(e, c) ==
    /\ expense[e].via # "absent"
    /\ expense' = [expense EXCEPT ![e].category = c]
    /\ UNCHANGED <<txn, run, memory, delivered, pass, tap>>

-----------------------------------------------------------------------------
(***************************************************************************)
(* A pass.                                                                 *)
(***************************************************************************)

\* The pending transactions are read once, when the pass starts.
StartPass(p) ==
    /\ pass[p].pc = "idle"
    /\ "one_pass" \in Discipline => \A q \in Passes : ~Active(q)
    /\ "answers_first" \in Discipline =>
          /\ \A k \in Taps : ~InFlight(k)
          /\ \A r \in delivered : run[r].status # "open"
    /\ pass' = [pass EXCEPT ![p].pc = "next", ![p].taken = Pending,
                            ![p].todo = Pending]
    /\ UNCHANGED <<txn, expense, run, memory, delivered, tap>>

(***************************************************************************)
(* Candidates, then memory.  The two reads are one step: the only thing    *)
(* another handler can do to the first, add or link a /log row, commutes   *)
(* with the second.                                                        *)
(***************************************************************************)
Perceive(p, t) ==
    LET m == txn[t].msg
    IN  /\ pass[p].pc = "next"
        /\ t \in pass[p].todo
        /\ \A u \in pass[p].todo : t <= u
        /\ \E C \in SUBSET Window(m) :
              /\ IsShortlist(C, Window(m), expense, m)
              /\ pass' = [pass EXCEPT
                    ![p].pc = "decide", ![p].todo = @ \ {t},
                    ![p].current = t, ![p].offered = C,
                    ![p].remembered = Recalled(m)]
        /\ UNCHANGED <<txn, expense, run, memory, delivered, tap>>

\* Known merchant and nothing to link to: no model call, no guard against it.
FromMemory(p) == pass[p].offered = {} /\ pass[p].remembered # NoCategory

Decide(p, d) ==
    /\ pass' = [pass EXCEPT ![p].pc = "act", ![p].decision = d]
    /\ UNCHANGED <<txn, expense, run, memory, delivered, tap>>

DecideFromMemory(p) ==
    /\ pass[p].pc = "decide"
    /\ FromMemory(p)
    /\ LET d == [action |-> "auto_log", target |-> NoExpense,
                 category |-> pass[p].remembered, confident |-> TRUE]
       IN  Decide(p, apply_duplicate_guard(d,
                         HasDuplicate(txn[pass[p].current].msg)))

\* The model answered; the duplicate lookup comes after its answer.
DecideByModel(p) ==
    /\ pass[p].pc = "decide"
    /\ ~FromMemory(p)
    /\ LET m == txn[pass[p].current].msg
       IN  \E reply \in Replies :
              Decide(p, Guarded(reply, pass[p].offered, m, HasDuplicate(m)))

\* Forget the transaction at hand and go on with the next one.
Onward(s) == [s EXCEPT !.pc = "next", !.current = NoTxn, !.offered = {},
                       !.remembered = NoCategory, !.decision = NoDecision]

\* The same, counting an error or keeping a question for the end.
Skipping(s) == [Onward(s) EXCEPT !.skipped = s.skipped \cup {s.current}]
Asking(s)   == [Onward(s) EXCEPT !.questions = s.questions \cup {s.current}]

\* Mutated forms: the error is not counted, the transaction is tried again.
SkipUncounted(p) ==
    /\ pass[p].pc = "decide" /\ ~FromMemory(p)
    /\ pass' = [pass EXCEPT ![p] = Onward(@)]
    /\ UNCHANGED <<txn, expense, run, memory, delivered, tap>>

SkipRequeues(p) ==
    /\ pass[p].pc = "decide" /\ ~FromMemory(p)
    /\ pass' = [pass EXCEPT ![p].pc = "next", ![p].todo =
                                      @ \cup {pass[p].current}]
    /\ UNCHANGED <<txn, expense, run, memory, delivered, tap>>

\* LLMDecisionError: the transaction stays pending, the pass goes on.
SkipTxn(p) ==
    /\ pass[p].pc = "decide" /\ ~FromMemory(p)
    /\ pass' = [pass EXCEPT ![p] = Skipping(@)]
    /\ UNCHANGED <<txn, expense, run, memory, delivered, tap>>

(***************************************************************************)
(* An answer with a usable merchant flushes its updates before it reads    *)
(* the memory: until it commits it holds the row locks of its run and, if  *)
(* it flips the status, of its transaction.                                *)
(***************************************************************************)
HasKey(r) == MerchantKey(txn[r[2]].msg.merchant) # NoKey

RunLocked(r) == \E k \in Taps : tap[k].pc = "flushed" /\ tap[k].run = r
                                /\ HasKey(r)

TxnLocked(t) == /\ txn[t].status = "pending"
                /\ \E p \in Passes : RunLocked(<<p, t>>)

RecordRun(p, t, status, action) ==
    run' = [run EXCEPT ![<<p, t>>] = [status |-> status, decision |-> action]]

\* An expense made from a transaction: its amount, date and merchant.
Row(via, m, category, link) ==
    [via |-> via, amount |-> m.amount, date |-> m.date,
     merchant |-> m.merchant, category |-> category, linked |-> link]

\* Mutated form: the row is not linked.
UnlinkedRow(p, t) ==
    Row("auto_log", txn[t].msg, pass[p].decision.category, NoTxn)

AutoRow(p, t) == Row("auto_log", txn[t].msg, pass[p].decision.category, t)

\* Mutated form: the transaction is not flipped.
SettleRunOnly(p, t, action) ==
    /\ RecordRun(p, t, "resolved", action)
    /\ UNCHANGED txn

\* What both automatic branches of _act do to the transaction and the run.
Settle(p, t, action) ==
    /\ RecordRun(p, t, "resolved", action)
    /\ txn' = [txn EXCEPT ![t].status = "processed"]

(***************************************************************************)
(* The commit of _act, one action for each branch.  The transaction's      *)
(* status is not read again.                                               *)
(***************************************************************************)
Acting(p, t, action) ==
    /\ pass[p].pc = "act"
    /\ pass[p].current = t
    /\ pass[p].decision.action = action

AutoLink(p, t) ==
    /\ Acting(p, t, "auto_link")
    /\ ~TxnLocked(t)
    /\ expense' = [expense EXCEPT ![pass[p].decision.target].linked = t]
    /\ Settle(p, t, "auto_link")
    /\ pass' = [pass EXCEPT ![p] = Onward(@)]
    /\ UNCHANGED <<memory, delivered, tap>>

AutoLog(p, t) ==
    /\ Acting(p, t, "auto_log")
    /\ ~TxnLocked(t)
    /\ expense' = [expense EXCEPT ![<<"auto", <<p, t>>>>] = AutoRow(p, t)]
    /\ Settle(p, t, "auto_log")
    /\ pass' = [pass EXCEPT ![p] = Onward(@)]
    /\ UNCHANGED <<memory, delivered, tap>>

\* Mutated forms: the status is written back, the question is not kept.
AskUserResets(p, t) ==
    /\ Acting(p, t, "ask_user")
    /\ txn' = [txn EXCEPT ![t].status = "pending"]
    /\ RecordRun(p, t, "open", "ask_user")
    /\ pass' = [pass EXCEPT ![p] = Asking(@)]
    /\ UNCHANGED <<expense, memory, delivered, tap>>

AskUserForgets(p, t) ==
    /\ Acting(p, t, "ask_user")
    /\ RecordRun(p, t, "open", "ask_user")
    /\ pass' = [pass EXCEPT ![p] = Onward(@)]
    /\ UNCHANGED <<txn, expense, memory, delivered, tap>>

\* The transaction is left as it is.
AskUser(p, t) ==
    /\ Acting(p, t, "ask_user")
    /\ RecordRun(p, t, "open", "ask_user")
    /\ pass' = [pass EXCEPT ![p] = Asking(@)]
    /\ UNCHANGED <<txn, expense, memory, delivered, tap>>

FinishBatch(p) ==
    /\ pass[p].pc = "next" /\ pass[p].todo = {}
    /\ pass' = [pass EXCEPT ![p].pc = "send"]
    /\ UNCHANGED <<txn, expense, run, memory, delivered, tap>>

\* Only after the whole batch are its questions sent, in order.
SendQuestion(p, t) ==
    /\ pass[p].pc = "send"
    /\ t \in pass[p].questions
    /\ \A u \in pass[p].questions : t <= u
    /\ delivered' = delivered \cup {<<p, t>>}
    /\ pass' = [pass EXCEPT ![p].questions = @ \ {t}]
    /\ UNCHANGED <<txn, expense, run, memory, tap>>

SendSummary(p) ==
    /\ pass[p].pc = "send" /\ pass[p].questions = {}
    /\ pass' = [pass EXCEPT ![p].pc = "done"]
    /\ UNCHANGED <<txn, expense, run, memory, delivered, tap>>

PassDies(p) ==
    /\ Active(p)
    /\ pass' = [pass EXCEPT ![p] = [IdlePass EXCEPT !.pc = "dead"]]
    /\ UNCHANGED <<txn, expense, run, memory, delivered, tap>>

-----------------------------------------------------------------------------
(***************************************************************************)
(* An answer to a question.  A tap may come at any time after delivery:    *)
(* the buttons stay until the answer is handled, a tap is quick to repeat  *)
(* and Telegram repeats an update whose webhook call failed.               *)
(***************************************************************************)
MayTap(k) ==
    /\ tap[k].pc = "idle"
    /\ "one_tap" \in Discipline => \A j \in Taps : ~InFlight(j)
    /\ "answers_first" \in Discipline => \A p \in Passes : ~Active(p)

\* Mutated form: the status of the run is not looked at.
AnswerAnyway(k, r, c) ==
    /\ MayTap(k)
    /\ r \in delivered
    /\ tap' = [tap EXCEPT ![k] = [pc |-> "opened", run |-> r, category |-> c,
                                  known |-> FALSE]]
    /\ UNCHANGED <<txn, expense, run, memory, delivered, pass>>

\* The run is read; only an open one is answered.
AnswerRead(k, r, c) ==
    /\ MayTap(k)
    /\ r \in delivered
    /\ tap' = IF run[r].status = "open"
              THEN [tap EXCEPT ![k] = [pc |-> "opened", run |-> r,
                                       category |-> c, known |-> FALSE]]
              ELSE [tap EXCEPT ![k].pc = "done"]
    /\ UNCHANGED <<txn, expense, run, memory, delivered, pass>>

(***************************************************************************)
(* The transaction is read, the updates are flushed (this takes the locks, *)
(* so it waits for their holder) and the memory row is looked up.  Without *)
(* a key nothing is flushed before the commit.                             *)
(***************************************************************************)
AnswerFlush(k) ==
    LET r == tap[k].run
        key == MerchantKey(txn[r[2]].msg.merchant)
    IN  /\ tap[k].pc = "opened"
        /\ ~RunLocked(r) /\ ~TxnLocked(r[2])
        /\ tap' = [tap EXCEPT
              ![k].pc = "flushed",
              ![k].known = HasKey(r) /\ memory[key] # NoCategory]
        /\ UNCHANGED <<txn, expense, run, memory, delivered, pass>>

\* The unique index on (user, merchant): another answer inserted the row.
Conflict(k) ==
    LET r == tap[k].run
    IN  /\ HasKey(r) /\ ~tap[k].known
        /\ memory[MerchantKey(txn[r[2]].msg.merchant)] # NoCategory

Answered(k) ==
    LET r == tap[k].run
    IN  expense' = [expense EXCEPT ![<<"answer", k>>] =
                       Row("manual", txn[r[2]].msg, tap[k].category, r[2])]

Remember(k) ==
    LET r == tap[k].run
    IN  IF HasKey(r)
        THEN memory' = [memory EXCEPT
                ![MerchantKey(txn[r[2]].msg.merchant)] = tap[k].category]
        ELSE UNCHANGED memory

\* Mutated form: the run stays open.
AnswerLeavesOpen(k) ==
    /\ tap[k].pc = "flushed" /\ ~Conflict(k)
    /\ Answered(k)
    /\ txn' = [txn EXCEPT ![tap[k].run[2]].status = "processed"]
    /\ Remember(k)
    /\ tap' = [tap EXCEPT ![k] = [IdleTap EXCEPT !.pc = "done"]]
    /\ UNCHANGED <<run, delivered, pass>>

AnswerCommit(k) ==
    /\ tap[k].pc = "flushed" /\ ~Conflict(k)
    /\ Answered(k)
    /\ txn' = [txn EXCEPT ![tap[k].run[2]].status = "processed"]
    /\ run' = [run EXCEPT ![tap[k].run].status = "resolved"]
    /\ Remember(k)
    /\ tap' = [tap EXCEPT ![k] = [IdleTap EXCEPT !.pc = "done"]]
    /\ UNCHANGED <<delivered, pass>>

\* IntegrityError: everything the answer did is rolled back.
AnswerConflict(k) ==
    /\ tap[k].pc = "flushed" /\ Conflict(k)
    /\ tap' = [tap EXCEPT ![k] = [IdleTap EXCEPT !.pc = "dead"]]
    /\ UNCHANGED <<txn, expense, run, memory, delivered, pass>>

AnswerDies(k) ==
    /\ InFlight(k)
    /\ tap' = [tap EXCEPT ![k] = [IdleTap EXCEPT !.pc = "dead"]]
    /\ UNCHANGED <<txn, expense, run, memory, delivered, pass>>

-----------------------------------------------------------------------------
\* What a handler does once it has started, deaths excepted.
PassStep(p) ==
    \/ \E t \in Txns : \/ Perceive(p, t)
                       \/ AutoLink(p, t) \/ AutoLog(p, t) \/ AskUser(p, t)
                       \/ SendQuestion(p, t)
    \/ DecideFromMemory(p) \/ DecideByModel(p) \/ SkipTxn(p)
    \/ FinishBatch(p) \/ SendSummary(p)

AnswerStep(k) == AnswerFlush(k) \/ AnswerCommit(k) \/ AnswerConflict(k)

Next ==
    \/ \E t \in Txns : IngestSms(t) \/ IngestPhoto(t)
    \/ \E l \in Logs : LogManual(l)
    \/ \E e \in ExpenseIds, c \in Categories : Recategorize(e, c)
    \/ \E p \in Passes : StartPass(p) \/ PassStep(p) \/ PassDies(p)
    \/ \E k \in Taps, r \in RunIds, c \in Categories : AnswerRead(k, r, c)
    \/ \E k \in Taps : AnswerStep(k) \/ AnswerDies(k)

Spec == Init /\ [][Next]_vars

(***************************************************************************)
(* A handler that has started goes on: the event loop runs every ready     *)
(* coroutine, and the model and the database answer or fail in bounded     *)
(* time.  Nothing is assumed of people or of the cron.                     *)
(***************************************************************************)
FairSpec == /\ Spec
            /\ \A p \in Passes : WF_vars(PassStep(p))
            /\ \A k \in Taps : WF_vars(AnswerStep(k))
-----------------------------------------------------------------------------
(***************************************************************************)
(* What holds whatever handlers overlap and wherever they die.             *)
(***************************************************************************)

\* A row without a transaction comes from /log and has no merchant: every
\* way to create an expense from a transaction links it in the same commit,
\* and no later step takes the link away.
UnlinkedIsManual ==
    \A e \in Ledger : expense[e].linked = NoTxn =>
        /\ expense[e].via = "manual"
        /\ expense[e].merchant = NoMerchant

\* The duplicate guard never fires because of the row the pass is about to
\* link: what was offered as a candidate still has no merchant when the
\* duplicates are looked up, even if another pass linked it meanwhile.
CandidateIsNotDuplicate ==
    \A p \in Passes : Active(p) /\ pass[p].current # NoTxn =>
        \A e \in pass[p].offered :
            ~SameCharge(expense[e], txn[pass[p].current].msg)

\* The status of a transaction and its audit trail agree in every state a
\* reader can see: processed exactly when some run of it is resolved.
ProcessedIffResolved ==
    \A t \in Txns : txn[t].status = "processed"
        <=> \E p \in Passes : run[<<p, t>>].status = "resolved"

\* A linked expense has a processed transaction behind it, never a pending
\* one: a pass that crashed or overlapped left no half of a commit.
LinkedIsProcessed ==
    \A e \in Ledger : expense[e].linked # NoTxn =>
        txn[expense[e].linked].status = "processed"

\* A question is lost only with the pass that asked it: it is waiting in a
\* pass that lives or it has reached the chat.
QuestionNotLost ==
    \A p \in Passes, t \in Txns :
        run[<<p, t>>].decision = "ask_user" =>
            \/ pass[p].pc = "dead"
            \/ t \in pass[p].questions
            \/ <<p, t>> \in delivered

\* A pass accounts for every transaction it took: behind its cursor each
\* one has a run of this pass or was counted as an error, and not both.
BatchAccounted ==
    \A p \in Passes : pass[p].pc # "dead" =>
        \A t \in pass[p].taken \ (pass[p].todo \cup {pass[p].current}) :
            run[<<p, t>>].status = "absent" <=> t \in pass[p].skipped

\* A receipt photo without a caption is logged without asking only once the
\* user has taught the category of its merchant.
PhotoAutoLogIsTaught ==
    \A p \in Passes, t \in Txns :
        LET m == txn[t].msg
        IN  /\ run[<<p, t>>].decision = "auto_log"
            /\ m.source = "photo" /\ m.hint = NoCategory
            => /\ MerchantKey(m.merchant) # NoKey
               /\ memory[MerchantKey(m.merchant)] # NoCategory

Final == /\ \A t \in Processed : txn'[t] = txn[t]
         /\ \A r \in RunIds : run[r].status = "resolved" => run'[r] = run[r]
         /\ \A e \in Ledger : expense[e].linked # NoTxn =>
                                 expense'[e].linked # NoTxn

\* Settled is final: no step of any handler takes a processed transaction,
\* a resolved run or a link back, though every handler writes from a copy
\* it read earlier.
SettledIsFinal == [][Final]_vars

-----------------------------------------------------------------------------
(***************************************************************************)
(* What holds when passes do not overlap ("one_pass").                     *)
(***************************************************************************)

\* An expense that backs a transaction backs it for good: it never absorbs
\* a second one.
LinkIsPermanent ==
    [][\A e \in Ledger : expense[e].linked # NoTxn =>
          expense'[e].linked = expense[e].linked]_vars

\* A processed transaction is backed by an expense of its own.
ProcessedIsBacked == \A t \in Processed : Linked(t) # {}

\* At most one pass settles a transaction by itself.
OneAutomaticDecision ==
    \A t \in Txns, p, q \in Passes :
        /\ run[<<p, t>>].decision \in {"auto_link", "auto_log"}
        /\ run[<<q, t>>].decision \in {"auto_link", "auto_log"}
        => p = q

\* No charge is booked twice without asking: of two automatic rows none is
\* a duplicate of the other.
NoAutoDuplicates ==
    \A e, f \in Ledger :
        /\ expense[e].via = "auto_log" /\ expense[f].via = "auto_log"
        /\ SameCharge(expense[e], expense[f])
        => e = f

(***************************************************************************)
(* What holds when, besides, taps are handled one at a time ("one_tap").   *)
(***************************************************************************)

\* The ledger and the audit trail count alike: a transaction is backed by
\* as many expenses as it has resolved runs.  (Not by one: an open question
\* does not stop a later pass, and its answer is still accepted.)
LedgerMatchesRuns ==
    \A t \in Txns :
        Cardinality(Linked(t)) =
            Cardinality({p \in Passes : run[<<p, t>>].status = "resolved"})

(***************************************************************************)
(* What holds when, besides, questions are answered first                  *)
(* ("answers_first"): Reconcile is an implementation of SpendLedger, where *)
(* an expense backs the transaction it is linked to.                       *)
(***************************************************************************)
Promise == INSTANCE SpendLedger WITH
    Entries <- ExpenseIds,
    status  <- [t \in Txns |-> txn[t].status],
    backing <- [t \in Txns |-> Linked(t)]

\* Every transaction is settled once, and backed by exactly one expense of
\* its own, whatever is asked, answered or dies in between.
ExactlyOnce == Promise!Spec

-----------------------------------------------------------------------------
(***************************************************************************)
(* Liveness under FairSpec.                                                *)
(***************************************************************************)

\* Nobody waits for ever, row locks included: whatever starts comes to an
\* end.
HandlersEnd ==
    /\ \A p \in Passes : Active(p) ~> ~Active(p)
    /\ \A k \in Taps : InFlight(k) ~> ~InFlight(k)
-----------------------------------------------------------------------------
(***************************************************************************)
(* What a comment in the code says and the code does not do.               *)
(***************************************************************************)

\* "a double-tap on an already-answered Telegram message is an expected
\* race": a question yields at most one expense.
QuestionAnsweredOnce ==
    \A t \in Txns :
        Cardinality({k \in Taps : expense[<<"answer", k>>].linked = t})
            <= Cardinality({p \in Passes :
                              run[<<p, t>>].decision = "ask_user"})
=============================================================================
