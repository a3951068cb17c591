-------------------------- MODULE ReconcileProofs ---------------------------
(***************************************************************************)
(* The properties of Reconcile that hold for every number of transactions, *)
(* passes, taps and messages, and whatever habits are kept.                *)
(***************************************************************************)
EXTENDS Reconcile, TLAPS

-----------------------------------------------------------------------------
(***************************************************************************)
(* What the guard chain of app/agent.py guarantees of a decision that gets *)
(* through it, whatever the model answered.                                *)
(***************************************************************************)
\* normalize_category returns a label of CATEGORIES or nothing.
LEMMA NormalizeRange ==
    ASSUME NEW raw
    PROVE  /\ normalize_category(raw) \in Categories \cup {NoCategory}
           /\ normalize_category(raw) # NoCategory
                 => normalize_category(raw) \in Categories
  <1>1. CASE \E c \in Categories : FoldKey[c] = FoldKey[raw]
    <2>1. (CHOOSE c \in Categories : FoldKey[c] = FoldKey[raw]) \in Categories
      BY <1>1
    <2> QED BY <1>1, <2>1 DEF normalize_category
  <1>2. CASE ~ \E c \in Categories : FoldKey[c] = FoldKey[raw]
    BY <1>2 DEF normalize_category
  <1> QED BY <1>1, <1>2

\* A label normalises to itself: learned and hinted categories are kept.
LEMMA NormalizeLabel ==
    ASSUME NEW c \in Categories
    PROVE  normalize_category(c) = c
  <1> DEFINE d == CHOOSE x \in Categories : FoldKey[x] = FoldKey[c]
  <1>1. d \in Categories /\ FoldKey[d] = FoldKey[c]
    OBVIOUS
  <1>2. d = c
    BY <1>1, GuardAssumption
  <1> QED BY <1>2 DEF normalize_category

\* A decision with the four fields MatchDecision has.
IsDecision(d, ids) ==
    d \in [action : Actions, target : ids \cup {NoExpense},
           category : Suggestions \cup {NoCategory}, confident : BOOLEAN]

\* The guard chain never weakens caution.  Whatever the model answers, what
\* comes out of the guards (_apply_guard .. _normalize_auto_log_category) is
\* a decision, and unless it asks the user it is confident, comes with no
\* duplicate, links only to a candidate that was offered, and logs only a
\* label of CATEGORIES, the caption's if there is one, and never the model's
\* own choice for a photo without a caption.
THEOREM GuardChainSound ==
    ASSUME NEW ids, NEW offered, offered \subseteq ids,
           NEW d, IsDecision(d, ids),
           NEW m, m.hint \in Categories \cup {NoCategory},
           NEW duplicate \in BOOLEAN
    PROVE  LET g == Guarded(d, offered, m, duplicate)
           IN  /\ IsDecision(g, ids)
               /\ g.action # "ask_user" => g.confident /\ ~duplicate
               /\ g.action = "auto_link" => g.target \in offered
               /\ g.action = "auto_log" =>
                     /\ g.category \in Categories
                     /\ m.hint # NoCategory => g.category = m.hint
                     /\ ~(m.source = "photo" /\ m.hint = NoCategory)
  <1> DEFINE a == apply_guard(d, offered, m)
             b == apply_duplicate_guard(a, duplicate)
             c == apply_category_hint(b, m)
             g == Guarded(d, offered, m, duplicate)
  <1>0. /\ NoCategory \notin Categories
        /\ Categories \subseteq Suggestions
        /\ m.hint \in Categories \cup {NoCategory}
    BY GuardAssumption
  <1>1. /\ IsDecision(a, ids)
        /\ a.action # "ask_user" => a = d /\ ~Unsure(d, offered, m)
    BY DEF apply_guard, Downgrade, IsDecision, Actions
  <1>2. /\ IsDecision(b, ids)
        /\ b.action # "ask_user" =>
              b = d /\ ~Unsure(d, offered, m) /\ ~duplicate
    BY <1>1 DEF apply_duplicate_guard, Downgrade, IsDecision, Actions
  <1>3. /\ IsDecision(c, ids)
        /\ c.action = b.action /\ c.target = b.target
        /\ c.confident = b.confident
        /\ c.action = "auto_log" /\ m.hint # NoCategory =>
              c.category = m.hint
        /\ m.hint = NoCategory => c = b
    BY <1>0, <1>2 DEF apply_category_hint, IsDecision
  <1>4. g = normalize_auto_log_category(c)
    BY DEF Guarded
  <1>5. /\ normalize_category(c.category) \in Categories \cup {NoCategory}
        /\ normalize_category(c.category) # NoCategory
              => normalize_category(c.category) \in Categories
    BY NormalizeRange
  <1>6. /\ IsDecision(g, ids)
        /\ g.action = c.action /\ g.target = c.target
        /\ g.confident = c.confident
    BY <1>0, <1>3, <1>4, <1>5 DEF normalize_auto_log_category, IsDecision
  <1>7. g.action # "ask_user" => g.confident /\ ~duplicate
    BY <1>2, <1>3, <1>6 DEF Unsure, IsDecision
  <1>8. g.action = "auto_link" => g.target \in offered
    BY <1>2, <1>3, <1>6 DEF Unsure, IsDecision
  <1>9. ASSUME g.action = "auto_log"
        PROVE  /\ g.category \in Categories
               /\ m.hint # NoCategory => g.category = m.hint
               /\ ~(m.source = "photo" /\ m.hint = NoCategory)
    <2>1. c.action = "auto_log" /\ b = d /\ ~Unsure(d, offered, m)
      BY <1>2, <1>3, <1>6, <1>9
    <2>2. CASE m.hint # NoCategory
      <3>1. c.category = m.hint /\ m.hint \in Categories
        BY <1>0, <1>3, <2>1, <2>2
      <3>2. normalize_category(c.category) = c.category
        BY <3>1, NormalizeLabel
      <3>3. g.category = c.category
        BY <1>3, <1>4, <3>2 DEF normalize_auto_log_category, IsDecision
      <3> QED BY <2>2, <3>1, <3>3
    <2>3. CASE m.hint = NoCategory
      <3>1. /\ c = d /\ m.source # "photo"
            /\ normalize_category(d.category) # NoCategory
        BY <1>3, <2>1, <2>3 DEF Unsure
      <3>2. g.category = normalize_category(c.category)
        BY <1>3, <1>4, <2>1, <3>1
        DEF normalize_auto_log_category, IsDecision
      <3> QED BY <1>5, <2>3, <3>1, <3>2
    <2> QED BY <2>2, <2>3
  <1> QED BY <1>6, <1>7, <1>8, <1>9

-----------------------------------------------------------------------------
(***************************************************************************)
(* The inductive invariant.  The statuses can only be shown to agree if a  *)
(* pass never writes a run row twice, which is what PassOK says of its     *)
(* cursor; a row that a pass may link comes from /log, which is what keeps *)
(* candidates and duplicates apart.                                        *)
(***************************************************************************)
LogRows == {"log"} \X Logs

PassOK(p) ==
    /\ pass[p].pc = "idle" =>
          \A t \in Txns : run[<<p, t>>].status = "absent"
    /\ pass[p].pc \in {"next", "decide", "act"} =>
          \A t \in pass[p].todo : run[<<p, t>>].status = "absent"
    /\ pass[p].pc \in {"decide", "act"} =>
          /\ pass[p].current \in Txns
          /\ pass[p].current \notin pass[p].todo
          /\ run[<<p, pass[p].current>>].status = "absent"
    /\ pass[p].offered \subseteq LogRows
    /\ pass[p].pc = "act" =>
          /\ pass[p].decision.action = "auto_link" =>
                pass[p].decision.target \in pass[p].offered
          /\ pass[p].decision.action = "auto_log" =>
                pass[p].decision.category \in Categories

TapOK(k) ==
    InFlight(k) => /\ tap[k].run \in RunIds
                   /\ tap[k].category \in Categories
                   /\ run[tap[k].run].status # "absent"

RowOK(e) ==
    /\ e \in LogRows => /\ expense[e].merchant = NoMerchant
                        /\ expense[e].via # "auto_log"
    /\ e \notin LogRows /\ expense[e].via # "absent" =>
          expense[e].linked # NoTxn

LocalOK == /\ \A p \in Passes : PassOK(p)
           /\ \A k \in Taps : TapOK(k)

RowsOK == \A e \in ExpenseIds : RowOK(e)

IInv == /\ TypeOK /\ LocalOK /\ RowsOK
        /\ ProcessedIffResolved /\ LinkedIsProcessed

-----------------------------------------------------------------------------
(***************************************************************************)
(* Types.  First what the helpers return.                                  *)
(***************************************************************************)
LEMMA TypeInit == Init => TypeOK
  BY DEF Init, TypeOK, NoMessage, ExpenseRow, NoRow, IdlePass, IdleTap,
         PassType, TapType, Decision, NoDecision, Actions, NoRun, NoTxn

\* A pass that goes on keeps its type.
LEMMA OnwardType ==
    ASSUME NEW s \in PassType
    PROVE  Onward(s) \in PassType
  BY DEF Onward, PassType, NoDecision, Decision, Actions, NoTxn

\* A pass that skips its transaction keeps its type.
LEMMA SkippingType ==
    ASSUME NEW s \in PassType, s.current \in Txns
    PROVE  Skipping(s) \in PassType
  BY DEF Skipping, Onward, PassType, NoDecision, Decision, Actions, NoTxn

\* A pass that turns to the question keeps its type.
LEMMA AskingType ==
    ASSUME NEW s \in PassType, s.current \in Txns
    PROVE  Asking(s) \in PassType
  BY DEF Asking, Onward, PassType, NoDecision, Decision, Actions, NoTxn

\* Every message has a merchant, an amount and a date of the right kind.
LEMMA MessageRange ==
    ASSUME TypeOK, NEW t \in Txns
    PROVE  /\ txn[t].msg.merchant \in Merchants \cup {NoMerchant}
           /\ txn[t].msg.amount \in Int
           /\ txn[t].msg.date \in Int
           /\ txn[t].msg.hint \in Categories \cup {NoCategory}
  <1>1. txn[t].msg \in Messages \cup {NoMessage}
    BY DEF TypeOK
  <1>2. txn[t].msg \in Message \/ txn[t].msg = NoMessage
    BY <1>1, ReconcileAssumption
  <1> QED BY <1>2 DEF Message, NoMessage

\* The row made from a transaction is an expense.
LEMMA RowType ==
    ASSUME TypeOK, NEW t \in Txns, NEW via \in {"manual", "auto_log"},
           NEW c \in Categories
    PROVE  Row(via, txn[t].msg, c, t) \in ExpenseRow
  BY MessageRange DEF Row, ExpenseRow

\* What the memory recalls is a category a user chose, or nothing.
LEMMA MemoryRange ==
    ASSUME TypeOK, NEW t \in Txns
    PROVE  Recalled(txn[t].msg) \in Categories \cup {NoCategory}
  <1> DEFINE m == txn[t].msg
  <1>1. MerchantKey(m.merchant) \in Keys \cup {NoKey}
    BY MessageRange, GuardAssumption DEF MerchantKey
  <1> QED BY <1>1 DEF Recalled, TypeOK

\* The memory shortcut logs with a canonical category or asks.
LEMMA MemoryDecision ==
    ASSUME TypeOK, NEW p \in Passes, FromMemory(p), NEW duplicate \in BOOLEAN
    PROVE  LET d == apply_duplicate_guard(
                        [action |-> "auto_log", target |-> NoExpense,
                         category |-> pass[p].remembered,
                         confident |-> TRUE], duplicate)
           IN  /\ d \in Decision
               /\ d.action # "auto_link"
               /\ d.action = "auto_log" => d.category \in Categories
  <1>1. pass[p].remembered \in Categories
    BY DEF TypeOK, PassType, FromMemory
  <1> QED BY <1>1, GuardAssumption
          DEF apply_duplicate_guard, Downgrade, Decision, Actions

\* What the guards leave of a model's reply is fit to be acted on.
LEMMA ModelDecision ==
    ASSUME TypeOK, NEW p \in Passes, NEW t \in Txns, NEW reply \in Replies,
           NEW duplicate \in BOOLEAN
    PROVE  LET d == Guarded(reply, pass[p].offered, txn[t].msg, duplicate)
           IN  /\ d \in Decision
               /\ d.action = "auto_link" => d.target \in pass[p].offered
               /\ d.action = "auto_log" => d.category \in Categories
  <1>1. IsDecision(reply, ExpenseIds)
    BY DEF Replies, IsDecision, Actions
  <1>2. pass[p].offered \subseteq ExpenseIds
    BY DEF TypeOK, PassType
  <1>3. txn[t].msg.hint \in Categories \cup {NoCategory}
    BY MessageRange
  <1> DEFINE g == Guarded(reply, pass[p].offered, txn[t].msg, duplicate)
  <1>4. /\ IsDecision(g, ExpenseIds)
        /\ g.action = "auto_link" => g.target \in pass[p].offered
        /\ g.action = "auto_log" => g.category \in Categories
    BY <1>1, <1>2, <1>3, GuardChainSound
  <1> HIDE DEF g
  <1>5. g \in Decision
    BY <1>4 DEF IsDecision, Decision
  <1>6. /\ g \in Decision
        /\ g.action = "auto_link" => g.target \in pass[p].offered
        /\ g.action = "auto_log" => g.category \in Categories
    BY <1>4, <1>5
  <1> QED BY <1>6 DEF g

\* A step that writes one pass and nothing else keeps the types.
LEMMA PassWrite ==
    ASSUME TypeOK, NEW p \in Passes, NEW s \in PassType,
           pass' = [pass EXCEPT ![p] = s],
           UNCHANGED <<txn, expense, run, memory, delivered, tap>>
    PROVE  TypeOK'
  BY DEF TypeOK

\* Storing a decision keeps the types.
LEMMA DecideType ==
    ASSUME TypeOK, NEW p \in Passes, NEW d \in Decision, Decide(p, d)
    PROVE  TypeOK'
  <1> DEFINE s == [pass[p] EXCEPT !.pc = "act", !.decision = d]
  <1>0. pass[p] \in PassType
    BY DEF TypeOK
  <1>1. s \in PassType
    BY <1>0 DEF PassType
  <1>2. pass' = [pass EXCEPT ![p] = s]
    BY DEF Decide, TypeOK
  <1> QED BY <1>1, <1>2, PassWrite DEF Decide

\* Every step keeps the types.
LEMMA TypeStep == TypeOK /\ LocalOK /\ [Next]_vars => TypeOK'
  <1> SUFFICES ASSUME TypeOK, LocalOK, [Next]_vars
               PROVE  TypeOK'
    OBVIOUS
  <1>1. ASSUME NEW t \in Txns, IngestSms(t)
        PROVE  TypeOK'
    BY <1>1 DEF IngestSms, Insert, TypeOK
  <1>2. ASSUME NEW t \in Txns, IngestPhoto(t)
        PROVE  TypeOK'
    BY <1>2 DEF IngestPhoto, Insert, TypeOK
  <1>3. ASSUME NEW l \in Logs, LogManual(l)
        PROVE  TypeOK'
    <2>1. PICK x \in Reports :
             expense' = [expense EXCEPT ![<<"log", l>>] =
                            [via |-> "manual", amount |-> x.amount,
                             date |-> x.date, merchant |-> NoMerchant,
                             category |-> x.category, linked |-> NoTxn]]
      BY <1>3 DEF LogManual
    <2>2. x \in [amount : Int, date : Int, category : Categories]
      BY ReconcileAssumption
    <2>3. expense' \in [ExpenseIds -> ExpenseRow]
      BY <2>1, <2>2 DEF TypeOK, ExpenseRow
    <2> QED BY <1>3, <2>3 DEF LogManual, TypeOK
  <1>4. ASSUME NEW e \in ExpenseIds, NEW c \in Categories, Recategorize(e, c)
        PROVE  TypeOK'
    <2> DEFINE x == [expense[e] EXCEPT !.category = c]
    <2>1. expense[e] \in ExpenseRow /\ expense' = [expense EXCEPT ![e] = x]
      BY <1>4 DEF Recategorize, TypeOK
    <2>2. x \in ExpenseRow
      BY <2>1 DEF ExpenseRow
    <2> HIDE DEF x
    <2>3. expense' \in [ExpenseIds -> ExpenseRow]
      BY <2>1, <2>2 DEF TypeOK
    <2> QED BY <1>4, <2>3 DEF Recategorize, TypeOK
  <1>5. ASSUME NEW p \in Passes, StartPass(p)
        PROVE  TypeOK'
    <2> DEFINE s == [pass[p] EXCEPT !.pc = "next", !.taken = Pending,
                                    !.todo = Pending]
    <2>0. pass[p] \in PassType /\ Pending \subseteq Txns
      BY DEF TypeOK, Pending
    <2>1. s \in PassType
      BY <2>0 DEF PassType
    <2>2. pass' = [pass EXCEPT ![p] = s]
      BY <1>5 DEF StartPass, TypeOK
    <2> QED BY <1>5, <2>1, <2>2, PassWrite DEF StartPass
  <1>6. ASSUME NEW p \in Passes, NEW t \in Txns, Perceive(p, t)
        PROVE  TypeOK'
    <2> DEFINE m == txn[t].msg
    <2>1. PICK C \in SUBSET Window(m) :
             pass' = [pass EXCEPT
                 ![p].pc = "decide", ![p].todo = @ \ {t},
                 ![p].current = t, ![p].offered = C,
                 ![p].remembered = Recalled(m)]
      BY <1>6 DEF Perceive
    <2> DEFINE s == [pass[p] EXCEPT
                 !.pc = "decide", !.todo = @ \ {t}, !.current = t,
                 !.offered = C, !.remembered = Recalled(m)]
    <2>2. Recalled(m) \in Categories \cup {NoCategory}
      BY MemoryRange
    <2>3. C \subseteq ExpenseIds
      BY DEF Window, Ledger
    <2>0. pass[p] \in PassType
      BY DEF TypeOK
    <2>4. s \in PassType
      BY <2>0, <2>2, <2>3 DEF PassType
    <2>5. pass' = [pass EXCEPT ![p] = s]
      BY <2>1 DEF TypeOK
    <2> QED BY <1>6, <2>4, <2>5, PassWrite DEF Perceive
  <1>7. ASSUME NEW p \in Passes, DecideFromMemory(p)
        PROVE  TypeOK'
    <2>1. HasDuplicate(txn[pass[p].current].msg) \in BOOLEAN
      BY DEF HasDuplicate
    <2>2. PICK d \in Decision : Decide(p, d)
      BY <1>7, <2>1, MemoryDecision DEF DecideFromMemory
    <2> QED BY <2>2, DecideType
  <1>8. ASSUME NEW p \in Passes, DecideByModel(p)
        PROVE  TypeOK'
    <2> DEFINE t == pass[p].current
    <2>1. t \in Txns /\ HasDuplicate(txn[t].msg) \in BOOLEAN
      BY <1>8 DEF DecideByModel, LocalOK, PassOK, HasDuplicate
    <2>2. PICK reply \in Replies :
             Decide(p, Guarded(reply, pass[p].offered, txn[t].msg,
                               HasDuplicate(txn[t].msg)))
      BY <1>8 DEF DecideByModel
    <2> QED BY <2>1, <2>2, ModelDecision, DecideType
  <1>9. ASSUME NEW p \in Passes, SkipTxn(p)
        PROVE  TypeOK'
    <2>1. pass[p] \in PassType /\ pass[p].current \in Txns
      BY <1>9 DEF SkipTxn, LocalOK, PassOK, TypeOK
    <2>2. Skipping(pass[p]) \in PassType
      BY <2>1, SkippingType
    <2> QED BY <1>9, <2>2, PassWrite DEF SkipTxn
  <1>10. ASSUME NEW p \in Passes, NEW t \in Txns, AutoLink(p, t)
        PROVE  TypeOK'
    <2>1. Onward(pass[p]) \in PassType
      BY OnwardType DEF TypeOK
    <2>2. pass' \in [Passes -> PassType]
      BY <1>10, <2>1 DEF AutoLink, TypeOK
    <2>3. run' \in [RunIds -> [status   : {"absent", "open", "resolved"},
                              decision : Actions \cup {"none"}]]
      BY <1>10 DEF AutoLink, Settle, RecordRun, TypeOK, RunIds, Actions
    <2>4. txn' \in [Txns -> [status : {"absent", "pending", "processed"},
                           msg    : Messages \cup {NoMessage}]]
      BY <1>10 DEF AutoLink, Settle, TypeOK
    <2>5. expense' \in [ExpenseIds -> ExpenseRow]
      <3> DEFINE e == pass[p].decision.target
      <3>0. e \in pass[p].offered
        BY <1>10 DEF AutoLink, Acting, LocalOK, PassOK
      <3>1. e \in ExpenseIds
        BY <3>0 DEF TypeOK, PassType
      <3>4. expense[e] \in ExpenseRow
        BY <3>1 DEF TypeOK
      <3>2. [expense[e] EXCEPT !.linked = t] \in ExpenseRow
        BY <3>4 DEF ExpenseRow
      <3>3. expense' = [expense EXCEPT ![e] = [expense[e] EXCEPT !.linked = t]]
        BY <1>10 DEF AutoLink, TypeOK
      <3> QED BY <3>2, <3>3 DEF TypeOK
    <2> QED BY <1>10, <2>2, <2>3, <2>4, <2>5 DEF AutoLink, TypeOK
  <1>11. ASSUME NEW p \in Passes, NEW t \in Txns, AutoLog(p, t)
        PROVE  TypeOK'
    <2>1. Onward(pass[p]) \in PassType
      BY OnwardType DEF TypeOK
    <2>2. pass' \in [Passes -> PassType]
      BY <1>11, <2>1 DEF AutoLog, TypeOK
    <2>3. run' \in [RunIds -> [status   : {"absent", "open", "resolved"},
                              decision : Actions \cup {"none"}]]
      BY <1>11 DEF AutoLog, Settle, RecordRun, TypeOK, RunIds, Actions
    <2>4. txn' \in [Txns -> [status : {"absent", "pending", "processed"},
                           msg    : Messages \cup {NoMessage}]]
      BY <1>11 DEF AutoLog, Settle, TypeOK
    <2>5. pass[p].decision.category \in Categories
      BY <1>11 DEF AutoLog, Acting, LocalOK, PassOK
    <2>6. AutoRow(p, t) \in ExpenseRow
      BY <2>5, RowType DEF AutoRow
    <2>7. expense' \in [ExpenseIds -> ExpenseRow]
      BY <1>11, <2>6 DEF AutoLog, TypeOK
    <2> QED BY <1>11, <2>2, <2>3, <2>4, <2>7 DEF AutoLog, TypeOK
  <1>12. ASSUME NEW p \in Passes, NEW t \in Txns, AskUser(p, t)
        PROVE  TypeOK'
    <2>1. pass[p] \in PassType /\ pass[p].current \in Txns
      BY <1>12 DEF AskUser, Acting, TypeOK
    <2>2. Asking(pass[p]) \in PassType
      BY <2>1, AskingType
    <2>3. pass' \in [Passes -> PassType]
      BY <1>12, <2>2 DEF AskUser, TypeOK
    <2>4. run' \in [RunIds -> [status   : {"absent", "open", "resolved"},
                              decision : Actions \cup {"none"}]]
      BY <1>12 DEF AskUser, RecordRun, TypeOK, RunIds, Actions
    <2> QED BY <1>12, <2>3, <2>4 DEF AskUser, TypeOK
  <1>13. ASSUME NEW p \in Passes, FinishBatch(p)
        PROVE  TypeOK'
    <2> DEFINE s == [pass[p] EXCEPT !.pc = "send"]
    <2>0. pass[p] \in PassType
      BY DEF TypeOK
    <2>1. s \in PassType
      BY <2>0 DEF PassType
    <2>2. pass' = [pass EXCEPT ![p] = s]
      BY <1>13 DEF FinishBatch, TypeOK
    <2> QED BY <1>13, <2>1, <2>2, PassWrite DEF FinishBatch
  <1>14. ASSUME NEW p \in Passes, NEW t \in Txns, SendQuestion(p, t)
        PROVE  TypeOK'
    <2> DEFINE s == [pass[p] EXCEPT !.questions = @ \ {t}]
    <2>0. pass[p] \in PassType
      BY DEF TypeOK
    <2>1. s \in PassType
      BY <2>0 DEF PassType
    <2>2. pass' = [pass EXCEPT ![p] = s]
      BY <1>14 DEF SendQuestion, TypeOK
    <2>3. pass' \in [Passes -> PassType]
      BY <2>1, <2>2 DEF TypeOK
    <2>4. delivered' \subseteq RunIds
      BY <1>14 DEF SendQuestion, TypeOK, RunIds
    <2> QED BY <1>14, <2>3, <2>4 DEF SendQuestion, TypeOK
  <1>15. ASSUME NEW p \in Passes, SendSummary(p)
        PROVE  TypeOK'
    <2> DEFINE s == [pass[p] EXCEPT !.pc = "done"]
    <2>0. pass[p] \in PassType
      BY DEF TypeOK
    <2>1. s \in PassType
      BY <2>0 DEF PassType
    <2>2. pass' = [pass EXCEPT ![p] = s]
      BY <1>15 DEF SendSummary, TypeOK
    <2> QED BY <1>15, <2>1, <2>2, PassWrite DEF SendSummary
  <1>16. ASSUME NEW p \in Passes, PassDies(p)
        PROVE  TypeOK'
    <2> DEFINE s == [IdlePass EXCEPT !.pc = "dead"]
    <2>1. s \in PassType
      BY DEF IdlePass, PassType, NoDecision, Decision, Actions
    <2> QED BY <1>16, <2>1, PassWrite DEF PassDies
  <1>17. ASSUME NEW k \in Taps, NEW r \in RunIds, NEW c \in Categories, AnswerRead(k, r, c)
        PROVE  TypeOK'
    <2>1. tap[k] \in TapType /\ r \in RunIds
      BY DEF TypeOK
    <2>2. PICK s \in TapType : tap' = [tap EXCEPT ![k] = s]
      <3>1. CASE run[r].status = "open"
        <4> DEFINE s == [pc |-> "opened", run |-> r, category |-> c, known |-> FALSE]
        <4>1. s \in TapType
          BY <2>1 DEF TapType
        <4>2. tap' = [tap EXCEPT ![k] = s]
          BY <1>17, <3>1 DEF AnswerRead
        <4> QED BY <4>1, <4>2
      <3>2. CASE run[r].status # "open"
        <4> DEFINE s == [tap[k] EXCEPT !.pc = "done"]
        <4>1. s \in TapType
          BY <2>1 DEF TapType
        <4>2. tap' = [tap EXCEPT ![k] = s]
          BY <1>17, <3>2 DEF AnswerRead, TypeOK
        <4> QED BY <4>1, <4>2
      <3> QED BY <3>1, <3>2
    <2>3. tap' \in [Taps -> TapType]
      BY <2>2 DEF TypeOK
    <2> QED BY <1>17, <2>3 DEF AnswerRead, TypeOK
  <1>18. ASSUME NEW k \in Taps, AnswerFlush(k)
        PROVE  TypeOK'
    <2> DEFINE known == /\ HasKey(tap[k].run)
                        /\ memory[MerchantKey(txn[tap[k].run[2]].msg.merchant)]
                              # NoCategory
               s == [tap[k] EXCEPT !.pc = "flushed", !.known = known]
    <2>1. tap[k] \in TapType /\ known \in BOOLEAN
      BY DEF TypeOK
    <2> HIDE DEF known
    <2>2. s \in TapType
      BY <2>1 DEF TapType
    <2>3. tap' = [tap EXCEPT ![k] = s]
      BY <1>18 DEF AnswerFlush, TypeOK, known
    <2> HIDE DEF s
    <2>4. tap' \in [Taps -> TapType]
      BY <2>2, <2>3 DEF TypeOK
    <2> QED BY <1>18, <2>4 DEF AnswerFlush, TypeOK
  <1>19. ASSUME NEW k \in Taps, AnswerCommit(k)
        PROVE  TypeOK'
    <2> DEFINE r == tap[k].run
               key == MerchantKey(txn[r[2]].msg.merchant)
    <2>1. /\ r \in RunIds /\ r[2] \in Txns
          /\ tap[k].category \in Categories
      BY <1>19 DEF AnswerCommit, LocalOK, TapOK, InFlight, RunIds
    <2>2. txn' \in [Txns -> [status : {"absent", "pending", "processed"},
                           msg    : Messages \cup {NoMessage}]]
      BY <1>19, <2>1 DEF AnswerCommit, TypeOK
    <2>3. run' \in [RunIds -> [status   : {"absent", "open", "resolved"},
                              decision : Actions \cup {"none"}]]
      BY <1>19, <2>1 DEF AnswerCommit, TypeOK
    <2>4. Row("manual", txn[r[2]].msg, tap[k].category, r[2]) \in ExpenseRow
      BY <2>1, RowType
    <2>5. expense' \in [ExpenseIds -> ExpenseRow]
      BY <1>19, <2>4 DEF AnswerCommit, Answered, TypeOK
    <2>6. memory' \in [Keys -> Categories \cup {NoCategory}]
      BY <1>19, <2>1 DEF AnswerCommit, Remember, TypeOK
    <2>7. tap' \in [Taps -> TapType]
      BY <1>19 DEF AnswerCommit, TypeOK, TapType, IdleTap
    <2> QED BY <1>19, <2>2, <2>3, <2>5, <2>6, <2>7 DEF AnswerCommit, TypeOK
  <1>20. ASSUME NEW k \in Taps, AnswerConflict(k)
        PROVE  TypeOK'
    BY <1>20 DEF AnswerConflict, TapType, IdleTap, TypeOK
  <1>21. ASSUME NEW k \in Taps, AnswerDies(k)
        PROVE  TypeOK'
    BY <1>21 DEF AnswerDies, TapType, IdleTap, TypeOK
  <1>22. CASE UNCHANGED vars
    BY <1>22 DEF vars, TypeOK
  <1> QED BY <1>1, <1>2, <1>3, <1>4, <1>5, <1>6, <1>7, <1>8, <1>9, <1>10,
          <1>11, <1>12, <1>13, <1>14, <1>15, <1>16, <1>17, <1>18, <1>19,
          <1>20, <1>21, <1>22
          DEF Next, PassStep, AnswerStep

-----------------------------------------------------------------------------
(***************************************************************************)
(* What the handlers hold: each step leaves the others' alone and keeps    *)
(* its own.                                                                *)
(***************************************************************************)
LEMMA OnwardFields ==
    ASSUME NEW s \in PassType
    PROVE  /\ Onward(s).pc = "next" /\ Onward(s).todo = s.todo
           /\ Onward(s).offered = {}
           /\ Skipping(s).pc = "next" /\ Skipping(s).todo = s.todo
           /\ Skipping(s).offered = {}
           /\ Asking(s).pc = "next" /\ Asking(s).todo = s.todo
           /\ Asking(s).offered = {}
  BY DEF Onward, Skipping, Asking, PassType

\* A step that leaves a pass and its runs alone keeps it in order.
LEMMA SamePass ==
    ASSUME NEW q \in Passes, PassOK(q), pass'[q] = pass[q],
           \A t \in Txns : run'[<<q, t>>] = run[<<q, t>>],
           pass[q] \in PassType
    PROVE  PassOK(q)'
  <1>1. pass[q].todo \subseteq Txns
    BY DEF PassType
  <1> QED BY <1>1 DEF PassOK

\* A step that removes no run keeps a tap it leaves alone in order.
LEMMA SameTap ==
    ASSUME NEW k \in Taps, TapOK(k), tap'[k] = tap[k],
           \A r \in RunIds :
              run[r].status # "absent" => run'[r].status # "absent"
    PROVE  TapOK(k)'
  BY DEF TapOK, InFlight

\* A step that writes one pass and no table.
LEMMA LocalWrite ==
    ASSUME TypeOK, LocalOK, NEW p \in Passes, NEW s,
           pass' = [pass EXCEPT ![p] = s],
           UNCHANGED <<txn, expense, run, memory, tap>>,
           PassOK(p)'
    PROVE  LocalOK'
  <1>1. ASSUME NEW q \in Passes
        PROVE  PassOK(q)'
    <2>1. CASE q = p
      BY <2>1
    <2>2. CASE q # p
      <3>1. pass'[q] = pass[q] /\ pass[q] \in PassType
        BY <2>2 DEF TypeOK
      <3> QED BY <3>1, SamePass DEF LocalOK
    <2> QED BY <2>1, <2>2
  <1>2. ASSUME NEW k \in Taps
        PROVE  TapOK(k)'
    BY SameTap DEF LocalOK
  <1> QED BY <1>1, <1>2 DEF LocalOK

\* A step that writes the run row of one pass and goes on.
LEMMA ActWrite ==
    ASSUME TypeOK, LocalOK, NEW p \in Passes, NEW t \in Txns,
           NEW action \in Actions, NEW status \in {"open", "resolved"},
           Acting(p, t, action), RecordRun(p, t, status, action),
           NEW s, pass' = [pass EXCEPT ![p] = s],
           s.pc = "next", s.todo = pass[p].todo, s.offered = {},
           UNCHANGED tap
    PROVE  LocalOK'
  <1>1. /\ \A q \in Passes, u \in Txns : q # p \/ u # t =>
              run'[<<q, u>>] = run[<<q, u>>]
        /\ \A r \in RunIds :
              run[r].status # "absent" => run'[r].status # "absent"
    BY DEF RecordRun, TypeOK, RunIds
  <1>2. ASSUME NEW q \in Passes
        PROVE  PassOK(q)'
    <2>1. CASE q = p
      <3>1. pass'[p] = s /\ pass[p].todo \subseteq Txns
        BY DEF TypeOK, PassType
      <3>2. /\ t \notin pass[p].todo
            /\ \A u \in pass[p].todo : run[<<p, u>>].status = "absent"
        <4>1. PassOK(p)
          BY DEF LocalOK
        <4>2. pass[p].pc = "act" /\ pass[p].current = t
          BY DEF Acting
        <4> QED BY <4>1, <4>2 DEF PassOK
      <3>3. \A u \in pass[p].todo : run'[<<p, u>>].status = "absent"
        BY <1>1, <3>1, <3>2
      <3> QED BY <2>1, <3>1, <3>3 DEF PassOK
    <2>2. CASE q # p
      <3>1. /\ pass'[q] = pass[q] /\ pass[q] \in PassType
            /\ \A u \in Txns : run'[<<q, u>>] = run[<<q, u>>]
        BY <1>1, <2>2 DEF TypeOK
      <3> QED BY <3>1, SamePass DEF LocalOK
    <2> QED BY <2>1, <2>2
  <1>3. ASSUME NEW k \in Taps
        PROVE  TapOK(k)'
    BY <1>1, SameTap DEF LocalOK
  <1> QED BY <1>2, <1>3 DEF LocalOK

\* A step that writes one tap and no table.
LEMMA TapWrite ==
    ASSUME TypeOK, LocalOK, NEW k \in Taps, NEW s,
           tap' = [tap EXCEPT ![k] = s],
           UNCHANGED <<run, pass>>,
           TapOK(k)'
    PROVE  LocalOK'
  <1>1. ASSUME NEW q \in Passes
        PROVE  PassOK(q)'
    BY SamePass DEF LocalOK, TypeOK
  <1>2. ASSUME NEW j \in Taps
        PROVE  TapOK(j)'
    <2>1. CASE j = k
      BY <2>1
    <2>2. CASE j # k
      <3>1. tap'[j] = tap[j]
        BY <2>2 DEF TypeOK
      <3> QED BY <3>1, SameTap DEF LocalOK
    <2> QED BY <2>1, <2>2
  <1> QED BY <1>1, <1>2 DEF LocalOK

\* Only rows of /log are ever candidates.
LEMMA WindowFromLog ==
    ASSUME RowsOK, NEW m
    PROVE  Window(m) \subseteq LogRows
  BY DEF RowsOK, RowOK, Window, Ledger

\* Storing a decision keeps passes and taps in order.
LEMMA DecideLocal ==
    ASSUME TypeOK, LocalOK, NEW p \in Passes, NEW d \in Decision,
           pass[p].pc = "decide", Decide(p, d),
           d.action = "auto_link" => d.target \in pass[p].offered,
           d.action = "auto_log" => d.category \in Categories
    PROVE  LocalOK'
  <1> DEFINE s == [pass[p] EXCEPT !.pc = "act", !.decision = d]
  <1>1. pass[p] \in PassType /\ PassOK(p)
    BY DEF TypeOK, LocalOK
  <1>2. pass' = [pass EXCEPT ![p] = s] /\ pass'[p] = s
    BY DEF Decide, TypeOK
  <1>3. /\ s.pc = "act" /\ s.decision = d /\ s.todo = pass[p].todo
        /\ s.current = pass[p].current /\ s.offered = pass[p].offered
    BY <1>1 DEF PassType
  <1> HIDE DEF s
  <1>4. PassOK(p)'
    BY <1>1, <1>2, <1>3 DEF Decide, PassOK
  <1> QED BY <1>2, <1>4, LocalWrite DEF Decide

\* Passes and taps are in order at the start.
LEMMA LocalInit == Init => LocalOK
  BY DEF Init, LocalOK, PassOK, TapOK, InFlight, IdlePass, IdleTap, RunIds

\* Every step keeps passes and taps in order.
LEMMA LocalStep == TypeOK /\ LocalOK /\ RowsOK /\ [Next]_vars => LocalOK'
  <1> SUFFICES ASSUME TypeOK, LocalOK, RowsOK, [Next]_vars
               PROVE  LocalOK'
    OBVIOUS
  <1>1. ASSUME NEW t \in Txns, IngestSms(t)
        PROVE  LocalOK'
    BY <1>1, SamePass, SameTap DEF IngestSms, Insert, LocalOK, TypeOK
  <1>2. ASSUME NEW t \in Txns, IngestPhoto(t)
        PROVE  LocalOK'
    BY <1>2, SamePass, SameTap DEF IngestPhoto, Insert, LocalOK, TypeOK
  <1>3. ASSUME NEW l \in Logs, LogManual(l)
        PROVE  LocalOK'
    BY <1>3, SamePass, SameTap DEF LogManual, LocalOK, TypeOK
  <1>4. ASSUME NEW e \in ExpenseIds, NEW c \in Categories, Recategorize(e, c)
        PROVE  LocalOK'
    BY <1>4, SamePass, SameTap DEF Recategorize, LocalOK, TypeOK
  <1>5. ASSUME NEW p \in Passes, StartPass(p)
        PROVE  LocalOK'
    <2> DEFINE s == [pass[p] EXCEPT !.pc = "next", !.taken = Pending,
                                    !.todo = Pending]
    <2>1. pass[p] \in PassType /\ PassOK(p)
      BY DEF TypeOK, LocalOK
    <2>2. pass' = [pass EXCEPT ![p] = s] /\ pass'[p] = s
      BY <1>5 DEF StartPass, TypeOK
    <2>4. s.pc = "next" /\ s.todo = Pending /\ s.offered = pass[p].offered
      BY <2>1 DEF PassType
    <2>3. PassOK(p)'
      BY <1>5, <2>1, <2>2, <2>4 DEF StartPass, PassOK, Pending
    <2> QED BY <1>5, <2>2, <2>3, LocalWrite DEF StartPass
  <1>6. ASSUME NEW p \in Passes, NEW t \in Txns, Perceive(p, t)
        PROVE  LocalOK'
    <2> DEFINE m == txn[t].msg
    <2>1. PICK C \in SUBSET Window(m) :
             pass' = [pass EXCEPT
                 ![p].pc = "decide", ![p].todo = @ \ {t},
                 ![p].current = t, ![p].offered = C,
                 ![p].remembered = Recalled(m)]
      BY <1>6 DEF Perceive
    <2> DEFINE s == [pass[p] EXCEPT
                 !.pc = "decide", !.todo = @ \ {t}, !.current = t,
                 !.offered = C, !.remembered = Recalled(m)]
    <2>2. pass[p] \in PassType /\ PassOK(p)
      BY DEF TypeOK, LocalOK
    <2>3. pass' = [pass EXCEPT ![p] = s] /\ pass'[p] = s
      BY <2>1 DEF TypeOK
    <2>4. /\ s.pc = "decide" /\ s.todo = pass[p].todo \ {t}
          /\ s.current = t /\ s.offered = C
      BY <2>2 DEF PassType
    <2>5. C \subseteq LogRows
      BY WindowFromLog
    <2>6. /\ t \in pass[p].todo /\ run' = run
          /\ \A u \in pass[p].todo : run[<<p, u>>].status = "absent"
      BY <1>6, <2>2 DEF Perceive, PassOK
    <2> HIDE DEF s
    <2>7. PassOK(p)'
      BY <2>3, <2>4, <2>5, <2>6 DEF PassOK
    <2>8. UNCHANGED <<txn, expense, run, memory, tap>>
      BY <1>6 DEF Perceive
    <2> QED BY <2>3, <2>7, <2>8, LocalWrite
  <1>7. ASSUME NEW p \in Passes, DecideFromMemory(p)
        PROVE  LocalOK'
    <2>1. HasDuplicate(txn[pass[p].current].msg) \in BOOLEAN
      BY DEF HasDuplicate
    <2>2. PICK d \in Decision :
             /\ Decide(p, d)
             /\ d.action # "auto_link"
             /\ d.action = "auto_log" => d.category \in Categories
      BY <1>7, <2>1, MemoryDecision DEF DecideFromMemory
    <2> QED BY <1>7, <2>2, DecideLocal DEF DecideFromMemory
  <1>8. ASSUME NEW p \in Passes, DecideByModel(p)
        PROVE  LocalOK'
    <2> DEFINE t == pass[p].current
    <2>1. t \in Txns /\ HasDuplicate(txn[t].msg) \in BOOLEAN
      BY <1>8 DEF DecideByModel, LocalOK, PassOK, HasDuplicate
    <2>2. PICK reply \in Replies :
             Decide(p, Guarded(reply, pass[p].offered, txn[t].msg,
                               HasDuplicate(txn[t].msg)))
      BY <1>8 DEF DecideByModel
    <2> QED BY <1>8, <2>1, <2>2, ModelDecision, DecideLocal DEF DecideByModel
  <1>9. ASSUME NEW p \in Passes, SkipTxn(p)
        PROVE  LocalOK'
    <2>1. pass[p] \in PassType /\ PassOK(p)
      BY DEF TypeOK, LocalOK
    <2>2. /\ pass' = [pass EXCEPT ![p] = Skipping(pass[p])]
          /\ pass'[p] = Skipping(pass[p])
      BY <1>9 DEF SkipTxn, TypeOK
    <2>3. PassOK(p)'
      BY <1>9, <2>1, <2>2, OnwardFields DEF SkipTxn, PassOK
    <2> QED BY <1>9, <2>2, <2>3, LocalWrite DEF SkipTxn
  <1>10. ASSUME NEW p \in Passes, NEW t \in Txns, AutoLink(p, t)
        PROVE  LocalOK'
    <2>1. pass[p] \in PassType
      BY DEF TypeOK
    <2> QED BY <1>10, <2>1, OnwardFields, ActWrite
            DEF AutoLink, Settle, Actions
  <1>11. ASSUME NEW p \in Passes, NEW t \in Txns, AutoLog(p, t)
        PROVE  LocalOK'
    <2>1. pass[p] \in PassType
      BY DEF TypeOK
    <2> QED BY <1>11, <2>1, OnwardFields, ActWrite
            DEF AutoLog, Settle, Actions
  <1>12. ASSUME NEW p \in Passes, NEW t \in Txns, AskUser(p, t)
        PROVE  LocalOK'
    <2>1. pass[p] \in PassType
      BY DEF TypeOK
    <2> QED BY <1>12, <2>1, OnwardFields, ActWrite DEF AskUser, Actions
  <1>13. ASSUME NEW p \in Passes, FinishBatch(p)
        PROVE  LocalOK'
    <2> DEFINE s == [pass[p] EXCEPT !.pc = "send"]
    <2>1. pass[p] \in PassType /\ PassOK(p)
      BY DEF TypeOK, LocalOK
    <2>2. pass' = [pass EXCEPT ![p] = s] /\ pass'[p] = s
      BY <1>13 DEF FinishBatch, TypeOK
    <2>4. s.pc = "send" /\ s.offered = pass[p].offered
      BY <2>1 DEF PassType
    <2>3. PassOK(p)'
      BY <1>13, <2>1, <2>2, <2>4 DEF PassOK
    <2> QED BY <1>13, <2>2, <2>3, LocalWrite DEF FinishBatch
  <1>14. ASSUME NEW p \in Passes, NEW t \in Txns, SendQuestion(p, t)
        PROVE  LocalOK'
    <2> DEFINE s == [pass[p] EXCEPT !.questions = @ \ {t}]
    <2>1. pass[p] \in PassType /\ PassOK(p)
      BY DEF TypeOK, LocalOK
    <2>2. pass' = [pass EXCEPT ![p] = s] /\ pass'[p] = s
      BY <1>14 DEF SendQuestion, TypeOK
    <2>4. s.pc = pass[p].pc /\ s.offered = pass[p].offered
      BY <2>1 DEF PassType
    <2>3. PassOK(p)'
      BY <1>14, <2>1, <2>2, <2>4 DEF SendQuestion, PassOK
    <2> QED BY <1>14, <2>2, <2>3, LocalWrite DEF SendQuestion
  <1>15. ASSUME NEW p \in Passes, SendSummary(p)
        PROVE  LocalOK'
    <2> DEFINE s == [pass[p] EXCEPT !.pc = "done"]
    <2>1. pass[p] \in PassType /\ PassOK(p)
      BY DEF TypeOK, LocalOK
    <2>2. pass' = [pass EXCEPT ![p] = s] /\ pass'[p] = s
      BY <1>15 DEF SendSummary, TypeOK
    <2>4. s.pc = "done" /\ s.offered = pass[p].offered
      BY <2>1 DEF PassType
    <2>3. PassOK(p)'
      BY <1>15, <2>1, <2>2, <2>4 DEF PassOK
    <2> QED BY <1>15, <2>2, <2>3, LocalWrite DEF SendSummary
  <1>16. ASSUME NEW p \in Passes, PassDies(p)
        PROVE  LocalOK'
    <2> DEFINE s == [IdlePass EXCEPT !.pc = "dead"]
    <2>1. pass' = [pass EXCEPT ![p] = s] /\ pass'[p] = s
      BY <1>16 DEF PassDies, TypeOK
    <2>2. s.pc = "dead" /\ s.offered = {}
      BY DEF IdlePass
    <2>3. PassOK(p)'
      BY <2>1, <2>2 DEF PassOK
    <2> QED BY <1>16, <2>1, <2>3, LocalWrite DEF PassDies
  <1>17. ASSUME NEW k \in Taps, NEW r \in RunIds, NEW c \in Categories, AnswerRead(k, r, c)
        PROVE  LocalOK'
    <2>1. CASE run[r].status = "open"
      <3> DEFINE s == [pc |-> "opened", run |-> r, category |-> c,
                       known |-> FALSE]
      <3>1. tap' = [tap EXCEPT ![k] = s] /\ tap'[k] = s
        BY <1>17, <2>1 DEF AnswerRead, TypeOK
      <3>2. TapOK(k)'
        BY <1>17, <2>1, <3>1 DEF AnswerRead, TapOK
      <3> QED BY <1>17, <3>1, <3>2, TapWrite DEF AnswerRead
    <2>2. CASE run[r].status # "open"
      <3> DEFINE s == [tap[k] EXCEPT !.pc = "done"]
      <3>1. tap' = [tap EXCEPT ![k] = s] /\ tap'[k] = s
        BY <1>17, <2>2 DEF AnswerRead, TypeOK
      <3>2. s.pc = "done"
        BY DEF TypeOK, TapType
      <3>3. TapOK(k)'
        BY <3>1, <3>2 DEF TapOK, InFlight
      <3> QED BY <1>17, <3>1, <3>3, TapWrite DEF AnswerRead
    <2> QED BY <2>1, <2>2
  <1>18. ASSUME NEW k \in Taps, AnswerFlush(k)
        PROVE  LocalOK'
    <2> DEFINE r == tap[k].run
               key == MerchantKey(txn[r[2]].msg.merchant)
               s == [tap[k] EXCEPT !.pc = "flushed",
                        !.known = HasKey(r) /\ memory[key] # NoCategory]
    <2>1. tap' = [tap EXCEPT ![k] = s] /\ tap'[k] = s
      BY <1>18 DEF AnswerFlush, TypeOK
    <2>2. /\ s.pc = "flushed" /\ s.run = tap[k].run
          /\ s.category = tap[k].category
      BY DEF TypeOK, TapType
    <2>3. TapOK(k) /\ InFlight(k)
      BY <1>18 DEF LocalOK, AnswerFlush, InFlight
    <2>4. TapOK(k)'
      BY <1>18, <2>1, <2>2, <2>3 DEF AnswerFlush, TapOK
    <2> QED BY <1>18, <2>1, <2>4, TapWrite DEF AnswerFlush
  <1>19. ASSUME NEW k \in Taps, AnswerCommit(k)
        PROVE  LocalOK'
    <2> DEFINE r == tap[k].run
    <2>1. r \in RunIds /\ run[r].status # "absent"
      BY <1>19 DEF AnswerCommit, LocalOK, TapOK, InFlight
    <2>2. \A x \in RunIds :
             (run'[x].status = "absent") <=> (run[x].status = "absent")
      BY <1>19, <2>1 DEF AnswerCommit, TypeOK
    <2>3. ASSUME NEW q \in Passes
          PROVE  PassOK(q)'
      <3>1. PassOK(q) /\ pass'[q] = pass[q] /\ pass[q].todo \subseteq Txns
        BY <1>19 DEF AnswerCommit, LocalOK, TypeOK, PassType
      <3>2. \A t \in Txns : (run'[<<q, t>>].status = "absent")
                               <=> (run[<<q, t>>].status = "absent")
        BY <2>2 DEF RunIds
      <3> QED BY <3>1, <3>2 DEF PassOK
    <2>4. ASSUME NEW j \in Taps
          PROVE  TapOK(j)'
      <3>1. CASE j = k
        <4>1. tap'[k].pc = "done"
          BY <1>19 DEF AnswerCommit, TypeOK, IdleTap
        <4> QED BY <3>1, <4>1 DEF TapOK, InFlight
      <3>2. CASE j # k
        <4>1. tap'[j] = tap[j]
          BY <1>19, <3>2 DEF AnswerCommit, TypeOK
        <4> QED BY <2>2, <4>1, SameTap DEF LocalOK
      <3> QED BY <3>1, <3>2
    <2> QED BY <2>3, <2>4 DEF LocalOK
  <1>20. ASSUME NEW k \in Taps, AnswerConflict(k)
        PROVE  LocalOK'
    <2> DEFINE s == [IdleTap EXCEPT !.pc = "dead"]
    <2>1. tap' = [tap EXCEPT ![k] = s] /\ tap'[k] = s /\ s.pc = "dead"
      BY <1>20 DEF AnswerConflict, TypeOK, IdleTap
    <2>2. TapOK(k)'
      BY <2>1 DEF TapOK, InFlight
    <2> QED BY <1>20, <2>1, <2>2, TapWrite DEF AnswerConflict
  <1>21. ASSUME NEW k \in Taps, AnswerDies(k)
        PROVE  LocalOK'
    <2> DEFINE s == [IdleTap EXCEPT !.pc = "dead"]
    <2>1. tap' = [tap EXCEPT ![k] = s] /\ tap'[k] = s /\ s.pc = "dead"
      BY <1>21 DEF AnswerDies, TypeOK, IdleTap
    <2>2. TapOK(k)'
      BY <2>1 DEF TapOK, InFlight
    <2> QED BY <1>21, <2>1, <2>2, TapWrite DEF AnswerDies
  <1>22. CASE UNCHANGED vars
    BY <1>22, SamePass, SameTap DEF vars, LocalOK, TypeOK
  <1> QED BY <1>1, <1>2, <1>3, <1>4, <1>5, <1>6, <1>7, <1>8, <1>9, <1>10,
          <1>11, <1>12, <1>13, <1>14, <1>15, <1>16, <1>17, <1>18, <1>19,
          <1>20, <1>21, <1>22
          DEF Next, PassStep, AnswerStep

-----------------------------------------------------------------------------
(***************************************************************************)
(* The ledger's rows.                                                      *)
(***************************************************************************)
LEMMA RowsInit == Init => RowsOK
  BY DEF Init, RowsOK, RowOK, NoRow

\* A step that leaves the expenses alone keeps their rows in order.
LEMMA RowsSame == RowsOK /\ UNCHANGED expense => RowsOK'
  BY DEF RowsOK, RowOK

\* One row is written.
LEMMA RowsWrite ==
    ASSUME TypeOK, RowsOK, NEW e \in ExpenseIds, NEW x,
           expense' = [expense EXCEPT ![e] = x],
           e \in LogRows => x.merchant = NoMerchant /\ x.via # "auto_log",
           e \notin LogRows /\ x.via # "absent" => x.linked # NoTxn
    PROVE  RowsOK'
  BY DEF TypeOK, RowsOK, RowOK

\* Every step keeps the rows of the expenses in order.
LEMMA RowsStep == TypeOK /\ LocalOK /\ RowsOK /\ [Next]_vars => RowsOK'
  <1> SUFFICES ASSUME TypeOK, LocalOK, RowsOK, [Next]_vars
               PROVE  RowsOK'
    OBVIOUS
  <1>1. ASSUME NEW t \in Txns, IngestSms(t)
        PROVE  RowsOK'
    BY <1>1, RowsSame DEF IngestSms, Insert
  <1>2. ASSUME NEW t \in Txns, IngestPhoto(t)
        PROVE  RowsOK'
    BY <1>2, RowsSame DEF IngestPhoto, Insert
  <1>3. ASSUME NEW l \in Logs, LogManual(l)
        PROVE  RowsOK'
    <2>1. PICK x \in Reports :
             expense' = [expense EXCEPT ![<<"log", l>>] =
                            [via |-> "manual", amount |-> x.amount,
                             date |-> x.date, merchant |-> NoMerchant,
                             category |-> x.category, linked |-> NoTxn]]
      BY <1>3 DEF LogManual
    <2>2. <<"log", l>> \in ExpenseIds /\ <<"log", l>> \in LogRows
      BY DEF ExpenseIds, LogRows
    <2> QED BY <2>1, <2>2, RowsWrite
  <1>4. ASSUME NEW e \in ExpenseIds, NEW c \in Categories, Recategorize(e, c)
        PROVE  RowsOK'
    <2> DEFINE x == [expense[e] EXCEPT !.category = c]
    <2>1. expense' = [expense EXCEPT ![e] = x]
      BY <1>4 DEF Recategorize, TypeOK
    <2>2. /\ x.merchant = expense[e].merchant /\ x.via = expense[e].via
          /\ x.linked = expense[e].linked
      BY DEF TypeOK, ExpenseRow
    <2>3. RowOK(e)
      BY DEF RowsOK
    <2> QED BY <2>1, <2>2, <2>3, RowsWrite DEF RowOK
  <1>5. ASSUME NEW p \in Passes, StartPass(p)
        PROVE  RowsOK'
    BY <1>5, RowsSame DEF StartPass
  <1>6. ASSUME NEW p \in Passes, NEW t \in Txns, Perceive(p, t)
        PROVE  RowsOK'
    BY <1>6, RowsSame DEF Perceive
  <1>7. ASSUME NEW p \in Passes, DecideFromMemory(p)
        PROVE  RowsOK'
    BY <1>7, RowsSame DEF DecideFromMemory, Decide
  <1>8. ASSUME NEW p \in Passes, DecideByModel(p)
        PROVE  RowsOK'
    BY <1>8, RowsSame DEF DecideByModel, Decide
  <1>9. ASSUME NEW p \in Passes, SkipTxn(p)
        PROVE  RowsOK'
    BY <1>9, RowsSame DEF SkipTxn
  <1>10. ASSUME NEW p \in Passes, NEW t \in Txns, AutoLink(p, t)
        PROVE  RowsOK'
    <2> DEFINE e == pass[p].decision.target
               x == [expense[e] EXCEPT !.linked = t]
    <2>1. e \in LogRows /\ e \in ExpenseIds
      BY <1>10 DEF AutoLink, Acting, LocalOK, PassOK, LogRows, ExpenseIds
    <2>2. expense' = [expense EXCEPT ![e] = x]
      BY <1>10 DEF AutoLink, TypeOK
    <2>3. x.merchant = expense[e].merchant /\ x.via = expense[e].via
      BY <2>1 DEF TypeOK, ExpenseRow
    <2>4. RowOK(e)
      BY <2>1 DEF RowsOK
    <2> QED BY <2>1, <2>2, <2>3, <2>4, RowsWrite DEF RowOK
  <1>11. ASSUME NEW p \in Passes, NEW t \in Txns, AutoLog(p, t)
        PROVE  RowsOK'
    <2>1. <<"auto", <<p, t>>>> \in ExpenseIds
      BY DEF ExpenseIds, RunIds
    <2>2. <<"auto", <<p, t>>>> \notin LogRows
      BY DEF LogRows
    <2>3. AutoRow(p, t).linked # NoTxn
      BY DEF AutoRow, Row, Txns, NoTxn
    <2> QED BY <1>11, <2>1, <2>2, <2>3, RowsWrite DEF AutoLog
  <1>12. ASSUME NEW p \in Passes, NEW t \in Txns, AskUser(p, t)
        PROVE  RowsOK'
    BY <1>12, RowsSame DEF AskUser
  <1>13. ASSUME NEW p \in Passes, FinishBatch(p)
        PROVE  RowsOK'
    BY <1>13, RowsSame DEF FinishBatch
  <1>14. ASSUME NEW p \in Passes, NEW t \in Txns, SendQuestion(p, t)
        PROVE  RowsOK'
    BY <1>14, RowsSame DEF SendQuestion
  <1>15. ASSUME NEW p \in Passes, SendSummary(p)
        PROVE  RowsOK'
    BY <1>15, RowsSame DEF SendSummary
  <1>16. ASSUME NEW p \in Passes, PassDies(p)
        PROVE  RowsOK'
    BY <1>16, RowsSame DEF PassDies
  <1>17. ASSUME NEW k \in Taps, NEW r \in RunIds, NEW c \in Categories, AnswerRead(k, r, c)
        PROVE  RowsOK'
    BY <1>17, RowsSame DEF AnswerRead
  <1>18. ASSUME NEW k \in Taps, AnswerFlush(k)
        PROVE  RowsOK'
    BY <1>18, RowsSame DEF AnswerFlush
  <1>19. ASSUME NEW k \in Taps, AnswerCommit(k)
        PROVE  RowsOK'
    <2> DEFINE r == tap[k].run
               x == Row("manual", txn[r[2]].msg, tap[k].category, r[2])
    <2>1. r[2] \in Txns
      BY <1>19 DEF AnswerCommit, LocalOK, TapOK, InFlight, RunIds
    <2>2. <<"answer", k>> \in ExpenseIds
      BY DEF ExpenseIds
    <2>3. <<"answer", k>> \notin LogRows
      BY DEF LogRows
    <2>4. x.linked # NoTxn
      BY <2>1 DEF Row, Txns, NoTxn
    <2>5. expense' = [expense EXCEPT ![<<"answer", k>>] = x]
      BY <1>19 DEF AnswerCommit, Answered
    <2> QED BY <2>2, <2>3, <2>4, <2>5, RowsWrite
  <1>20. ASSUME NEW k \in Taps, AnswerConflict(k)
        PROVE  RowsOK'
    BY <1>20, RowsSame DEF AnswerConflict
  <1>21. ASSUME NEW k \in Taps, AnswerDies(k)
        PROVE  RowsOK'
    BY <1>21, RowsSame DEF AnswerDies
  <1>22. CASE UNCHANGED vars
    BY <1>22, RowsSame DEF vars
  <1> QED BY <1>1, <1>2, <1>3, <1>4, <1>5, <1>6, <1>7, <1>8, <1>9, <1>10,
          <1>11, <1>12, <1>13, <1>14, <1>15, <1>16, <1>17, <1>18, <1>19,
          <1>20, <1>21, <1>22
          DEF Next, PassStep, AnswerStep

-----------------------------------------------------------------------------
(***************************************************************************)
(* Transactions, runs and links agree.                                     *)
(***************************************************************************)
Agree == ProcessedIffResolved /\ LinkedIsProcessed

\* The two sides of the links agree at the start.
LEMMA AgreeInit == Init => Agree
  <1> SUFFICES ASSUME Init
               PROVE  Agree
    OBVIOUS
  <1>1. \A t \in Txns : txn[t].status = "absent"
    BY DEF Init
  <1>2. \A p \in Passes, t \in Txns : run[<<p, t>>].status = "absent"
    BY DEF Init, RunIds
  <1>3. \A e \in ExpenseIds : expense[e].via = "absent"
    BY DEF Init, NoRow
  <1> QED BY <1>1, <1>2, <1>3
          DEF Agree, ProcessedIffResolved, LinkedIsProcessed, Ledger

\* A step that leaves the tables alone keeps the two sides agreed.
LEMMA AgreeSame ==
    Agree /\ UNCHANGED <<txn, expense, run>> => Agree'
  BY DEF Agree, ProcessedIffResolved, LinkedIsProcessed, Ledger

\* The arrival of a transaction.
LEMMA AgreeInsert ==
    ASSUME TypeOK, Agree, NEW t \in Txns, NEW m, Insert(t, m)
    PROVE  Agree'
  <1>1. /\ txn[t].status # "processed"
        /\ txn'[t].status # "processed"
        /\ \A u \in Txns : u # t => txn'[u] = txn[u]
        /\ run' = run /\ expense' = expense
    BY DEF Insert, TypeOK
  <1>2. ProcessedIffResolved'
    BY <1>1 DEF Agree, ProcessedIffResolved
  <1>3. LinkedIsProcessed'
    <2> SUFFICES ASSUME NEW e \in Ledger, expense[e].linked # NoTxn
                 PROVE  txn'[expense[e].linked].status = "processed"
      BY <1>1 DEF LinkedIsProcessed, Ledger
    <2>1. /\ txn[expense[e].linked].status = "processed"
          /\ expense[e].linked \in Txns
      BY DEF Agree, LinkedIsProcessed, Ledger, TypeOK, ExpenseRow
    <2> QED BY <1>1, <2>1
  <1> QED BY <1>2, <1>3 DEF Agree

\* A step that settles a transaction together with one of its runs, and
\* writes only rows that are linked to it.
LEMMA AgreeSettle ==
    ASSUME TypeOK, Agree, NEW p \in Passes, NEW t \in Txns,
           txn' = [txn EXCEPT ![t].status = "processed"],
           run'[<<p, t>>].status = "resolved",
           \A r \in RunIds : r # <<p, t>> => run'[r] = run[r],
           \A e \in ExpenseIds : expense'[e] = expense[e]
                                 \/ expense'[e].linked = t
    PROVE  Agree'
  <1>1. /\ txn'[t].status = "processed"
        /\ \A u \in Txns : u # t => txn'[u] = txn[u]
    BY DEF TypeOK
  <1>2. ProcessedIffResolved'
    <2> SUFFICES ASSUME NEW u \in Txns
                 PROVE  txn'[u].status = "processed" <=>
                        \E q \in Passes : run'[<<q, u>>].status = "resolved"
      BY DEF ProcessedIffResolved
    <2>1. CASE u = t
      BY <1>1, <2>1
    <2>2. CASE u # t
      <3>1. \A q \in Passes : run'[<<q, u>>] = run[<<q, u>>]
        BY <2>2 DEF RunIds
      <3> QED BY <1>1, <2>2, <3>1 DEF Agree, ProcessedIffResolved
    <2> QED BY <2>1, <2>2
  <1>3. LinkedIsProcessed'
    <2> SUFFICES ASSUME NEW e \in ExpenseIds, expense'[e].via # "absent",
                        expense'[e].linked # NoTxn
                 PROVE  txn'[expense'[e].linked].status = "processed"
      BY DEF LinkedIsProcessed, Ledger
    <2>1. CASE expense'[e].linked = t
      BY <1>1, <2>1
    <2>2. CASE expense'[e] = expense[e] /\ expense[e].linked # t
      <3>1. /\ txn[expense[e].linked].status = "processed"
            /\ expense[e].linked \in Txns
        BY <2>2 DEF Agree, LinkedIsProcessed, Ledger, TypeOK, ExpenseRow
      <3> QED BY <1>1, <2>2, <3>1
    <2> QED BY <2>1, <2>2
  <1> QED BY <1>2, <1>3 DEF Agree

\* Every step keeps the two sides of the links agreed.
LEMMA AgreeStep == TypeOK /\ LocalOK /\ Agree /\ [Next]_vars => Agree'
  <1> SUFFICES ASSUME TypeOK, LocalOK, Agree, [Next]_vars
               PROVE  Agree'
    OBVIOUS
  <1>1. ASSUME NEW t \in Txns, IngestSms(t)
        PROVE  Agree'
    BY <1>1, AgreeInsert DEF IngestSms
  <1>2. ASSUME NEW t \in Txns, IngestPhoto(t)
        PROVE  Agree'
    BY <1>2, AgreeInsert DEF IngestPhoto
  <1>3. ASSUME NEW l \in Logs, LogManual(l)
        PROVE  Agree'
    <2>1. /\ \A e \in ExpenseIds : expense'[e] = expense[e]
                                    \/ expense'[e].linked = NoTxn
          /\ txn' = txn /\ run' = run
      BY <1>3 DEF LogManual, TypeOK
    <2> QED BY <2>1 DEF Agree, ProcessedIffResolved, LinkedIsProcessed, Ledger
  <1>4. ASSUME NEW e \in ExpenseIds, NEW c \in Categories, Recategorize(e, c)
        PROVE  Agree'
    <2>1. /\ \A x \in ExpenseIds : /\ expense'[x].via = expense[x].via
                                    /\ expense'[x].linked = expense[x].linked
          /\ txn' = txn /\ run' = run
      BY <1>4 DEF Recategorize, TypeOK, ExpenseRow
    <2> QED BY <2>1 DEF Agree, ProcessedIffResolved, LinkedIsProcessed, Ledger
  <1>5. ASSUME NEW p \in Passes, StartPass(p)
        PROVE  Agree'
    BY <1>5, AgreeSame DEF StartPass
  <1>6. ASSUME NEW p \in Passes, NEW t \in Txns, Perceive(p, t)
        PROVE  Agree'
    BY <1>6, AgreeSame DEF Perceive
  <1>7. ASSUME NEW p \in Passes, DecideFromMemory(p)
        PROVE  Agree'
    BY <1>7, AgreeSame DEF DecideFromMemory, Decide
  <1>8. ASSUME NEW p \in Passes, DecideByModel(p)
        PROVE  Agree'
    BY <1>8, AgreeSame DEF DecideByModel, Decide
  <1>9. ASSUME NEW p \in Passes, SkipTxn(p)
        PROVE  Agree'
    BY <1>9, AgreeSame DEF SkipTxn
  <1>10. ASSUME NEW p \in Passes, NEW t \in Txns, AutoLink(p, t)
        PROVE  Agree'
    <2>1. \A e \in ExpenseIds : expense'[e] = expense[e]
                                 \/ expense'[e].linked = t
      BY <1>10 DEF AutoLink, TypeOK, ExpenseRow
    <2>2. /\ run'[<<p, t>>].status = "resolved"
          /\ \A r \in RunIds : r # <<p, t>> => run'[r] = run[r]
          /\ txn' = [txn EXCEPT ![t].status = "processed"]
      BY <1>10 DEF AutoLink, Settle, RecordRun, TypeOK, RunIds
    <2> QED BY <2>1, <2>2, AgreeSettle
  <1>11. ASSUME NEW p \in Passes, NEW t \in Txns, AutoLog(p, t)
        PROVE  Agree'
    <2>1. \A e \in ExpenseIds : expense'[e] = expense[e]
                                 \/ expense'[e].linked = t
      BY <1>11 DEF AutoLog, AutoRow, Row, TypeOK
    <2>2. /\ run'[<<p, t>>].status = "resolved"
          /\ \A r \in RunIds : r # <<p, t>> => run'[r] = run[r]
          /\ txn' = [txn EXCEPT ![t].status = "processed"]
      BY <1>11 DEF AutoLog, Settle, RecordRun, TypeOK, RunIds
    <2> QED BY <2>1, <2>2, AgreeSettle
  <1>12. ASSUME NEW p \in Passes, NEW t \in Txns, AskUser(p, t)
        PROVE  Agree'
    <2>1. run[<<p, t>>].status = "absent"
      BY <1>12 DEF AskUser, Acting, LocalOK, PassOK
    <2>2. /\ run'[<<p, t>>].status = "open"
          /\ \A r \in RunIds : r # <<p, t>> => run'[r] = run[r]
          /\ txn' = txn /\ expense' = expense
      BY <1>12 DEF AskUser, RecordRun, TypeOK, RunIds
    <2>3. \A q \in Passes, u \in Txns :
             (run'[<<q, u>>].status = "resolved")
                <=> (run[<<q, u>>].status = "resolved")
      BY <2>1, <2>2 DEF RunIds
    <2>4. ProcessedIffResolved'
      BY <2>2, <2>3 DEF Agree, ProcessedIffResolved
    <2>5. LinkedIsProcessed'
      BY <2>2 DEF Agree, LinkedIsProcessed, Ledger
    <2> QED BY <2>4, <2>5 DEF Agree
  <1>13. ASSUME NEW p \in Passes, FinishBatch(p)
        PROVE  Agree'
    BY <1>13, AgreeSame DEF FinishBatch
  <1>14. ASSUME NEW p \in Passes, NEW t \in Txns, SendQuestion(p, t)
        PROVE  Agree'
    BY <1>14, AgreeSame DEF SendQuestion
  <1>15. ASSUME NEW p \in Passes, SendSummary(p)
        PROVE  Agree'
    BY <1>15, AgreeSame DEF SendSummary
  <1>16. ASSUME NEW p \in Passes, PassDies(p)
        PROVE  Agree'
    BY <1>16, AgreeSame DEF PassDies
  <1>17. ASSUME NEW k \in Taps, NEW r \in RunIds, NEW c \in Categories, AnswerRead(k, r, c)
        PROVE  Agree'
    BY <1>17, AgreeSame DEF AnswerRead
  <1>18. ASSUME NEW k \in Taps, AnswerFlush(k)
        PROVE  Agree'
    BY <1>18, AgreeSame DEF AnswerFlush
  <1>19. ASSUME NEW k \in Taps, AnswerCommit(k)
        PROVE  Agree'
    <2> DEFINE r == tap[k].run
    <2>1. r \in RunIds
      BY <1>19 DEF AnswerCommit, LocalOK, TapOK, InFlight
    <2>2. PICK p \in Passes, t \in Txns : r = <<p, t>>
      BY <2>1 DEF RunIds
    <2>3. \A e \in ExpenseIds : expense'[e] = expense[e]
                                 \/ expense'[e].linked = t
      BY <1>19, <2>2 DEF AnswerCommit, Answered, Row, TypeOK
    <2>4. /\ run'[<<p, t>>].status = "resolved"
          /\ \A x \in RunIds : x # <<p, t>> => run'[x] = run[x]
      BY <1>19, <2>1, <2>2 DEF AnswerCommit, TypeOK
    <2>5. txn' = [txn EXCEPT ![t].status = "processed"]
      BY <1>19, <2>2 DEF AnswerCommit
    <2> QED BY <2>3, <2>4, <2>5, AgreeSettle
  <1>20. ASSUME NEW k \in Taps, AnswerConflict(k)
        PROVE  Agree'
    BY <1>20, AgreeSame DEF AnswerConflict
  <1>21. ASSUME NEW k \in Taps, AnswerDies(k)
        PROVE  Agree'
    BY <1>21, AgreeSame DEF AnswerDies
  <1>22. CASE UNCHANGED vars
    BY <1>22, AgreeSame DEF vars
  <1> QED BY <1>1, <1>2, <1>3, <1>4, <1>5, <1>6, <1>7, <1>8, <1>9, <1>10,
          <1>11, <1>12, <1>13, <1>14, <1>15, <1>16, <1>17, <1>18, <1>19,
          <1>20, <1>21, <1>22
          DEF Next, PassStep, AnswerStep

-----------------------------------------------------------------------------
(***************************************************************************)
(* The theorems.                                                           *)
(***************************************************************************)
LEMMA Invariance == Spec => []IInv
  <1>1. Init => IInv
    BY TypeInit, LocalInit, RowsInit, AgreeInit DEF IInv, Agree
  <1>2. IInv /\ [Next]_vars => IInv'
    BY TypeStep, LocalStep, RowsStep, AgreeStep DEF IInv, Agree
  <1> QED BY <1>1, <1>2, PTL DEF Spec

\* Every table and every handler keeps its types; with them, every category
\* in the ledger and in the memory is a label of CATEGORIES, whatever the
\* model answers.
THEOREM TypeCorrect == Spec => []TypeOK
  <1>1. IInv => TypeOK
    BY DEF IInv
  <1> QED BY <1>1, Invariance, PTL

\* A transaction is processed exactly when a run of it is resolved, for any
\* number of overlapping passes and answers that may die at any await.
THEOREM StatusAgreement == Spec => []ProcessedIffResolved
  <1>1. IInv => ProcessedIffResolved
    BY DEF IInv
  <1> QED BY <1>1, Invariance, PTL

\* No expense is linked to a transaction that still counts as pending.
THEOREM LinkAgreement == Spec => []LinkedIsProcessed
  <1>1. IInv => LinkedIsProcessed
    BY DEF IInv
  <1> QED BY <1>1, Invariance, PTL

\* A row without a transaction comes from /log and has no merchant.
THEOREM UnlinkedRows == Spec => []UnlinkedIsManual
  <1>1. IInv => UnlinkedIsManual
    <2> SUFFICES ASSUME IInv, NEW e \in ExpenseIds,
                        expense[e].via # "absent", expense[e].linked = NoTxn
                 PROVE  /\ expense[e].via = "manual"
                        /\ expense[e].merchant = NoMerchant
      BY DEF UnlinkedIsManual, Ledger
    <2>1. RowOK(e) /\ expense[e] \in ExpenseRow
      BY DEF IInv, RowsOK, TypeOK
    <2> QED BY <2>1 DEF RowOK, ExpenseRow
  <1> QED BY <1>1, Invariance, PTL

\* What a pass may link never makes its own duplicate guard fire.
THEOREM CandidatesAreNoDuplicates == Spec => []CandidateIsNotDuplicate
  <1>1. IInv => CandidateIsNotDuplicate
    <2> SUFFICES ASSUME IInv, NEW p \in Passes, NEW e \in pass[p].offered
                 PROVE  expense[e].merchant = NoMerchant
      BY DEF CandidateIsNotDuplicate, SameCharge
    <2>1. e \in LogRows /\ e \in ExpenseIds
      BY DEF IInv, LocalOK, PassOK, LogRows, ExpenseIds
    <2> QED BY <2>1 DEF IInv, RowsOK, RowOK
  <1> QED BY <1>1, Invariance, PTL

-----------------------------------------------------------------------------
\* A step that leaves the tables alone takes nothing back.
LEMMA FinalSame == UNCHANGED <<txn, run, expense>> => Final
  BY DEF Final, Processed, Ledger

\* Settling a transaction again leaves it as it is.
LEMMA FinalTxn ==
    ASSUME TypeOK, NEW t \in Txns,
           txn' = [txn EXCEPT ![t].status = "processed"]
    PROVE  \A u \in Processed : txn'[u] = txn[u]
  BY DEF TypeOK, Processed

\* No step takes back what is settled.
LEMMA FinalStep == TypeOK /\ LocalOK /\ [Next]_vars => Final
  <1> SUFFICES ASSUME TypeOK, LocalOK, [Next]_vars
               PROVE  Final
    OBVIOUS
  <1>1. ASSUME NEW t \in Txns, IngestSms(t)
        PROVE  Final
    <2>1. /\ \A u \in Processed : txn'[u] = txn[u]
          /\ run' = run /\ expense' = expense
      BY <1>1 DEF IngestSms, Insert, Processed, TypeOK
    <2> QED BY <2>1 DEF Final, Ledger
  <1>2. ASSUME NEW t \in Txns, IngestPhoto(t)
        PROVE  Final
    <2>1. /\ \A u \in Processed : txn'[u] = txn[u]
          /\ run' = run /\ expense' = expense
      BY <1>2 DEF IngestPhoto, Insert, Processed, TypeOK
    <2> QED BY <2>1 DEF Final, Ledger
  <1>3. ASSUME NEW l \in Logs, LogManual(l)
        PROVE  Final
    <2>1. /\ \A e \in Ledger : expense'[e] = expense[e]
          /\ txn' = txn /\ run' = run
      BY <1>3 DEF LogManual, Ledger, TypeOK
    <2> QED BY <2>1 DEF Final, Processed
  <1>4. ASSUME NEW e \in ExpenseIds, NEW c \in Categories, Recategorize(e, c)
        PROVE  Final
    <2>1. /\ \A x \in ExpenseIds : expense'[x].linked = expense[x].linked
          /\ txn' = txn /\ run' = run
      BY <1>4 DEF Recategorize, TypeOK, ExpenseRow
    <2> QED BY <2>1 DEF Final, Processed, Ledger
  <1>5. ASSUME NEW p \in Passes, StartPass(p)
        PROVE  Final
    BY <1>5, FinalSame DEF StartPass
  <1>6. ASSUME NEW p \in Passes, NEW t \in Txns, Perceive(p, t)
        PROVE  Final
    BY <1>6, FinalSame DEF Perceive
  <1>7. ASSUME NEW p \in Passes, DecideFromMemory(p)
        PROVE  Final
    BY <1>7, FinalSame DEF DecideFromMemory, Decide
  <1>8. ASSUME NEW p \in Passes, DecideByModel(p)
        PROVE  Final
    BY <1>8, FinalSame DEF DecideByModel, Decide
  <1>9. ASSUME NEW p \in Passes, SkipTxn(p)
        PROVE  Final
    BY <1>9, FinalSame DEF SkipTxn
  <1>10. ASSUME NEW p \in Passes, NEW t \in Txns, AutoLink(p, t)
        PROVE  Final
    <2>1. \A e \in ExpenseIds : expense'[e] = expense[e]
                                 \/ expense'[e].linked = t
      BY <1>10 DEF AutoLink, TypeOK, ExpenseRow
    <2>2. run[<<p, t>>].status = "absent"
      BY <1>10 DEF AutoLink, Acting, LocalOK, PassOK
    <2>3. \A r \in RunIds : run[r].status = "resolved" => run'[r] = run[r]
      BY <1>10, <2>2 DEF AutoLink, Settle, RecordRun, TypeOK
    <2>4. \A u \in Processed : txn'[u] = txn[u]
      BY <1>10, FinalTxn DEF AutoLink, Settle
    <2> QED BY <2>1, <2>3, <2>4 DEF Final, Ledger, Txns, NoTxn
  <1>11. ASSUME NEW p \in Passes, NEW t \in Txns, AutoLog(p, t)
        PROVE  Final
    <2>1. \A e \in ExpenseIds : expense'[e] = expense[e]
                                 \/ expense'[e].linked = t
      BY <1>11 DEF AutoLog, AutoRow, Row, TypeOK
    <2>2. run[<<p, t>>].status = "absent"
      BY <1>11 DEF AutoLog, Acting, LocalOK, PassOK
    <2>3. \A r \in RunIds : run[r].status = "resolved" => run'[r] = run[r]
      BY <1>11, <2>2 DEF AutoLog, Settle, RecordRun, TypeOK
    <2>4. \A u \in Processed : txn'[u] = txn[u]
      BY <1>11, FinalTxn DEF AutoLog, Settle
    <2> QED BY <2>1, <2>3, <2>4 DEF Final, Ledger, Txns, NoTxn
  <1>12. ASSUME NEW p \in Passes, NEW t \in Txns, AskUser(p, t)
        PROVE  Final
    <2>1. run[<<p, t>>].status = "absent"
      BY <1>12 DEF AskUser, Acting, LocalOK, PassOK
    <2>2. \A r \in RunIds : run[r].status = "resolved" => run'[r] = run[r]
      BY <1>12, <2>1 DEF AskUser, RecordRun, TypeOK
    <2> QED BY <1>12, <2>2 DEF AskUser, Final, Processed, Ledger
  <1>13. ASSUME NEW p \in Passes, FinishBatch(p)
        PROVE  Final
    BY <1>13, FinalSame DEF FinishBatch
  <1>14. ASSUME NEW p \in Passes, NEW t \in Txns, SendQuestion(p, t)
        PROVE  Final
    BY <1>14, FinalSame DEF SendQuestion
  <1>15. ASSUME NEW p \in Passes, SendSummary(p)
        PROVE  Final
    BY <1>15, FinalSame DEF SendSummary
  <1>16. ASSUME NEW p \in Passes, PassDies(p)
        PROVE  Final
    BY <1>16, FinalSame DEF PassDies
  <1>17. ASSUME NEW k \in Taps, NEW r \in RunIds, NEW c \in Categories, AnswerRead(k, r, c)
        PROVE  Final
    BY <1>17, FinalSame DEF AnswerRead
  <1>18. ASSUME NEW k \in Taps, AnswerFlush(k)
        PROVE  Final
    BY <1>18, FinalSame DEF AnswerFlush
  <1>19. ASSUME NEW k \in Taps, AnswerCommit(k)
        PROVE  Final
    <2> DEFINE r == tap[k].run
    <2>1. r \in RunIds /\ r[2] \in Txns
      BY <1>19 DEF AnswerCommit, LocalOK, TapOK, InFlight, RunIds
    <2>2. \A u \in Processed : txn'[u] = txn[u]
      BY <1>19, <2>1, FinalTxn DEF AnswerCommit
    <2>3. \A x \in RunIds : run[x].status = "resolved" => run'[x] = run[x]
      BY <1>19, <2>1 DEF AnswerCommit, TypeOK
    <2>4. \A e \in ExpenseIds : expense'[e] = expense[e]
                                 \/ expense'[e].linked = r[2]
      BY <1>19 DEF AnswerCommit, Answered, Row, TypeOK
    <2> QED BY <2>1, <2>2, <2>3, <2>4 DEF Final, Ledger, Txns, NoTxn
  <1>20. ASSUME NEW k \in Taps, AnswerConflict(k)
        PROVE  Final
    BY <1>20, FinalSame DEF AnswerConflict
  <1>21. ASSUME NEW k \in Taps, AnswerDies(k)
        PROVE  Final
    BY <1>21, FinalSame DEF AnswerDies
  <1>22. CASE UNCHANGED vars
    BY <1>22, FinalSame DEF vars
  <1> QED BY <1>1, <1>2, <1>3, <1>4, <1>5, <1>6, <1>7, <1>8, <1>9, <1>10,
          <1>11, <1>12, <1>13, <1>14, <1>15, <1>16, <1>17, <1>18, <1>19,
          <1>20, <1>21, <1>22
          DEF Next, PassStep, AnswerStep

\* Whatever overlaps or dies, nothing that was settled is ever taken back.
THEOREM NothingIsTakenBack == Spec => SettledIsFinal
  <1>1. IInv /\ [Next]_vars => [Final]_vars
    BY FinalStep DEF IInv
  <1> QED BY <1>1, Invariance, PTL DEF Spec, SettledIsFinal
=============================================================================
