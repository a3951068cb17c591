---------------------------- MODULE HabitsProofs ----------------------------
(***************************************************************************)
(* More of Reconcile: first what a pass owes to the transactions it took   *)
(* and to the questions it asked, whatever overlaps; then what the habits  *)
(* "one_pass" and "one_tap" are enough for.                                *)
(***************************************************************************)
EXTENDS ReconcileProofs

\* The steps that touch runs, passes and deliveries.
LEMMA StepShape ==
    ASSUME [Next]_vars
    PROVE  \/ UNCHANGED <<run, pass, delivered>>
           \/ \E k \in Taps : AnswerCommit(k)
           \/ \E p \in Passes : StartPass(p) \/ PassStep(p) \/ PassDies(p)
  BY DEF Next, vars, IngestSms, IngestPhoto, Insert, LogManual, Recategorize,
         AnswerRead, AnswerStep, AnswerFlush, AnswerConflict, AnswerDies

-----------------------------------------------------------------------------
(***************************************************************************)
(* Batches and questions.  A pass never meets a transaction a second time, *)
(* which is why the two halves of BatchAccounted exclude each other.       *)
(***************************************************************************)
Accounted(p) ==
    /\ pass[p].pc = "idle" => pass[p].skipped = {}
    /\ pass[p].pc \in {"idle", "next", "send", "done"} =>
          pass[p].current = NoTxn
    /\ pass[p].skipped \cap (pass[p].todo \cup {pass[p].current}) = {}
    /\ pass[p].pc # "dead" =>
          \A t \in pass[p].taken \ (pass[p].todo \cup {pass[p].current}) :
              run[<<p, t>>].status = "absent" <=> t \in pass[p].skipped

Owed(p) ==
    \A t \in Txns : run[<<p, t>>].decision = "ask_user" =>
        \/ pass[p].pc = "dead"
        \/ t \in pass[p].questions
        \/ <<p, t>> \in delivered

BatchInv == \A p \in Passes : Accounted(p) /\ Owed(p)

\* A pass another handler's step leaves alone.
LEMMA SameBatch ==
    ASSUME NEW q \in Passes, Accounted(q), Owed(q), pass[q] \in PassType,
           pass'[q] = pass[q], delivered \subseteq delivered',
           \A t \in Txns :
              /\ run'[<<q, t>>].decision = run[<<q, t>>].decision
              /\ run'[<<q, t>>].status = "absent"
                    <=> run[<<q, t>>].status = "absent"
    PROVE  Accounted(q)' /\ Owed(q)'
  <1>1. pass[q].taken \subseteq Txns
    BY DEF PassType
  <1>2. Accounted(q)'
    BY <1>1 DEF Accounted
  <1>3. Owed(q)'
    BY DEF Owed
  <1> QED BY <1>2, <1>3

\* A step of a pass that writes no run.
LEMMA QuietBatch ==
    ASSUME TypeOK, BatchInv, NEW p \in Passes, NEW s,
           pass' = [pass EXCEPT ![p] = s], run' = run,
           delivered \subseteq delivered',
           Accounted(p)', Owed(p)'
    PROVE  BatchInv'
  <1>1. ASSUME NEW q \in Passes, q # p
        PROVE  Accounted(q)' /\ Owed(q)'
    <2>1. pass'[q] = pass[q] /\ pass[q] \in PassType
      BY <1>1 DEF TypeOK
    <2> QED BY <2>1, SameBatch DEF BatchInv
  <1> QED BY <1>1 DEF BatchInv

\* A step of a pass that settles its transaction or asks about it.
LEMMA LoudBatch ==
    ASSUME TypeOK, LocalOK, BatchInv, NEW p \in Passes, NEW t \in Txns,
           NEW action \in Actions, NEW status \in {"open", "resolved"},
           Acting(p, t, action), RecordRun(p, t, status, action),
           NEW s, pass' = [pass EXCEPT ![p] = s], delivered' = delivered,
           s.pc = "next", s.taken = pass[p].taken, s.todo = pass[p].todo,
           s.current = NoTxn, s.skipped = pass[p].skipped,
           s.questions = IF action = "ask_user"
                         THEN pass[p].questions \cup {t}
                         ELSE pass[p].questions
    PROVE  BatchInv'
  <1>1. /\ pass[p].pc = "act" /\ pass[p].current = t
        /\ pass[p] \in PassType /\ Accounted(p) /\ Owed(p)
    BY DEF Acting, TypeOK, BatchInv
  <1>2. /\ run'[<<p, t>>] = [status |-> status, decision |-> action]
        /\ \A q \in Passes, u \in Txns :
              q # p \/ u # t => run'[<<q, u>>] = run[<<q, u>>]
    BY DEF RecordRun, TypeOK, RunIds
  <1>3. pass'[p] = s
    BY DEF TypeOK
  <1>4. Accounted(p)'
    <2>1. /\ pass[p].taken \subseteq Txns /\ pass[p].skipped \subseteq Txns
          /\ pass[p].todo \subseteq Txns /\ NoTxn \notin Txns
      BY <1>1 DEF PassType, NoTxn, Txns
    <2>2. t \notin pass[p].skipped
      BY <1>1 DEF Accounted
    <2>3. \A u \in pass[p].taken \ pass[p].todo : u # t =>
              (run'[<<p, u>>].status = "absent" <=> u \in pass[p].skipped)
      BY <1>1, <1>2, <2>1 DEF Accounted
    <2>4. pass[p].skipped \cap pass[p].todo = {}
      BY <1>1 DEF Accounted
    <2> QED BY <1>2, <1>3, <2>1, <2>2, <2>3, <2>4 DEF Accounted
  <1>5. Owed(p)'
    <2>1. \A u \in Txns \ {t} :
              run'[<<p, u>>].decision = "ask_user" =>
                  u \in pass[p].questions \/ <<p, u>> \in delivered
      BY <1>1, <1>2 DEF Owed
    <2>2. run'[<<p, t>>].decision = "ask_user" => t \in s.questions
      BY <1>2
    <2>3. pass[p].questions \subseteq s.questions
      OBVIOUS
    <2> QED BY <1>3, <2>1, <2>2, <2>3 DEF Owed
  <1>6. ASSUME NEW q \in Passes, q # p
        PROVE  Accounted(q)' /\ Owed(q)'
    <2>1. /\ pass'[q] = pass[q] /\ pass[q] \in PassType
          /\ \A u \in Txns : run'[<<q, u>>] = run[<<q, u>>]
      BY <1>2, <1>6 DEF TypeOK
    <2> QED BY <2>1, SameBatch DEF BatchInv
  <1> QED BY <1>4, <1>5, <1>6 DEF BatchInv

\* No transaction is taken and no question owed at the start.
LEMMA BatchInit == Init => BatchInv
  BY DEF Init, BatchInv, Accounted, Owed, IdlePass, RunIds

\* Every step keeps the account of each batch and the questions it owes.
LEMMA BatchStep ==
    ASSUME TypeOK, LocalOK, BatchInv, [Next]_vars
    PROVE  BatchInv'
  <1>0. \A p \in Passes : /\ pass[p] \in PassType
                          /\ Accounted(p) /\ Owed(p) /\ PassOK(p)
    BY DEF TypeOK, BatchInv, LocalOK
  <1>1. CASE UNCHANGED <<run, pass, delivered>>
    BY <1>1, <1>0, SameBatch DEF BatchInv
  <1>2. ASSUME NEW k \in Taps, AnswerCommit(k)
        PROVE  BatchInv'
    <2>1. tap[k].run \in RunIds /\ run[tap[k].run].status # "absent"
      BY <1>2 DEF AnswerCommit, LocalOK, TapOK, InFlight
    <2>2. \A r \in RunIds :
              /\ run'[r].decision = run[r].decision
              /\ run'[r].status = "absent" <=> run[r].status = "absent"
      BY <1>2, <2>1 DEF AnswerCommit, TypeOK
    <2>3. \A p \in Passes, t \in Txns :
              /\ run'[<<p, t>>].decision = run[<<p, t>>].decision
              /\ run'[<<p, t>>].status = "absent"
                    <=> run[<<p, t>>].status = "absent"
      BY <2>2 DEF RunIds
    <2>4. pass' = pass /\ delivered' = delivered
      BY <1>2 DEF AnswerCommit
    <2> QED BY <1>0, <2>3, <2>4, SameBatch DEF BatchInv
  <1>3. ASSUME NEW p \in Passes, StartPass(p)
        PROVE  BatchInv'
    <2> DEFINE s == [pass[p] EXCEPT !.pc = "next", !.taken = Pending,
                                    !.todo = Pending]
    <2>1. /\ pass' = [pass EXCEPT ![p] = s] /\ pass'[p] = s
          /\ run' = run /\ delivered' = delivered /\ pass[p].pc = "idle"
      BY <1>3 DEF StartPass, TypeOK
    <2>2. /\ s.pc = "next" /\ s.taken = Pending /\ s.todo = Pending
          /\ s.current = pass[p].current /\ s.skipped = pass[p].skipped
          /\ s.questions = pass[p].questions
      BY <1>0 DEF PassType
    <2>3. Accounted(p)' /\ Owed(p)'
      BY <1>0, <2>1, <2>2 DEF Accounted, Owed
    <2> QED BY <2>1, <2>3, QuietBatch
  <1>4. ASSUME NEW p \in Passes, NEW t \in Txns, Perceive(p, t)
        PROVE  BatchInv'
    <2>1. PICK C \in SUBSET Window(txn[t].msg) :
             pass' = [pass EXCEPT
                 ![p].pc = "decide", ![p].todo = @ \ {t},
                 ![p].current = t, ![p].offered = C,
                 ![p].remembered = Recalled(txn[t].msg)]
      BY <1>4 DEF Perceive
    <2> DEFINE s == [pass[p] EXCEPT
                 !.pc = "decide", !.todo = @ \ {t}, !.current = t,
                 !.offered = C, !.remembered = Recalled(txn[t].msg)]
    <2>2. /\ pass' = [pass EXCEPT ![p] = s] /\ pass'[p] = s
          /\ run' = run /\ delivered' = delivered
          /\ pass[p].pc = "next" /\ t \in pass[p].todo
      BY <1>4, <2>1 DEF Perceive, TypeOK
    <2>3. /\ s.pc = "decide" /\ s.todo = pass[p].todo \ {t} /\ s.current = t
          /\ s.taken = pass[p].taken /\ s.skipped = pass[p].skipped
          /\ s.questions = pass[p].questions
      BY <1>0 DEF PassType
    <2>4. pass[p].taken \subseteq Txns /\ NoTxn \notin Txns
      BY <1>0 DEF PassType, NoTxn, Txns
    <2>5. Accounted(p)'
      BY <1>0, <2>2, <2>3, <2>4 DEF Accounted
    <2>6. Owed(p)'
      BY <1>0, <2>2, <2>3 DEF Owed
    <2> QED BY <2>2, <2>5, <2>6, QuietBatch
  <1>5. ASSUME NEW p \in Passes, DecideFromMemory(p) \/ DecideByModel(p)
        PROVE  BatchInv'
    <2>1. PICK d : Decide(p, d) /\ pass[p].pc = "decide"
      BY <1>5 DEF DecideFromMemory, DecideByModel
    <2> DEFINE s == [pass[p] EXCEPT !.pc = "act", !.decision = d]
    <2>2. /\ pass' = [pass EXCEPT ![p] = s] /\ pass'[p] = s
          /\ run' = run /\ delivered' = delivered
      BY <2>1 DEF Decide, TypeOK
    <2>3. /\ s.pc = "act" /\ s.todo = pass[p].todo
          /\ s.current = pass[p].current
          /\ s.taken = pass[p].taken /\ s.skipped = pass[p].skipped
          /\ s.questions = pass[p].questions
      BY <1>0 DEF PassType
    <2>4. Accounted(p)' /\ Owed(p)'
      BY <1>0, <2>1, <2>2, <2>3 DEF Accounted, Owed
    <2> QED BY <2>2, <2>4, QuietBatch
  <1>6. ASSUME NEW p \in Passes, SkipTxn(p)
        PROVE  BatchInv'
    <2> DEFINE s == Skipping(pass[p])
               t == pass[p].current
    <2>1. /\ pass' = [pass EXCEPT ![p] = s] /\ pass'[p] = s
          /\ run' = run /\ delivered' = delivered /\ pass[p].pc = "decide"
      BY <1>6 DEF SkipTxn, TypeOK
    <2>2. /\ s.pc = "next" /\ s.todo = pass[p].todo /\ s.current = NoTxn
          /\ s.taken = pass[p].taken /\ s.skipped = pass[p].skipped \cup {t}
          /\ s.questions = pass[p].questions
      BY <1>0 DEF PassType, Skipping, Onward
    <2>3. /\ t \in Txns /\ t \notin pass[p].todo
          /\ run[<<p, t>>].status = "absent"
      BY <1>0, <2>1 DEF PassOK
    <2>4. /\ pass[p].taken \subseteq Txns /\ pass[p].skipped \subseteq Txns
          /\ pass[p].todo \subseteq Txns /\ NoTxn \notin Txns
      BY <1>0 DEF PassType, NoTxn, Txns
    <2> HIDE DEF s
    <2>5. \A u \in pass[p].taken \ pass[p].todo : u # t =>
              (run[<<p, u>>].status = "absent" <=> u \in pass[p].skipped)
      BY <1>0, <2>1 DEF Accounted
    <2>6. pass[p].skipped \cap pass[p].todo = {}
      BY <1>0 DEF Accounted
    <2>7. Accounted(p)'
      BY <2>1, <2>2, <2>3, <2>4, <2>5, <2>6 DEF Accounted
    <2>8. Owed(p)'
      BY <1>0, <2>1, <2>2 DEF Owed
    <2> QED BY <2>1, <2>7, <2>8, QuietBatch
  <1>7. ASSUME NEW p \in Passes, NEW t \in Txns, AutoLink(p, t)
        PROVE  BatchInv'
    <2> DEFINE s == Onward(pass[p])
    <2>1. /\ s.pc = "next" /\ s.taken = pass[p].taken
          /\ s.todo = pass[p].todo /\ s.current = NoTxn
          /\ s.skipped = pass[p].skipped /\ s.questions = pass[p].questions
      BY <1>0 DEF Onward, PassType
    <2>2. /\ Acting(p, t, "auto_link") /\ delivered' = delivered
          /\ RecordRun(p, t, "resolved", "auto_link")
          /\ pass' = [pass EXCEPT ![p] = s]
      BY <1>7 DEF AutoLink, Settle
    <2> HIDE DEF s
    <2> QED BY <2>1, <2>2, LoudBatch DEF Actions
  <1>8. ASSUME NEW p \in Passes, NEW t \in Txns, AutoLog(p, t)
        PROVE  BatchInv'
    <2> DEFINE s == Onward(pass[p])
    <2>1. /\ s.pc = "next" /\ s.taken = pass[p].taken
          /\ s.todo = pass[p].todo /\ s.current = NoTxn
          /\ s.skipped = pass[p].skipped /\ s.questions = pass[p].questions
      BY <1>0 DEF Onward, PassType
    <2>2. /\ Acting(p, t, "auto_log") /\ delivered' = delivered
          /\ RecordRun(p, t, "resolved", "auto_log")
          /\ pass' = [pass EXCEPT ![p] = s]
      BY <1>8 DEF AutoLog, Settle
    <2> HIDE DEF s
    <2> QED BY <2>1, <2>2, LoudBatch DEF Actions
  <1>9. ASSUME NEW p \in Passes, NEW t \in Txns, AskUser(p, t)
        PROVE  BatchInv'
    <2> DEFINE s == Asking(pass[p])
    <2>0. /\ Acting(p, t, "ask_user") /\ delivered' = delivered
          /\ RecordRun(p, t, "open", "ask_user")
          /\ pass' = [pass EXCEPT ![p] = s]
      BY <1>9 DEF AskUser
    <2>1. /\ s.pc = "next" /\ s.taken = pass[p].taken
          /\ s.todo = pass[p].todo /\ s.current = NoTxn
          /\ s.skipped = pass[p].skipped
          /\ s.questions = pass[p].questions \cup {t}
      BY <1>0, <2>0 DEF Asking, Onward, PassType, Acting
    <2> HIDE DEF s
    <2> QED BY <2>0, <2>1, LoudBatch DEF Actions
  <1>10. ASSUME NEW p \in Passes, FinishBatch(p) \/ SendSummary(p)
         PROVE  BatchInv'
    <2>1. PICK pc \in {"send", "done"} :
             /\ pass' = [pass EXCEPT ![p].pc = pc]
             /\ run' = run /\ delivered' = delivered
             /\ pass[p].pc \in {"next", "send"}
      BY <1>10 DEF FinishBatch, SendSummary
    <2> DEFINE s == [pass[p] EXCEPT !.pc = pc]
    <2>2. pass' = [pass EXCEPT ![p] = s] /\ pass'[p] = s
      BY <2>1 DEF TypeOK
    <2>3. /\ s.pc = pc /\ s.todo = pass[p].todo
          /\ s.current = pass[p].current
          /\ s.taken = pass[p].taken /\ s.skipped = pass[p].skipped
          /\ s.questions = pass[p].questions
      BY <1>0 DEF PassType
    <2>4. Accounted(p)' /\ Owed(p)'
      BY <1>0, <2>1, <2>2, <2>3 DEF Accounted, Owed
    <2> QED BY <2>1, <2>2, <2>4, QuietBatch
  <1>11. ASSUME NEW p \in Passes, NEW t \in Txns, SendQuestion(p, t)
         PROVE  BatchInv'
    <2> DEFINE s == [pass[p] EXCEPT !.questions = @ \ {t}]
    <2>1. /\ pass' = [pass EXCEPT ![p] = s] /\ pass'[p] = s
          /\ run' = run /\ delivered' = delivered \cup {<<p, t>>}
          /\ pass[p].pc = "send"
      BY <1>11 DEF SendQuestion, TypeOK
    <2>2. /\ s.pc = "send" /\ s.todo = pass[p].todo
          /\ s.current = pass[p].current
          /\ s.taken = pass[p].taken /\ s.skipped = pass[p].skipped
          /\ s.questions = pass[p].questions \ {t}
      BY <1>0, <2>1 DEF PassType
    <2>3. Accounted(p)'
      BY <1>0, <2>1, <2>2 DEF Accounted
    <2>4. Owed(p)'
      BY <1>0, <2>1, <2>2 DEF Owed
    <2> QED BY <2>1, <2>3, <2>4, QuietBatch
  <1>12. ASSUME NEW p \in Passes, PassDies(p)
         PROVE  BatchInv'
    <2> DEFINE s == [IdlePass EXCEPT !.pc = "dead"]
    <2>1. /\ pass' = [pass EXCEPT ![p] = s] /\ pass'[p] = s
          /\ run' = run /\ delivered' = delivered
      BY <1>12 DEF PassDies, TypeOK
    <2>2. Accounted(p)' /\ Owed(p)'
      BY <2>1 DEF Accounted, Owed, IdlePass
    <2> QED BY <2>1, <2>2, QuietBatch
  <1> QED BY StepShape, <1>1, <1>2, <1>3, <1>4, <1>5, <1>6, <1>7, <1>8, <1>9,
             <1>10, <1>11, <1>12 DEF PassStep

\* So every batch is always accounted for.
LEMMA BatchAlways == Spec => []BatchInv
  <1>1. IInv /\ BatchInv /\ [Next]_vars => BatchInv'
    BY BatchStep DEF IInv
  <1> QED BY <1>1, BatchInit, Invariance, PTL DEF Spec

\* A question is lost only with the pass that asked it, for any number of
\* passes, transactions and taps.
THEOREM QuestionsKept == Spec => []QuestionNotLost
  <1>1. BatchInv => QuestionNotLost
    BY DEF BatchInv, Owed, QuestionNotLost
  <1> QED BY <1>1, BatchAlways, PTL

\* What a pass took and has behind it was decided or counted as an error,
\* and never both.
THEOREM BatchesAccounted == Spec => []BatchAccounted
  <1>1. BatchInv => BatchAccounted
    BY DEF BatchInv, Accounted, BatchAccounted
  <1> QED BY <1>1, BatchAlways, PTL

-----------------------------------------------------------------------------
(***************************************************************************)
(* One pass at a time.  What a running pass holds is then still true: its  *)
(* candidates are unlinked, nobody has settled by itself what it has yet   *)
(* to work through.  Row keys are used once, which is what makes a new row *)
(* a new one.                                                              *)
(***************************************************************************)
Automatic(r) == run[r].decision \in {"auto_link", "auto_log"}

Ahead(p) == pass[p].todo \cup {pass[p].current}

KeysOK ==
    /\ \A r \in RunIds : run[r].status = "absent" =>
          /\ run[r].decision = "none"
          /\ expense[<<"auto", r>>].via = "absent"
    /\ \A k \in Taps : tap[k].pc \in {"idle", "opened", "flushed"} =>
          expense[<<"answer", k>>].via = "absent"
    /\ \A e \in ExpenseIds :
          expense[e].via = "absent" => expense[e].linked = NoTxn
    /\ \A r \in RunIds : Automatic(r) => run[r].status = "resolved"

Alone == \A p, q \in Passes : Active(p) /\ Active(q) => p = q

Current(p) ==
    /\ pass[p].offered # {} => pass[p].pc \in {"decide", "act"}
    /\ \A e \in pass[p].offered :
          expense[e].via # "absent" /\ expense[e].linked = NoTxn
    /\ pass[p].pc \in {"next", "decide", "act"} =>
          \A t \in Ahead(p) \cap Txns, q \in Passes : ~Automatic(<<q, t>>)

PassInv == /\ KeysOK /\ Alone
           /\ \A p \in Passes : Current(p)

\* A pass the step leaves alone, as the tables it relies on are.
LEMMA SameCurrent ==
    ASSUME NEW q \in Passes, Current(q), pass'[q] = pass[q],
           \A r \in RunIds : run'[r].decision = run[r].decision,
           \A e \in pass[q].offered :
              /\ expense'[e].via # "absent"
              /\ expense'[e].linked = expense[e].linked
    PROVE  Current(q)'
  BY DEF Current, Ahead, Automatic, RunIds

\* A pass that is not running relies on nothing.
LEMMA RestingCurrent ==
    ASSUME NEW q \in Passes, Current(q), pass'[q] = pass[q], ~Active(q)
    PROVE  Current(q)'
  BY DEF Current, Active

\* Steps that start no pass and write no expense, run or pass.
LEMMA TapOnly ==
    ASSUME PassInv, UNCHANGED <<expense, run, pass>>,
           \A k \in Taps : tap'[k].pc \in {"idle", "opened", "flushed"} =>
                              tap[k].pc \in {"idle", "opened", "flushed"}
    PROVE  PassInv'
  <1>1. KeysOK'
    BY DEF PassInv, KeysOK, Automatic
  <1>2. Alone'
    BY DEF PassInv, Alone, Active
  <1>3. \A p \in Passes : Current(p)'
    BY DEF PassInv, Current, Ahead, Automatic
  <1> QED BY <1>1, <1>2, <1>3 DEF PassInv

\* /log and recategorisation.
LEMMA RowOnly ==
    ASSUME PassInv, UNCHANGED <<run, pass, tap>>,
           \A e \in ExpenseIds :
              \/ /\ expense[e].via # "absent"
                 /\ expense'[e].via = expense[e].via
                 /\ expense'[e].linked = expense[e].linked
              \/ /\ expense[e].via = "absent"
                 /\ expense'[e].linked = NoTxn
                 /\ e \in LogRows \/ expense'[e] = expense[e],
           TypeOK
    PROVE  PassInv'
  <1>1. KeysOK'
    <2>1. \A r \in RunIds : /\ <<"auto", r>> \in ExpenseIds
                            /\ <<"auto", r>> \notin LogRows
      BY DEF ExpenseIds, LogRows
    <2>2. \A k \in Taps : /\ <<"answer", k>> \in ExpenseIds
                          /\ <<"answer", k>> \notin LogRows
      BY DEF ExpenseIds, LogRows
    <2>3. \A r \in RunIds : run'[r].status = "absent" =>
              /\ run'[r].decision = "none"
              /\ expense'[<<"auto", r>>].via = "absent"
      BY <2>1 DEF PassInv, KeysOK
    <2>4. \A k \in Taps : tap'[k].pc \in {"idle", "opened", "flushed"} =>
              expense'[<<"answer", k>>].via = "absent"
      BY <2>2 DEF PassInv, KeysOK
    <2>5. \A e \in ExpenseIds :
              expense'[e].via = "absent" => expense'[e].linked = NoTxn
      BY DEF PassInv, KeysOK
    <2>6. \A r \in RunIds : Automatic(r)' => run'[r].status = "resolved"
      BY DEF PassInv, KeysOK, Automatic
    <2> QED BY <2>3, <2>4, <2>5, <2>6 DEF KeysOK
  <1>2. Alone'
    BY DEF PassInv, Alone, Active
  <1>3. ASSUME NEW p \in Passes
        PROVE  Current(p)'
    <2>1. pass[p].offered \subseteq ExpenseIds
      BY DEF TypeOK, PassType
    <2>2. \A e \in pass[p].offered :
              /\ expense'[e].via # "absent"
              /\ expense'[e].linked = expense[e].linked
      BY <2>1 DEF PassInv, Current
    <2> QED BY <2>2, SameCurrent DEF PassInv
  <1> QED BY <1>1, <1>2, <1>3 DEF PassInv

\* Steps of a running pass that write nothing but the pass.
LEMMA PassOnly ==
    ASSUME TypeOK, PassInv, UNCHANGED <<expense, run, tap>>,
           NEW p \in Passes, NEW s, pass' = [pass EXCEPT ![p] = s],
           Active(p)' => Active(p) \/ \A q \in Passes : ~Active(q),
           Current(p)'
    PROVE  PassInv'
  <1>0. \A q \in Passes : q # p => pass'[q] = pass[q]
    BY DEF TypeOK
  <1>1. KeysOK'
    BY DEF PassInv, KeysOK, Automatic
  <1>2. Alone'
    BY <1>0 DEF PassInv, Alone, Active
  <1>3. ASSUME NEW q \in Passes, q # p
        PROVE  Current(q)'
    <2>1. \A e \in pass[q].offered :
              /\ expense'[e].via # "absent"
              /\ expense'[e].linked = expense[e].linked
      BY DEF PassInv, Current
    <2> QED BY <1>0, <1>3, <2>1, SameCurrent DEF PassInv
  <1> QED BY <1>1, <1>2, <1>3 DEF PassInv

\* A pass that decides what to do with its transaction, when it is alone.
LEMMA ActAlone ==
    ASSUME TypeOK, LocalOK, BatchInv, PassInv,
           NEW p \in Passes, NEW t \in Txns, NEW action \in Actions,
           NEW status \in {"open", "resolved"},
           Acting(p, t, action), RecordRun(p, t, status, action),
           action # "ask_user" => status = "resolved",
           NEW s, pass' = [pass EXCEPT ![p] = s],
           s.pc = "next", s.todo = pass[p].todo, s.current = NoTxn,
           s.offered = {}, UNCHANGED tap,
           \A e \in ExpenseIds : e # <<"auto", <<p, t>>>> =>
              /\ expense'[e].via = expense[e].via
              /\ expense'[e].linked # expense[e].linked =>
                    expense[e].via # "absent",
           expense'[<<"auto", <<p, t>>>>].via = "absent" =>
              expense'[<<"auto", <<p, t>>>>].linked = NoTxn
    PROVE  PassInv'
  <1>1. /\ pass[p].pc = "act" /\ pass[p].current = t /\ Active(p)
        /\ PassOK(p) /\ Current(p) /\ pass[p].todo \subseteq Txns
    BY DEF Acting, Active, LocalOK, PassInv, TypeOK, PassType
  <1>2. /\ <<p, t>> \in RunIds /\ t \notin pass[p].todo
        /\ run[<<p, t>>].status = "absent"
    BY <1>1 DEF PassOK, RunIds
  <1>3. /\ run'[<<p, t>>] = [status |-> status, decision |-> action]
        /\ \A r \in RunIds : r # <<p, t>> => run'[r] = run[r]
    BY <1>2 DEF RecordRun, TypeOK
  <1>4. KeysOK'
    <2>1. \A r \in RunIds : run'[r].status = "absent" =>
              /\ run'[r].decision = "none"
              /\ expense'[<<"auto", r>>].via = "absent"
      <3>1. \A r \in RunIds : /\ <<"auto", r>> \in ExpenseIds
                              /\ r # <<p, t>> =>
                                    <<"auto", r>> # <<"auto", <<p, t>>>>
        BY DEF ExpenseIds
      <3> QED BY <1>3, <3>1 DEF PassInv, KeysOK
    <2>2. \A k \in Taps : tap'[k].pc \in {"idle", "opened", "flushed"} =>
              expense'[<<"answer", k>>].via = "absent"
      <3>1. \A k \in Taps : /\ <<"answer", k>> \in ExpenseIds
                            /\ <<"answer", k>> # <<"auto", <<p, t>>>>
        BY DEF ExpenseIds
      <3> QED BY <3>1 DEF PassInv, KeysOK
    <2>3. \A e \in ExpenseIds :
              expense'[e].via = "absent" => expense'[e].linked = NoTxn
      BY DEF PassInv, KeysOK
    <2>4. \A r \in RunIds : Automatic(r)' => run'[r].status = "resolved"
      BY <1>3 DEF PassInv, KeysOK, Automatic
    <2> QED BY <2>1, <2>2, <2>3, <2>4 DEF KeysOK
  <1>5. pass'[p] = s /\ \A q \in Passes : q # p => pass'[q] = pass[q]
    BY DEF TypeOK
  <1>6. Alone'
    BY <1>1, <1>5 DEF PassInv, Alone, Active
  <1>7. Current(p)'
    <2>1. \A u \in pass[p].todo, q \in Passes :
              /\ <<q, u>> \in RunIds /\ <<q, u>> # <<p, t>>
              /\ ~Automatic(<<q, u>>)
      BY <1>1, <1>2 DEF Current, Ahead, RunIds
    <2>2. \A u \in pass[p].todo, q \in Passes : ~Automatic(<<q, u>>)'
      BY <1>3, <2>1 DEF Automatic
    <2> QED BY <1>5, <2>2 DEF Current, Ahead, NoTxn, Txns
  <1>8. ASSUME NEW q \in Passes, q # p
        PROVE  Current(q)'
    <2>1. ~Active(q)
      BY <1>1, <1>8 DEF PassInv, Alone
    <2> QED BY <1>5, <1>8, <2>1, RestingCurrent DEF PassInv
  <1> QED BY <1>4, <1>6, <1>7, <1>8 DEF PassInv

\* No row key is used and no pass holds a candidate at the start.
LEMMA PassInvInit == Init => PassInv
  BY DEF Init, PassInv, KeysOK, Alone, Current, Ahead, Active, Automatic,
         NoRow, IdlePass, IdleTap, RunIds, ExpenseIds

\* With one pass at a time every step keeps its candidates unlinked.
LEMMA PassInvStep ==
    ASSUME "one_pass" \in Discipline, IInv, BatchInv, PassInv, [Next]_vars
    PROVE  PassInv'
  <1>0. /\ TypeOK /\ LocalOK /\ ProcessedIffResolved
        /\ \A p \in Passes : /\ pass[p] \in PassType
                             /\ Accounted(p) /\ PassOK(p) /\ Current(p)
    BY DEF IInv, TypeOK, BatchInv, LocalOK, PassInv
  <1>1. ASSUME NEW t \in Txns, IngestSms(t) \/ IngestPhoto(t)
        PROVE  PassInv'
    BY <1>1, TapOnly DEF IngestSms, IngestPhoto, Insert
  <1>2. ASSUME NEW l \in Logs, LogManual(l)
        PROVE  PassInv'
    <2>1. /\ <<"log", l>> \in ExpenseIds /\ <<"log", l>> \in LogRows
          /\ expense[<<"log", l>>].via = "absent"
          /\ expense'[<<"log", l>>].linked = NoTxn
          /\ \A e \in ExpenseIds : e # <<"log", l>> => expense'[e] = expense[e]
      BY <1>0, <1>2 DEF LogManual, ExpenseIds, LogRows, TypeOK
    <2>2. \A e \in ExpenseIds :
              expense[e].via = "absent" => expense[e].linked = NoTxn
      BY DEF PassInv, KeysOK
    <2> QED BY <1>0, <1>2, <2>1, <2>2, RowOnly DEF LogManual
  <1>3. ASSUME NEW e \in ExpenseIds, NEW c \in Categories, Recategorize(e, c)
        PROVE  PassInv'
    <2>1. /\ \A x \in ExpenseIds : /\ expense'[x].via = expense[x].via
                                   /\ expense'[x].linked = expense[x].linked
          /\ \A x \in ExpenseIds : x # e => expense'[x] = expense[x]
          /\ expense[e].via # "absent"
      BY <1>0, <1>3 DEF Recategorize, TypeOK, ExpenseRow
    <2>2. \A x \in ExpenseIds :
              expense[x].via = "absent" => expense[x].linked = NoTxn
      BY DEF PassInv, KeysOK
    <2> QED BY <1>0, <1>3, <2>1, <2>2, RowOnly DEF Recategorize
  <1>4. ASSUME NEW p \in Passes, StartPass(p)
        PROVE  PassInv'
    <2> DEFINE s == [pass[p] EXCEPT !.pc = "next", !.taken = Pending,
                                    !.todo = Pending]
    <2>1. /\ pass' = [pass EXCEPT ![p] = s] /\ pass'[p] = s
          /\ run' = run /\ expense' = expense /\ tap' = tap
          /\ pass[p].pc = "idle"
          /\ \A q \in Passes : ~Active(q)
      BY <1>0, <1>4 DEF StartPass, TypeOK
    <2>2. /\ s.pc = "next" /\ s.todo = Pending /\ s.current = NoTxn
          /\ s.offered = {}
      BY <1>0, <2>1 DEF PassType, Accounted, Current
    <2>3. \A t \in Pending, q \in Passes : ~Automatic(<<q, t>>)
      <3>1. \A t \in Pending, q \in Passes : run[<<q, t>>].status # "resolved"
        BY <1>0 DEF Pending, ProcessedIffResolved
      <3> QED BY <3>1 DEF PassInv, KeysOK, RunIds, Pending
    <2>4. Current(p)'
      BY <2>1, <2>2, <2>3 DEF Current, Ahead, Automatic, NoTxn, Txns
    <2> QED BY <1>0, <2>1, <2>4, PassOnly
  <1>5. ASSUME NEW p \in Passes, NEW t \in Txns, Perceive(p, t)
        PROVE  PassInv'
    <2>1. PICK C \in SUBSET Window(txn[t].msg) :
             pass' = [pass EXCEPT
                 ![p].pc = "decide", ![p].todo = @ \ {t},
                 ![p].current = t, ![p].offered = C,
                 ![p].remembered = Recalled(txn[t].msg)]
      BY <1>5 DEF Perceive
    <2> DEFINE s == [pass[p] EXCEPT
                 !.pc = "decide", !.todo = @ \ {t}, !.current = t,
                 !.offered = C, !.remembered = Recalled(txn[t].msg)]
    <2>2. /\ pass' = [pass EXCEPT ![p] = s] /\ pass'[p] = s
          /\ run' = run /\ expense' = expense /\ tap' = tap
          /\ pass[p].pc = "next" /\ t \in pass[p].todo
      BY <1>0, <1>5, <2>1 DEF Perceive, TypeOK
    <2>3. /\ s.pc = "decide" /\ s.todo = pass[p].todo \ {t} /\ s.current = t
          /\ s.offered = C
      BY <1>0 DEF PassType
    <2>4. \A e \in C : expense[e].via # "absent" /\ expense[e].linked = NoTxn
      BY DEF Window, Ledger
    <2>5. Current(p)'
      BY <1>0, <2>2, <2>3, <2>4 DEF Current, Ahead, Automatic
    <2> QED BY <1>0, <2>2, <2>5, PassOnly DEF Active
  <1>6. ASSUME NEW p \in Passes, DecideFromMemory(p) \/ DecideByModel(p)
        PROVE  PassInv'
    <2>1. PICK d : Decide(p, d) /\ pass[p].pc = "decide"
      BY <1>6 DEF DecideFromMemory, DecideByModel
    <2> DEFINE s == [pass[p] EXCEPT !.pc = "act", !.decision = d]
    <2>2. /\ pass' = [pass EXCEPT ![p] = s] /\ pass'[p] = s
          /\ run' = run /\ expense' = expense /\ tap' = tap
      BY <1>0, <2>1 DEF Decide, TypeOK
    <2>3. /\ s.pc = "act" /\ s.todo = pass[p].todo
          /\ s.current = pass[p].current /\ s.offered = pass[p].offered
      BY <1>0 DEF PassType
    <2>4. Current(p)'
      BY <1>0, <2>1, <2>2, <2>3 DEF Current, Ahead, Automatic
    <2> QED BY <1>0, <2>1, <2>2, <2>4, PassOnly DEF Active
  <1>7. ASSUME NEW p \in Passes, SkipTxn(p)
        PROVE  PassInv'
    <2> DEFINE s == Skipping(pass[p])
    <2>1. /\ pass' = [pass EXCEPT ![p] = s] /\ pass'[p] = s
          /\ run' = run /\ expense' = expense /\ tap' = tap
          /\ pass[p].pc = "decide"
      BY <1>0, <1>7 DEF SkipTxn, TypeOK
    <2>2. /\ s.pc = "next" /\ s.todo = pass[p].todo /\ s.current = NoTxn
          /\ s.offered = {}
      BY <1>0 DEF PassType, Skipping, Onward
    <2> HIDE DEF s
    <2>3. Current(p)'
      BY <1>0, <2>1, <2>2 DEF Current, Ahead, Automatic, NoTxn, Txns
    <2> QED BY <1>0, <2>1, <2>3, PassOnly DEF Active
  <1>8. ASSUME NEW p \in Passes, NEW t \in Txns, AutoLink(p, t)
        PROVE  PassInv'
    <2> DEFINE s == Onward(pass[p])
               e == pass[p].decision.target
    <2>1. /\ s.pc = "next" /\ s.todo = pass[p].todo /\ s.current = NoTxn
          /\ s.offered = {}
      BY <1>0 DEF Onward, PassType
    <2>2. /\ Acting(p, t, "auto_link") /\ tap' = tap
          /\ RecordRun(p, t, "resolved", "auto_link")
          /\ pass' = [pass EXCEPT ![p] = s]
          /\ expense' = [expense EXCEPT ![e].linked = t]
      BY <1>8 DEF AutoLink, Settle
    <2>3. e \in pass[p].offered
      BY <1>0, <2>2 DEF Acting, PassOK
    <2>4. /\ expense[e].via # "absent" /\ e \in LogRows /\ e \in ExpenseIds
      BY <1>0, <2>3 DEF Current, PassOK, PassType
    <2>5. /\ \A x \in ExpenseIds : expense'[x].via = expense[x].via
          /\ \A x \in ExpenseIds : x # e => expense'[x] = expense[x]
      BY <1>0, <2>2, <2>4 DEF TypeOK, ExpenseRow
    <2>6. /\ <<"auto", <<p, t>>>> \in ExpenseIds
          /\ <<"auto", <<p, t>>>> \notin LogRows
      BY DEF ExpenseIds, LogRows, RunIds
    <2>7. expense'[<<"auto", <<p, t>>>>].via = "absent" =>
              expense'[<<"auto", <<p, t>>>>].linked = NoTxn
      BY <2>4, <2>5, <2>6 DEF PassInv, KeysOK
    <2>8. \A x \in ExpenseIds : x # <<"auto", <<p, t>>>> =>
              /\ expense'[x].via = expense[x].via
              /\ expense'[x].linked # expense[x].linked =>
                    expense[x].via # "absent"
      BY <2>4, <2>5
    <2> HIDE DEF s, e
    <2> QED BY <1>0, <2>1, <2>2, <2>7, <2>8, ActAlone DEF Actions
  <1>9. ASSUME NEW p \in Passes, NEW t \in Txns, AutoLog(p, t)
        PROVE  PassInv'
    <2> DEFINE s == Onward(pass[p])
               e == <<"auto", <<p, t>>>>
    <2>1. /\ s.pc = "next" /\ s.todo = pass[p].todo /\ s.current = NoTxn
          /\ s.offered = {}
      BY <1>0 DEF Onward, PassType
    <2>2. /\ Acting(p, t, "auto_log") /\ tap' = tap
          /\ RecordRun(p, t, "resolved", "auto_log")
          /\ pass' = [pass EXCEPT ![p] = s]
          /\ expense' = [expense EXCEPT ![e] = AutoRow(p, t)]
      BY <1>9 DEF AutoLog, Settle
    <2>3. /\ e \in ExpenseIds
          /\ \A x \in ExpenseIds : x # e => expense'[x] = expense[x]
          /\ expense'[e].via = "auto_log"
      BY <1>0, <2>2 DEF TypeOK, ExpenseIds, RunIds, AutoRow, Row
    <2> HIDE DEF s
    <2> QED BY <1>0, <2>1, <2>2, <2>3, ActAlone DEF Actions
  <1>10. ASSUME NEW p \in Passes, NEW t \in Txns, AskUser(p, t)
         PROVE  PassInv'
    <2> DEFINE s == Asking(pass[p])
    <2>0. /\ Acting(p, t, "ask_user") /\ tap' = tap
          /\ RecordRun(p, t, "open", "ask_user")
          /\ pass' = [pass EXCEPT ![p] = s] /\ expense' = expense
      BY <1>10 DEF AskUser
    <2>1. /\ s.pc = "next" /\ s.todo = pass[p].todo /\ s.current = NoTxn
          /\ s.offered = {}
      BY <1>0 DEF Asking, Onward, PassType
    <2>2. /\ <<"auto", <<p, t>>>> \in ExpenseIds
          /\ expense[<<"auto", <<p, t>>>>].via = "absent" =>
                expense[<<"auto", <<p, t>>>>].linked = NoTxn
      BY DEF ExpenseIds, RunIds, PassInv, KeysOK
    <2> HIDE DEF s
    <2> QED BY <1>0, <2>0, <2>1, <2>2, ActAlone DEF Actions
  <1>11. ASSUME NEW p \in Passes, FinishBatch(p) \/ SendSummary(p)
         PROVE  PassInv'
    <2>1. PICK pc \in {"send", "done"} :
             /\ pass' = [pass EXCEPT ![p].pc = pc]
             /\ run' = run /\ expense' = expense /\ tap' = tap
             /\ pass[p].pc \in {"next", "send"}
      BY <1>11 DEF FinishBatch, SendSummary
    <2> DEFINE s == [pass[p] EXCEPT !.pc = pc]
    <2>2. pass' = [pass EXCEPT ![p] = s] /\ pass'[p] = s
      BY <1>0, <2>1 DEF TypeOK
    <2>3. s.pc = pc /\ s.offered = pass[p].offered
      BY <1>0 DEF PassType
    <2>4. Current(p)'
      BY <1>0, <2>1, <2>2, <2>3 DEF Current
    <2> QED BY <1>0, <2>1, <2>2, <2>4, PassOnly DEF Active
  <1>12. ASSUME NEW p \in Passes, NEW t \in Txns, SendQuestion(p, t)
         PROVE  PassInv'
    <2> DEFINE s == [pass[p] EXCEPT !.questions = @ \ {t}]
    <2>1. /\ pass' = [pass EXCEPT ![p] = s] /\ pass'[p] = s
          /\ run' = run /\ expense' = expense /\ tap' = tap
          /\ pass[p].pc = "send"
      BY <1>0, <1>12 DEF SendQuestion, TypeOK
    <2>2. s.pc = "send" /\ s.offered = pass[p].offered
      BY <1>0, <2>1 DEF PassType
    <2>3. Current(p)'
      BY <1>0, <2>1, <2>2 DEF Current
    <2> QED BY <1>0, <2>1, <2>3, PassOnly DEF Active
  <1>13. ASSUME NEW p \in Passes, PassDies(p)
         PROVE  PassInv'
    <2> DEFINE s == [IdlePass EXCEPT !.pc = "dead"]
    <2>1. /\ pass' = [pass EXCEPT ![p] = s] /\ pass'[p] = s
          /\ run' = run /\ expense' = expense /\ tap' = tap
      BY <1>0, <1>13 DEF PassDies, TypeOK
    <2>2. Current(p)' /\ Active(p)
      BY <1>13, <2>1 DEF Current, IdlePass, PassDies
    <2> QED BY <1>0, <2>1, <2>2, PassOnly
  <1>14. ASSUME NEW k \in Taps, NEW r \in RunIds, NEW c \in Categories,
                AnswerRead(k, r, c)
         PROVE  PassInv'
    BY <1>0, <1>14, TapOnly DEF AnswerRead, MayTap, TypeOK
  <1>15. ASSUME NEW k \in Taps,
                AnswerFlush(k) \/ AnswerConflict(k) \/ AnswerDies(k)
         PROVE  PassInv'
    <2>1. /\ UNCHANGED <<expense, run, pass>>
          /\ tap[k].pc \in {"opened", "flushed"}
          /\ \A j \in Taps : j # k => tap'[j] = tap[j]
      BY <1>0, <1>15 DEF AnswerFlush, AnswerConflict, AnswerDies, InFlight,
                         TypeOK
    <2> QED BY <2>1, TapOnly
  <1>16. ASSUME NEW k \in Taps, AnswerCommit(k)
         PROVE  PassInv'
    <2> DEFINE r == tap[k].run
               e == <<"answer", k>>
    <2>1. r \in RunIds /\ run[r].status # "absent"
      BY <1>0, <1>16 DEF AnswerCommit, LocalOK, TapOK, InFlight
    <2>2. /\ \A x \in RunIds : /\ run'[x].decision = run[x].decision
                               /\ x # r => run'[x] = run[x]
          /\ run'[r].status = "resolved"
          /\ pass' = pass
      BY <1>0, <1>16, <2>1 DEF AnswerCommit, TypeOK
    <2>3. /\ e \in ExpenseIds /\ e \notin LogRows
          /\ \A x \in ExpenseIds : x # e => expense'[x] = expense[x]
          /\ expense'[e].via = "manual"
      BY <1>0, <1>16 DEF AnswerCommit, Answered, Row, TypeOK, ExpenseIds,
                         LogRows
    <2>4. /\ tap'[k].pc = "done"
          /\ \A j \in Taps : j # k => tap'[j] = tap[j]
      BY <1>0, <1>16 DEF AnswerCommit, TypeOK, IdleTap
    <2>5. KeysOK'
      <3>1. \A x \in RunIds : run'[x].status = "absent" =>
                /\ run'[x].decision = "none"
                /\ expense'[<<"auto", x>>].via = "absent"
        <4>1. \A x \in RunIds : /\ <<"auto", x>> \in ExpenseIds
                                /\ <<"auto", x>> # e
          BY DEF ExpenseIds
        <4> QED BY <2>1, <2>2, <2>3, <4>1 DEF PassInv, KeysOK
      <3>2. \A j \in Taps : tap'[j].pc \in {"idle", "opened", "flushed"} =>
                expense'[<<"answer", j>>].via = "absent"
        <4>1. \A j \in Taps : /\ <<"answer", j>> \in ExpenseIds
                              /\ j # k => <<"answer", j>> # e
          BY DEF ExpenseIds
        <4> QED BY <2>3, <2>4, <4>1 DEF PassInv, KeysOK
      <3>3. \A x \in ExpenseIds :
                expense'[x].via = "absent" => expense'[x].linked = NoTxn
        BY <2>3 DEF PassInv, KeysOK
      <3>4. \A x \in RunIds : Automatic(x)' => run'[x].status = "resolved"
        BY <2>1, <2>2 DEF PassInv, KeysOK, Automatic
      <3> QED BY <3>1, <3>2, <3>3, <3>4 DEF KeysOK
    <2>6. Alone'
      BY <2>2 DEF PassInv, Alone, Active
    <2>7. ASSUME NEW p \in Passes
          PROVE  Current(p)'
      <3>1. \A x \in pass[p].offered : x # e /\ x \in ExpenseIds
        BY <1>0, <2>3 DEF PassOK, PassType
      <3>2. \A x \in pass[p].offered :
                /\ expense'[x].via # "absent"
                /\ expense'[x].linked = expense[x].linked
        BY <1>0, <2>3, <3>1 DEF Current
      <3> QED BY <1>0, <2>2, <3>2, SameCurrent
    <2> QED BY <2>5, <2>6, <2>7 DEF PassInv
  <1>17. CASE UNCHANGED vars
    BY <1>17, TapOnly DEF vars
  <1> QED BY <1>1, <1>2, <1>3, <1>4, <1>5, <1>6, <1>7, <1>8, <1>9, <1>10,
             <1>11, <1>12, <1>13, <1>14, <1>15, <1>16, <1>17
             DEF Next, PassStep, AnswerStep

\* So what a running pass holds is always still true, under one pass.
LEMMA PassAlways == "one_pass" \in Discipline => (Spec => []PassInv)
  <1> SUFFICES ASSUME "one_pass" \in Discipline PROVE Spec => []PassInv
    OBVIOUS
  <1>1. IInv /\ BatchInv /\ PassInv /\ [Next]_vars => PassInv'
    BY PassInvStep
  <1> QED BY <1>1, PassInvInit, Invariance, BatchAlways, PTL DEF Spec
=============================================================================
