---------------------------- MODULE LedgerProofs ----------------------------
(***************************************************************************)
(* What the ledger and the audit trail of Reconcile owe to each other: the *)
(* properties of the handlers under the habits "one_pass" and "one_tap",   *)
(* what a photo that was logged without asking rests on, under none, and   *)
(* the refinement of SpendLedger under all three.                          *)
(***************************************************************************)
EXTENDS HabitsProofs, FiniteSetTheorems

(***************************************************************************)
(* With one pass at a time a step either settles one run, by an expense    *)
(* that no transaction had before, or settles nothing.                     *)
(***************************************************************************)
Settles(p, t, e) ==
    /\ e \notin Linked(t)
    /\ Linked(t)' = Linked(t) \cup {e}
    /\ \A u \in Txns \ {t} : Linked(u)' = Linked(u)
    /\ Processed' = Processed \cup {t}
    /\ run'[<<p, t>>].status = "resolved"
    /\ \A r \in RunIds \ {<<p, t>>} : run'[r] = run[r]

SettlesNothing ==
    /\ \A u \in Txns : Linked(u)' = Linked(u)
    /\ Processed' = Processed
    /\ \A r \in RunIds :
          /\ run'[r].status = "resolved" <=> run[r].status = "resolved"
          /\ Automatic(r)' <=> Automatic(r)

\* Nobody's link changes when rows keep theirs and new ones have none.
LEMMA SameLinks ==
    ASSUME \A e \in ExpenseIds :
              \/ /\ expense'[e].via = "absent" <=> expense[e].via = "absent"
                 /\ expense'[e].linked = expense[e].linked
              \/ expense[e].via = "absent" /\ expense'[e].linked = NoTxn
    PROVE  \A u \in Txns : Linked(u)' = Linked(u)
  BY DEF Linked, Ledger, Txns, NoTxn

\* A row without a link gets one.
LEMMA OneLink ==
    ASSUME NEW e \in ExpenseIds, NEW t \in Txns, expense[e].linked = NoTxn,
           expense'[e].via # "absent", expense'[e].linked = t,
           \A x \in ExpenseIds \ {e} : expense'[x] = expense[x]
    PROVE  /\ e \notin Linked(t)
           /\ Linked(t)' = Linked(t) \cup {e}
           /\ \A u \in Txns \ {t} : Linked(u)' = Linked(u)
  BY DEF Linked, Ledger, Txns, NoTxn

\* What the two automatic branches of _act have in common.
LEMMA ActSettles ==
    ASSUME IInv, NEW p \in Passes, NEW t \in Txns, NEW action \in Actions,
           Acting(p, t, action), Settle(p, t, action),
           NEW e \in ExpenseIds, expense[e].linked = NoTxn,
           expense'[e].via # "absent", expense'[e].linked = t,
           \A x \in ExpenseIds \ {e} : expense'[x] = expense[x]
    PROVE  Settles(p, t, e)
  <1>1. /\ run'[<<p, t>>].status = "resolved"
        /\ \A r \in RunIds \ {<<p, t>>} : run'[r] = run[r]
    BY DEF Settle, RecordRun, IInv, TypeOK, RunIds
  <1>2. Processed' = Processed \cup {t}
    BY DEF Settle, Processed, IInv, TypeOK
  <1> QED BY <1>1, <1>2, OneLink DEF Settles

\* An automatic link settles its transaction.
LEMMA LinkSettles ==
    ASSUME IInv, PassInv, NEW p \in Passes, NEW t \in Txns, AutoLink(p, t)
    PROVE  Settles(p, t, pass[p].decision.target)
  <1> DEFINE e == pass[p].decision.target
  <1>1. Acting(p, t, "auto_link") /\ Settle(p, t, "auto_link")
    BY DEF AutoLink
  <1>2. e \in pass[p].offered
    BY <1>1 DEF IInv, LocalOK, PassOK, Acting
  <1>3. /\ e \in ExpenseIds /\ expense[e].via # "absent"
        /\ expense[e].linked = NoTxn
    BY <1>2 DEF PassInv, Current, IInv, TypeOK, PassType
  <1>4. /\ expense'[e].via # "absent" /\ expense'[e].linked = t
        /\ \A x \in ExpenseIds \ {e} : expense'[x] = expense[x]
    BY <1>3 DEF AutoLink, IInv, TypeOK, ExpenseRow
  <1> HIDE DEF e
  <1>5. Settles(p, t, e)
    BY <1>1, <1>3, <1>4, ActSettles DEF Actions
  <1> QED BY <1>5 DEF e

\* An automatic entry settles its transaction.
LEMMA LogSettles ==
    ASSUME IInv, PassInv, NEW p \in Passes, NEW t \in Txns, AutoLog(p, t)
    PROVE  Settles(p, t, <<"auto", <<p, t>>>>)
  <1> DEFINE e == <<"auto", <<p, t>>>>
  <1>1. Acting(p, t, "auto_log") /\ Settle(p, t, "auto_log")
    BY DEF AutoLog
  <1>2. run[<<p, t>>].status = "absent"
    BY <1>1 DEF IInv, LocalOK, PassOK, Acting
  <1>3. e \in ExpenseIds /\ <<p, t>> \in RunIds
    BY DEF ExpenseIds, RunIds
  <1>4. expense[e].linked = NoTxn
    BY <1>2, <1>3 DEF PassInv, KeysOK
  <1>5. /\ expense'[e].via # "absent" /\ expense'[e].linked = t
        /\ \A x \in ExpenseIds \ {e} : expense'[x] = expense[x]
    BY <1>3 DEF AutoLog, AutoRow, Row, IInv, TypeOK
  <1> QED BY <1>1, <1>3, <1>4, <1>5, ActSettles DEF Actions

\* An accepted answer settles its transaction and keeps its run.
LEMMA AnswerSettles ==
    ASSUME IInv, PassInv, NEW k \in Taps, AnswerCommit(k)
    PROVE  /\ tap[k].run \in RunIds
           /\ run'[tap[k].run].decision = run[tap[k].run].decision
           /\ \A p \in Passes, t \in Txns : tap[k].run = <<p, t>> =>
                 Settles(p, t, <<"answer", k>>)
  <1> DEFINE e == <<"answer", k>>
  <1>1. tap[k].run \in RunIds /\ tap[k].pc = "flushed"
    BY DEF AnswerCommit, IInv, LocalOK, TapOK, InFlight
  <1>2. run'[tap[k].run].decision = run[tap[k].run].decision
    BY <1>1 DEF AnswerCommit, IInv, TypeOK
  <1>3. ASSUME NEW p \in Passes, NEW t \in Txns, tap[k].run = <<p, t>>
        PROVE  Settles(p, t, e)
    <2>1. e \in ExpenseIds /\ expense[e].linked = NoTxn
      BY <1>1 DEF PassInv, KeysOK, ExpenseIds
    <2>2. /\ expense'[e].via # "absent" /\ expense'[e].linked = t
          /\ \A x \in ExpenseIds \ {e} : expense'[x] = expense[x]
      BY <1>3, <2>1 DEF AnswerCommit, Answered, Row, IInv, TypeOK
    <2>3. /\ run'[<<p, t>>].status = "resolved"
          /\ \A r \in RunIds \ {<<p, t>>} : run'[r] = run[r]
      BY <1>1, <1>3 DEF AnswerCommit, IInv, TypeOK
    <2>4. Processed' = Processed \cup {t}
      BY <1>3 DEF AnswerCommit, Processed, IInv, TypeOK
    <2> QED BY <2>1, <2>2, <2>3, <2>4, OneLink DEF Settles
  <1> QED BY <1>1, <1>2, <1>3

\* A run is a pass and a transaction.
LEMMA RunParts ==
    ASSUME NEW r \in RunIds
    PROVE  \E p \in Passes, t \in Txns : r = <<p, t>>
  BY DEF RunIds

\* The steps that neither link nor answer.
LEMMA OtherSettlesNothing ==
    ASSUME IInv, PassInv, [Next]_vars,
           \A p \in Passes, t \in Txns : ~AutoLink(p, t) /\ ~AutoLog(p, t),
           \A k \in Taps : ~AnswerCommit(k)
    PROVE  SettlesNothing
  <1>1. CASE UNCHANGED <<txn, expense, run>>
    BY <1>1 DEF SettlesNothing, Linked, Ledger, Processed, Automatic
  <1>2. ASSUME NEW t \in Txns, NEW m \in Messages, Insert(t, m)
        PROVE  SettlesNothing
    <2>1. Processed' = Processed
      BY <1>2 DEF Insert, Processed, IInv, TypeOK
    <2> QED BY <1>2, <2>1 DEF Insert, SettlesNothing, Linked, Ledger, Automatic
  <1>3. ASSUME NEW l \in Logs, LogManual(l)
        PROVE  SettlesNothing
    <2>1. /\ expense[<<"log", l>>].via = "absent"
          /\ expense'[<<"log", l>>].linked = NoTxn
          /\ \A e \in ExpenseIds \ {<<"log", l>>} : expense'[e] = expense[e]
      BY <1>3 DEF LogManual, ExpenseIds, IInv, TypeOK
    <2>2. \A u \in Txns : Linked(u)' = Linked(u)
      BY <2>1, SameLinks
    <2> QED BY <1>3, <2>2 DEF LogManual, SettlesNothing, Processed, Automatic
  <1>4. ASSUME NEW e \in ExpenseIds, NEW c \in Categories, Recategorize(e, c)
        PROVE  SettlesNothing
    <2>1. \A x \in ExpenseIds : /\ expense'[x].via = expense[x].via
                                /\ expense'[x].linked = expense[x].linked
      BY <1>4 DEF Recategorize, IInv, TypeOK, ExpenseRow
    <2>2. \A u \in Txns : Linked(u)' = Linked(u)
      BY <2>1, SameLinks
    <2> QED BY <1>4, <2>2
            DEF Recategorize, SettlesNothing, Processed, Automatic
  <1>5. ASSUME NEW p \in Passes, NEW t \in Txns, AskUser(p, t)
        PROVE  SettlesNothing
    <2>1. run[<<p, t>>].status = "absent" /\ <<p, t>> \in RunIds
      BY <1>5 DEF AskUser, Acting, IInv, LocalOK, PassOK, RunIds
    <2>2. /\ run'[<<p, t>>] = [status |-> "open", decision |-> "ask_user"]
          /\ \A r \in RunIds \ {<<p, t>>} : run'[r] = run[r]
      BY <1>5, <2>1 DEF AskUser, RecordRun, IInv, TypeOK
    <2>3. ~Automatic(<<p, t>>)
      BY <2>1 DEF PassInv, KeysOK, Automatic
    <2> QED BY <1>5, <2>1, <2>2, <2>3
            DEF AskUser, SettlesNothing, Linked, Ledger, Processed, Automatic
  <1>6. \/ UNCHANGED <<txn, expense, run>>
        \/ \E t \in Txns, m \in Messages : Insert(t, m)
        \/ \E l \in Logs : LogManual(l)
        \/ \E e \in ExpenseIds, c \in Categories : Recategorize(e, c)
        \/ \E p \in Passes, t \in Txns : AskUser(p, t)
    <2>1. ASSUME NEW p \in Passes, StartPass(p) \/ PassStep(p) \/ PassDies(p)
          PROVE  \/ UNCHANGED <<txn, expense, run>>
                 \/ \E t \in Txns : AskUser(p, t)
      BY <2>1 DEF PassStep, StartPass, Perceive, SendQuestion, FinishBatch,
         DecideFromMemory, DecideByModel, Decide, SkipTxn, SendSummary,
         PassDies
    <2>2. ASSUME NEW k \in Taps, AnswerStep(k) \/ AnswerDies(k)
          PROVE  UNCHANGED <<txn, expense, run>>
      BY <2>2 DEF AnswerStep, AnswerFlush, AnswerConflict, AnswerDies
    <2>3. ASSUME NEW k \in Taps, NEW r \in RunIds, NEW c \in Categories,
                 AnswerRead(k, r, c)
          PROVE  UNCHANGED <<txn, expense, run>>
      BY <2>3 DEF AnswerRead
    <2> QED BY <2>1, <2>2, <2>3 DEF Next, vars, IngestSms, IngestPhoto
  <1> QED BY <1>1, <1>2, <1>3, <1>4, <1>5, <1>6

\* Every step, in those terms.
LEMMA EveryStep ==
    ASSUME IInv, PassInv, [Next]_vars
    PROVE  \/ SettlesNothing
           \/ \E p \in Passes, t \in Txns, e \in ExpenseIds :
                 /\ Settles(p, t, e)
                 /\ \/ pass[p].pc = "act" /\ pass[p].current = t
                    \/ run'[<<p, t>>].decision = run[<<p, t>>].decision
  <1>1. ASSUME NEW p \in Passes, NEW t \in Txns, AutoLink(p, t)
        PROVE  /\ Settles(p, t, pass[p].decision.target)
               /\ pass[p].decision.target \in ExpenseIds
               /\ pass[p].pc = "act" /\ pass[p].current = t
    <2>1. pass[p].decision.target \in ExpenseIds
      BY <1>1 DEF AutoLink, Acting, IInv, LocalOK, PassOK, TypeOK, PassType
    <2> QED BY <1>1, <2>1, LinkSettles DEF AutoLink, Acting
  <1>2. ASSUME NEW p \in Passes, NEW t \in Txns, AutoLog(p, t)
        PROVE  /\ Settles(p, t, <<"auto", <<p, t>>>>)
               /\ <<"auto", <<p, t>>>> \in ExpenseIds
               /\ pass[p].pc = "act" /\ pass[p].current = t
    BY <1>2, LogSettles DEF AutoLog, Acting, ExpenseIds, RunIds
  <1>3. ASSUME NEW k \in Taps, AnswerCommit(k)
        PROVE  \E p \in Passes, t \in Txns :
                  /\ Settles(p, t, <<"answer", k>>)
                  /\ run'[<<p, t>>].decision = run[<<p, t>>].decision
    <2>1. PICK p \in Passes, t \in Txns : tap[k].run = <<p, t>>
      BY <1>3, AnswerSettles, RunParts
    <2>2. /\ Settles(p, t, <<"answer", k>>)
          /\ run'[<<p, t>>].decision = run[<<p, t>>].decision
      BY <1>3, <2>1, AnswerSettles
    <2> QED BY <2>2
  <1>4. \A k \in Taps : <<"answer", k>> \in ExpenseIds
    BY DEF ExpenseIds
  <1>5. CASE \E p \in Passes, t \in Txns : AutoLink(p, t)
    BY <1>1, <1>5
  <1>6. CASE \E p \in Passes, t \in Txns : AutoLog(p, t)
    BY <1>2, <1>6
  <1>7. CASE \E k \in Taps : AnswerCommit(k)
    <2>1. PICK k \in Taps : AnswerCommit(k)
      BY <1>7
    <2>2. PICK p \in Passes, t \in Txns :
             /\ Settles(p, t, <<"answer", k>>)
             /\ run'[<<p, t>>].decision = run[<<p, t>>].decision
      BY <1>3, <2>1
    <2> QED BY <1>4, <2>2
  <1> QED BY <1>5, <1>6, <1>7, OtherSettlesNothing

-----------------------------------------------------------------------------
\* One pass at a time: a link, once made, is never moved to another
\* transaction (agent.py _act writes linked_transaction_id unread).
THEOREM LinksArePermanent ==
    "one_pass" \in Discipline => (Spec => LinkIsPermanent)
  <1> SUFFICES ASSUME "one_pass" \in Discipline PROVE Spec => LinkIsPermanent
    OBVIOUS
  <1> DEFINE Kept == \A e \in Ledger : expense[e].linked # NoTxn =>
                         expense'[e].linked = expense[e].linked
  <1>1. ASSUME IInv, PassInv, [Next]_vars
        PROVE  Kept
    <2>1. \A e \in Ledger : expense[e].linked # NoTxn =>
              expense[e].linked \in Txns /\ e \in Linked(expense[e].linked)
      BY <1>1 DEF Ledger, Linked, IInv, TypeOK, ExpenseRow
    <2>2. \A u \in Txns : Linked(u) \subseteq Linked(u)'
      BY <1>1, EveryStep DEF Settles, SettlesNothing
    <2>3. \A u \in Txns : \A e \in Linked(u)' : expense'[e].linked = u
      BY DEF Linked
    <2> QED BY <2>1, <2>2, <2>3
  <1>2. IInv /\ PassInv /\ [Next]_vars => [Kept]_vars
    BY <1>1
  <1> QED BY <1>2, Invariance, PassAlways, PTL DEF Spec, LinkIsPermanent

\* One pass at a time: whatever is processed is backed by an expense.
THEOREM ProcessedIsInTheLedger ==
    "one_pass" \in Discipline => (Spec => []ProcessedIsBacked)
  <1> SUFFICES ASSUME "one_pass" \in Discipline
               PROVE  Spec => []ProcessedIsBacked
    OBVIOUS
  <1>1. Init => ProcessedIsBacked
    BY DEF Init, ProcessedIsBacked, Processed
  <1>2. IInv /\ PassInv /\ ProcessedIsBacked /\ [Next]_vars
            => ProcessedIsBacked'
    <2> SUFFICES ASSUME IInv, PassInv, ProcessedIsBacked, [Next]_vars
                 PROVE  ProcessedIsBacked'
      OBVIOUS
    <2>1. CASE SettlesNothing
      BY <2>1 DEF SettlesNothing, ProcessedIsBacked, Processed
    <2>2. ASSUME NEW p \in Passes, NEW t \in Txns, NEW e, Settles(p, t, e)
          PROVE  ProcessedIsBacked'
      BY <2>2 DEF Settles, ProcessedIsBacked, Processed
    <2> QED BY <2>1, <2>2, EveryStep
  <1> QED BY <1>1, <1>2, Invariance, PassAlways, PTL DEF Spec

\* One pass at a time: at most one pass settles a transaction by itself,
\* though none looks at its status again after it was read.
THEOREM OneDecides ==
    "one_pass" \in Discipline => (Spec => []OneAutomaticDecision)
  <1> SUFFICES ASSUME "one_pass" \in Discipline
               PROVE  Spec => []OneAutomaticDecision
    OBVIOUS
  <1> DEFINE Once == \A t \in Txns, p, q \in Passes :
                        Automatic(<<p, t>>) /\ Automatic(<<q, t>>) => p = q
  <1>0. Once <=> OneAutomaticDecision
    BY DEF OneAutomaticDecision, Automatic
  <1>1. Init => Once
    BY DEF Init, Automatic, RunIds
  <1>2. IInv /\ PassInv /\ Once /\ [Next]_vars => Once'
    <2> SUFFICES ASSUME IInv, PassInv, Once, [Next]_vars
                 PROVE  Once'
      OBVIOUS
    <2>1. CASE SettlesNothing
      <3>1. \A q \in Passes, u \in Txns :
                Automatic(<<q, u>>)' <=> Automatic(<<q, u>>)
        BY <2>1 DEF SettlesNothing, RunIds
      <3> QED BY <3>1
    <2>2. ASSUME NEW p \in Passes, NEW t \in Txns, NEW e, Settles(p, t, e),
                 \/ pass[p].pc = "act" /\ pass[p].current = t
                 \/ run'[<<p, t>>].decision = run[<<p, t>>].decision
          PROVE  Once'
      <3>1. \A q \in Passes, u \in Txns : q # p \/ u # t =>
                (Automatic(<<q, u>>)' <=> Automatic(<<q, u>>))
        BY <2>2 DEF Settles, RunIds, Automatic
      <3>2. CASE pass[p].pc = "act" /\ pass[p].current = t
        <4>1. \A q \in Passes : ~Automatic(<<q, t>>)
          BY <3>2 DEF PassInv, Current, Ahead
        <4> QED BY <3>1, <4>1
      <3>3. CASE run'[<<p, t>>].decision = run[<<p, t>>].decision
        <4>1. Automatic(<<p, t>>)' <=> Automatic(<<p, t>>)
          BY <3>3 DEF Automatic
        <4> QED BY <3>1, <4>1
      <3> QED BY <2>2, <3>2, <3>3
    <2> QED BY <2>1, <2>2, EveryStep
  <1> HIDE DEF Once
  <1>3. Spec => []Once
    BY <1>1, <1>2, Invariance, PassAlways, PTL DEF Spec
  <1> QED BY <1>0, <1>3, PTL

-----------------------------------------------------------------------------
(***************************************************************************)
(* One tap at a time, besides: the run an answer is about to resolve is    *)
(* open when it commits, so every settled run is counted once.             *)
(***************************************************************************)
TapInv == /\ \A j, k \in Taps : InFlight(j) /\ InFlight(k) => j = k
          /\ \A k \in Taps : InFlight(k) => run[tap[k].run].status = "open"

\* With one tap at a time every step leaves its open run to that tap.
LEMMA TapStep ==
    ASSUME "one_tap" \in Discipline, IInv, TapInv, [Next]_vars
    PROVE  TapInv'
  <1>0. TypeOK /\ LocalOK
    BY DEF IInv
  <1>1. CASE UNCHANGED <<run, tap>>
    BY <1>1 DEF TapInv, InFlight
  <1>2. ASSUME NEW p \in Passes, NEW t \in Txns,
               AutoLink(p, t) \/ AutoLog(p, t) \/ AskUser(p, t)
        PROVE  TapInv'
    <2>1. run[<<p, t>>].status = "absent" /\ tap' = tap
      BY <1>0, <1>2 DEF AutoLink, AutoLog, AskUser, Acting, LocalOK, PassOK
    <2>2. \A r \in RunIds : r # <<p, t>> => run'[r] = run[r]
      BY <1>0, <1>2 DEF AutoLink, AutoLog, AskUser, Settle, RecordRun, TypeOK
    <2>3. \A k \in Taps : InFlight(k) => /\ tap[k].run \in RunIds
                                         /\ tap[k].run # <<p, t>>
      BY <1>0, <2>1 DEF LocalOK, TapOK
    <2> QED BY <2>1, <2>2, <2>3 DEF TapInv, InFlight
  <1>3. ASSUME NEW k \in Taps, NEW r \in RunIds, NEW c \in Categories,
               AnswerRead(k, r, c)
        PROVE  TapInv'
    <2>1. /\ \A j \in Taps : ~InFlight(j)
          /\ run' = run
          /\ \A j \in Taps \ {k} : tap'[j] = tap[j]
          /\ InFlight(k)' => tap'[k].run = r /\ run[r].status = "open"
      BY <1>0, <1>3 DEF AnswerRead, MayTap, InFlight, TypeOK
    <2> QED BY <2>1 DEF TapInv, InFlight
  <1>4. ASSUME NEW k \in Taps,
               AnswerFlush(k) \/ AnswerConflict(k) \/ AnswerDies(k)
        PROVE  TapInv'
    <2>1. /\ run' = run /\ InFlight(k)
          /\ \A j \in Taps \ {k} : tap'[j] = tap[j]
          /\ InFlight(k)' => tap'[k].run = tap[k].run
      BY <1>0, <1>4 DEF AnswerFlush, AnswerConflict, AnswerDies, InFlight,
                        TypeOK, TapType, IdleTap
    <2> QED BY <2>1 DEF TapInv, InFlight
  <1>5. ASSUME NEW k \in Taps, AnswerCommit(k)
        PROVE  TapInv'
    <2>1. InFlight(k) /\ ~InFlight(k)'
      BY <1>0, <1>5 DEF AnswerCommit, InFlight, IdleTap, TypeOK
    <2>2. \A j \in Taps \ {k} : tap'[j] = tap[j] /\ ~InFlight(j)
      BY <1>0, <1>5, <2>1 DEF AnswerCommit, TapInv, TypeOK
    <2> QED BY <2>1, <2>2 DEF TapInv, InFlight
  <1>6. ASSUME NEW p \in Passes, StartPass(p) \/ PassStep(p) \/ PassDies(p)
        PROVE  \/ UNCHANGED <<run, tap>>
               \/ \E t \in Txns :
                     AutoLink(p, t) \/ AutoLog(p, t) \/ AskUser(p, t)
    BY <1>6 DEF PassStep, StartPass, Perceive, SendQuestion, FinishBatch,
       DecideFromMemory, DecideByModel, Decide, SkipTxn, SendSummary, PassDies
  <1> QED BY <1>1, <1>2, <1>3, <1>4, <1>5, <1>6
          DEF Next, vars, IngestSms, IngestPhoto, Insert, LogManual,
              Recategorize, AnswerStep

\* So a tap in flight is the only one and answers an open run.
LEMMA TapAlways == "one_tap" \in Discipline => (Spec => []TapInv)
  <1> SUFFICES ASSUME "one_tap" \in Discipline PROVE Spec => []TapInv
    OBVIOUS
  <1>1. Init => TapInv
    BY DEF Init, TapInv, InFlight, IdleTap
  <1>2. IInv /\ TapInv /\ [Next]_vars => TapInv'
    BY TapStep
  <1> QED BY <1>1, <1>2, Invariance, PTL DEF Spec

\* The passes whose run of a transaction is resolved.
Resolvers(t) == {p \in Passes : run[<<p, t>>].status = "resolved"}

CountOK(t) ==
    /\ IsFiniteSet(Linked(t)) /\ IsFiniteSet(Resolvers(t))
    /\ Cardinality(Linked(t)) = Cardinality(Resolvers(t))

\* A run that is settled was not, so both counts grow by one.
LEMMA CountStep ==
    ASSUME IInv, PassInv, TapInv, [Next]_vars, NEW u \in Txns, CountOK(u)
    PROVE  CountOK(u)'
  <1>1. CASE SettlesNothing
    BY <1>1 DEF SettlesNothing, CountOK, Resolvers, RunIds
  <1>2. ASSUME NEW p \in Passes, NEW t \in Txns, NEW e, Settles(p, t, e),
               run[<<p, t>>].status # "resolved"
        PROVE  CountOK(u)'
    <2>1. CASE u # t
      <3>1. Linked(u)' = Linked(u) /\ Resolvers(u)' = Resolvers(u)
        BY <1>2, <2>1 DEF Settles, Resolvers, RunIds
      <3> QED BY <3>1 DEF CountOK
    <2>2. CASE u = t
      <3>1. /\ Linked(t)' = Linked(t) \cup {e} /\ e \notin Linked(t)
            /\ Resolvers(t)' = Resolvers(t) \cup {p}
            /\ p \notin Resolvers(t)
        BY <1>2 DEF Settles, Resolvers, RunIds
      <3>2. /\ IsFiniteSet(Linked(t)')
            /\ Cardinality(Linked(t)') = Cardinality(Linked(t)) + 1
        BY <2>2, <3>1, FS_AddElement DEF CountOK
      <3>3. /\ IsFiniteSet(Resolvers(t)')
            /\ Cardinality(Resolvers(t)') = Cardinality(Resolvers(t)) + 1
        BY <2>2, <3>1, FS_AddElement DEF CountOK
      <3> QED BY <2>2, <3>2, <3>3 DEF CountOK
    <2> QED BY <2>1, <2>2
  <1>3. ASSUME NEW p \in Passes, NEW t \in Txns,
               AutoLink(p, t) \/ AutoLog(p, t)
        PROVE  CountOK(u)'
    <2>1. run[<<p, t>>].status # "resolved"
      BY <1>3 DEF AutoLink, AutoLog, Acting, IInv, LocalOK, PassOK
    <2> QED BY <1>2, <1>3, <2>1, LinkSettles, LogSettles
  <1>4. ASSUME NEW k \in Taps, AnswerCommit(k)
        PROVE  CountOK(u)'
    <2>1. run[tap[k].run].status # "resolved"
      BY <1>4 DEF AnswerCommit, InFlight, TapInv
    <2>2. PICK p \in Passes, t \in Txns : tap[k].run = <<p, t>>
      BY <1>4, AnswerSettles, RunParts
    <2>3. Settles(p, t, <<"answer", k>>)
      BY <1>4, <2>2, AnswerSettles
    <2> QED BY <1>2, <2>1, <2>2, <2>3
  <1> QED BY <1>1, <1>3, <1>4, OtherSettlesNothing

\* One pass and one tap at a time: the ledger and the audit trail count
\* alike, whatever dies in between.
THEOREM LedgerAndTrailAgree ==
    {"one_pass", "one_tap"} \subseteq Discipline
        => (Spec => []LedgerMatchesRuns)
  <1> SUFFICES ASSUME "one_pass" \in Discipline, "one_tap" \in Discipline
               PROVE  Spec => []LedgerMatchesRuns
    OBVIOUS
  <1> DEFINE Counts == \A t \in Txns : CountOK(t)
  <1>1. Init => Counts
    <2> SUFFICES ASSUME Init, NEW t \in Txns PROVE CountOK(t)
      OBVIOUS
    <2>1. Linked(t) = {} /\ Resolvers(t) = {}
      BY DEF Init, Linked, Ledger, Resolvers, NoRow, RunIds
    <2> QED BY <2>1, FS_EmptySet DEF CountOK
  <1>2. IInv /\ PassInv /\ TapInv /\ Counts /\ [Next]_vars => Counts'
    BY CountStep
  <1>3. Counts => LedgerMatchesRuns
    BY DEF CountOK, Resolvers, LedgerMatchesRuns
  <1> QED BY <1>1, <1>2, <1>3, Invariance, PassAlways, TapAlways, PTL DEF Spec

-----------------------------------------------------------------------------
(***************************************************************************)
(* Charges and photos.  Both need that a message does not change under a   *)
(* pass that has it; a photo needs that a merchant is never forgotten.     *)
(***************************************************************************)
Arrived(t) == txn[t].status # "absent"

Known(t) == LET key == MerchantKey(txn[t].msg.merchant)
            IN  key # NoKey /\ memory[key] # NoCategory

\* A message that has arrived stays what it is.
LEMMA Frozen ==
    ASSUME IInv, [Next]_vars, NEW t \in Txns, Arrived(t)
    PROVE  Arrived(t)' /\ txn'[t].msg = txn[t].msg
  <1>0. TypeOK /\ LocalOK
    BY DEF IInv
  <1>1. CASE txn' = txn
    BY <1>1 DEF Arrived
  <1>2. ASSUME NEW u \in Txns, NEW m \in Messages, Insert(u, m)
        PROVE  Arrived(t)' /\ txn'[t].msg = txn[t].msg
    BY <1>0, <1>2 DEF Insert, Arrived, TypeOK
  <1>3. ASSUME NEW u \in Txns, txn' = [txn EXCEPT ![u].status = "processed"]
        PROVE  Arrived(t)' /\ txn'[t].msg = txn[t].msg
    BY <1>0, <1>3 DEF Arrived, TypeOK
  <1>4. ASSUME NEW p \in Passes, StartPass(p) \/ PassStep(p) \/ PassDies(p)
        PROVE  \/ txn' = txn
               \/ \E u \in Txns : txn' = [txn EXCEPT ![u].status = "processed"]
    BY <1>4 DEF PassStep, StartPass, Perceive, SendQuestion, FinishBatch,
       DecideFromMemory, DecideByModel, Decide, SkipTxn, SendSummary,
       PassDies, AutoLink, AutoLog, AskUser, Settle
  <1>5. ASSUME NEW k \in Taps, AnswerStep(k) \/ AnswerDies(k)
        PROVE  \/ txn' = txn
               \/ \E u \in Txns : txn' = [txn EXCEPT ![u].status = "processed"]
    <2>1. AnswerCommit(k) => tap[k].run[2] \in Txns
      BY <1>0 DEF AnswerCommit, LocalOK, TapOK, InFlight, RunIds
    <2> QED BY <1>5, <2>1 DEF AnswerStep, AnswerFlush, AnswerConflict,
                              AnswerDies, AnswerCommit
  <1> QED BY <1>1, <1>2, <1>3, <1>4, <1>5
          DEF Next, vars, IngestSms, IngestPhoto, LogManual, Recategorize,
              AnswerRead

\* A merchant, once known, stays known, whatever its category becomes.
LEMMA Learned ==
    ASSUME IInv, [Next]_vars, NEW t \in Txns, Arrived(t), Known(t)
    PROVE  Known(t)'
  <1>1. txn'[t].msg = txn[t].msg
    BY Frozen
  <1>2. MerchantKey(txn[t].msg.merchant) \in Keys \cup {NoKey}
    BY MessageRange, GuardAssumption DEF IInv, MerchantKey
  <1>3. ASSUME NEW k \in Taps, AnswerCommit(k)
        PROVE  \A key \in Keys :
                   memory[key] # NoCategory => memory'[key] # NoCategory
    <2>1. tap[k].category \in Categories
      BY <1>3 DEF AnswerCommit, IInv, LocalOK, TapOK, InFlight
    <2> QED BY <1>3, <2>1, GuardAssumption
            DEF AnswerCommit, Remember, IInv, TypeOK
  <1>4. \/ memory' = memory
        \/ \E k \in Taps : AnswerCommit(k)
    <2>1. ASSUME NEW p \in Passes, StartPass(p) \/ PassStep(p) \/ PassDies(p)
          PROVE  memory' = memory
      BY <2>1 DEF PassStep, StartPass, Perceive, SendQuestion, FinishBatch,
         DecideFromMemory, DecideByModel, Decide, SkipTxn, SendSummary,
         PassDies, AutoLink, AutoLog, AskUser
    <2> QED BY <2>1 DEF Next, vars, IngestSms, IngestPhoto, Insert, LogManual,
            Recategorize, AnswerRead, AnswerStep, AnswerFlush, AnswerConflict,
            AnswerDies
  <1>5. \A key \in Keys :
            memory[key] # NoCategory => memory'[key] # NoCategory
    BY <1>3, <1>4
  <1> QED BY <1>1, <1>2, <1>5 DEF Known

\* What a pass has at hand has arrived; what it is about to log from a photo
\* without a caption is known.
Holds(p) ==
    /\ pass[p].pc \in {"next", "decide", "act"} =>
          \A t \in pass[p].todo : Arrived(t)
    /\ pass[p].pc \in {"decide", "act"} =>
          LET t == pass[p].current
              m == txn[t].msg
          IN  /\ Arrived(t)
              /\ pass[p].remembered # NoCategory => Known(t)
              /\ /\ pass[p].pc = "act"
                 /\ pass[p].decision.action = "auto_log"
                 /\ m.source = "photo" /\ m.hint = NoCategory
                 => Known(t)

Backed(p, t) ==
    /\ run[<<p, t>>].status # "absent" => Arrived(t)
    /\ run[<<p, t>>].decision = "auto_log" =>
          /\ run[<<p, t>>].status # "absent"
          /\ txn[t].msg.source = "photo" /\ txn[t].msg.hint = NoCategory
             => Known(t)

TaughtInv == /\ \A p \in Passes : Holds(p)
             /\ \A p \in Passes, t \in Txns : Backed(p, t)

\* What a pass holds stays true of it when a step leaves it alone.
LEMMA SameHolds ==
    ASSUME IInv, [Next]_vars, NEW p \in Passes, Holds(p), pass'[p] = pass[p]
    PROVE  Holds(p)'
  <1>1. pass[p].todo \subseteq Txns
    BY DEF IInv, TypeOK, PassType
  <1>2. pass[p].pc \in {"decide", "act"} => pass[p].current \in Txns
    BY DEF IInv, LocalOK, PassOK
  <1>3. \A t \in pass[p].todo : Arrived(t) => Arrived(t)'
    BY <1>1, Frozen
  <1>4. CASE pass[p].pc \notin {"decide", "act"}
    BY <1>3, <1>4 DEF Holds
  <1>5. CASE pass[p].pc \in {"decide", "act"}
    <2> DEFINE t == pass[p].current
    <2>1. Arrived(t)' /\ txn'[t].msg = txn[t].msg
      BY <1>2, <1>5, Frozen DEF Holds
    <2>2. Known(t) => Known(t)'
      BY <1>2, <1>5, Learned DEF Holds
    <2> QED BY <1>3, <1>5, <2>1, <2>2 DEF Holds
  <1> QED BY <1>4, <1>5

\* A step that leaves a run's decision alone keeps it backed.
LEMMA SameBacked ==
    ASSUME IInv, [Next]_vars, NEW p \in Passes, NEW t \in Txns, Backed(p, t),
           run'[<<p, t>>].decision = run[<<p, t>>].decision,
           run'[<<p, t>>].status # "absent"
              <=> run[<<p, t>>].status # "absent"
    PROVE  Backed(p, t)'
  <1>1. CASE Arrived(t)
    <2>1. Arrived(t)' /\ txn'[t].msg = txn[t].msg
      BY <1>1, Frozen
    <2>2. Known(t) => Known(t)'
      BY <1>1, Learned
    <2> QED BY <2>1, <2>2 DEF Backed
  <1>2. CASE ~Arrived(t)
    BY <1>2 DEF Backed
  <1> QED BY <1>1, <1>2

\* A step of a pass that writes no run.
LEMMA QuietTaught ==
    ASSUME IInv, TaughtInv, [Next]_vars, NEW p \in Passes, run' = run,
           \A q \in Passes \ {p} : pass'[q] = pass[q], Holds(p)'
    PROVE  TaughtInv'
  <1>1. \A q \in Passes \ {p} : Holds(q)'
    BY SameHolds DEF TaughtInv
  <1>2. \A q \in Passes, t \in Txns : Backed(q, t)'
    BY SameBacked DEF TaughtInv
  <1> QED BY <1>1, <1>2 DEF TaughtInv

\* A step of a pass that settles its transaction or asks about it.
LEMMA ActTaught ==
    ASSUME IInv, TaughtInv, [Next]_vars, NEW p \in Passes, NEW t \in Txns,
           NEW action \in Actions, NEW status \in {"open", "resolved"},
           Acting(p, t, action), RecordRun(p, t, status, action),
           NEW s, pass' = [pass EXCEPT ![p] = s],
           s.pc = "next", s.todo = pass[p].todo
    PROVE  TaughtInv'
  <1>0. TypeOK /\ Holds(p) /\ pass[p].pc = "act" /\ pass[p].current = t
    BY DEF IInv, TaughtInv, Acting
  <1>1. /\ pass'[p] = s
        /\ \A q \in Passes \ {p} : pass'[q] = pass[q]
    BY <1>0 DEF TypeOK
  <1>2. \A q \in Passes \ {p} : Holds(q)'
    BY <1>1, SameHolds DEF TaughtInv
  <1>3. Holds(p)'
    <2>1. \A u \in pass[p].todo : Arrived(u)'
      BY <1>0, Frozen DEF Holds, TypeOK, PassType
    <2> QED BY <1>1, <2>1 DEF Holds
  <1>4. /\ run'[<<p, t>>] = [status |-> status, decision |-> action]
        /\ \A q \in Passes, u \in Txns :
              q # p \/ u # t => run'[<<q, u>>] = run[<<q, u>>]
    BY <1>0 DEF RecordRun, TypeOK, RunIds
  <1>5. \A q \in Passes, u \in Txns : q # p \/ u # t => Backed(q, u)'
    BY <1>4, SameBacked DEF TaughtInv
  <1>6. Backed(p, t)'
    <2>1. Arrived(t) /\ Arrived(t)' /\ txn'[t].msg = txn[t].msg
      BY <1>0, Frozen DEF Holds
    <2>2. /\ action = "auto_log" /\ txn[t].msg.source = "photo"
          /\ txn[t].msg.hint = NoCategory
          => Known(t)'
      BY <1>0, <2>1, Learned DEF Holds, Acting
    <2> QED BY <1>4, <2>1, <2>2 DEF Backed
  <1> QED BY <1>2, <1>3, <1>5, <1>6 DEF TaughtInv

\* What is left of a model's reply when the guards are through with it.
LEMMA ModelIsCareful ==
    ASSUME TypeOK, NEW p \in Passes, NEW t \in Txns, NEW reply \in Replies,
           NEW duplicate \in BOOLEAN
    PROVE  LET d == Guarded(reply, pass[p].offered, txn[t].msg, duplicate)
           IN  /\ d.action # "ask_user" => ~duplicate
               /\ d.action = "auto_log" =>
                     ~(/\ txn[t].msg.source = "photo"
                       /\ txn[t].msg.hint = NoCategory)
  <1>1. IsDecision(reply, ExpenseIds)
    BY DEF Replies, IsDecision, Actions
  <1>2. pass[p].offered \subseteq ExpenseIds
    BY DEF TypeOK, PassType
  <1>3. txn[t].msg.hint \in Categories \cup {NoCategory}
    BY MessageRange
  <1>4. ASSUME NEW m, m.hint \in Categories \cup {NoCategory}
        PROVE  LET d == Guarded(reply, pass[p].offered, m, duplicate)
               IN  /\ d.action # "ask_user" => ~duplicate
                   /\ d.action = "auto_log" =>
                         ~(m.source = "photo" /\ m.hint = NoCategory)
    BY <1>1, <1>2, <1>4, GuardChainSound
  <1> QED BY <1>3, <1>4

\* Every step keeps what passes and runs hold backed by what was taught.
LEMMA TaughtStep ==
    ASSUME IInv, TaughtInv, [Next]_vars
    PROVE  TaughtInv'
  <1>0. /\ TypeOK /\ LocalOK
        /\ \A p \in Passes : pass[p] \in PassType /\ PassOK(p) /\ Holds(p)
    BY DEF IInv, TypeOK, LocalOK, TaughtInv
  <1>1. CASE UNCHANGED <<run, pass, delivered>>
    BY <1>1, SameHolds, SameBacked DEF TaughtInv
  <1>2. ASSUME NEW k \in Taps, AnswerCommit(k)
        PROVE  TaughtInv'
    <2>1. tap[k].run \in RunIds /\ run[tap[k].run].status # "absent"
      BY <1>0, <1>2 DEF AnswerCommit, LocalOK, TapOK, InFlight
    <2>2. \A r \in RunIds :
              /\ run'[r].decision = run[r].decision
              /\ run'[r].status # "absent" <=> run[r].status # "absent"
      BY <1>0, <1>2, <2>1 DEF AnswerCommit, TypeOK
    <2>3. \A p \in Passes, t \in Txns : <<p, t>> \in RunIds
      BY DEF RunIds
    <2>4. pass' = pass
      BY <1>2 DEF AnswerCommit
    <2> QED BY <2>2, <2>3, <2>4, SameHolds, SameBacked DEF TaughtInv
  <1>3. ASSUME NEW p \in Passes, StartPass(p)
        PROVE  TaughtInv'
    <2>1. /\ run' = run /\ txn' = txn
          /\ \A q \in Passes \ {p} : pass'[q] = pass[q]
          /\ pass'[p].pc = "next" /\ pass'[p].todo = Pending
      BY <1>0, <1>3 DEF StartPass, TypeOK, PassType
    <2>2. Holds(p)'
      BY <2>1 DEF Holds, Arrived, Pending
    <2> QED BY <2>1, <2>2, QuietTaught
  <1>4. ASSUME NEW p \in Passes, NEW t \in Txns, Perceive(p, t)
        PROVE  TaughtInv'
    <2>1. /\ run' = run /\ txn' = txn /\ memory' = memory
          /\ \A q \in Passes \ {p} : pass'[q] = pass[q]
          /\ pass'[p].pc = "decide" /\ pass'[p].current = t
          /\ pass'[p].todo = pass[p].todo \ {t}
          /\ pass'[p].remembered = Recalled(txn[t].msg)
          /\ pass[p].pc = "next" /\ t \in pass[p].todo
      BY <1>0, <1>4 DEF Perceive, TypeOK, PassType
    <2>2. Recalled(txn[t].msg) # NoCategory => Known(t)
      BY DEF Recalled, Known
    <2>3. Holds(p)'
      BY <1>0, <2>1, <2>2 DEF Holds, Arrived, Known
    <2> QED BY <2>1, <2>3, QuietTaught
  <1>5. ASSUME NEW p \in Passes, DecideFromMemory(p) \/ DecideByModel(p)
        PROVE  TaughtInv'
    <2> DEFINE t == pass[p].current
    <2>1. PICK d : /\ Decide(p, d) /\ pass[p].pc = "decide"
                   /\ /\ d.action = "auto_log"
                      /\ txn[t].msg.source = "photo"
                      /\ txn[t].msg.hint = NoCategory
                      => pass[p].remembered # NoCategory
      <3>1. CASE DecideFromMemory(p)
        BY <3>1 DEF DecideFromMemory, FromMemory
      <3>2. CASE DecideByModel(p)
        <4>1. PICK reply \in Replies :
                 Decide(p, Guarded(reply, pass[p].offered, txn[t].msg,
                                   HasDuplicate(txn[t].msg)))
          BY <3>2 DEF DecideByModel
        <4>2. /\ t \in Txns /\ HasDuplicate(txn[t].msg) \in BOOLEAN
              /\ pass[p].pc = "decide"
          BY <1>0, <3>2 DEF PassOK, HasDuplicate, DecideByModel
        <4> DEFINE g == Guarded(reply, pass[p].offered, txn[t].msg,
                                HasDuplicate(txn[t].msg))
        <4>3. g.action = "auto_log" =>
                 ~(txn[t].msg.source = "photo" /\ txn[t].msg.hint = NoCategory)
          BY <1>0, <4>2, ModelIsCareful
        <4> HIDE DEF g
        <4>4. Decide(p, g)
          BY <4>1 DEF g
        <4> QED BY <4>2, <4>3, <4>4
      <3> QED BY <1>5, <3>1, <3>2
    <2>2. /\ run' = run /\ txn' = txn /\ memory' = memory
          /\ \A q \in Passes \ {p} : pass'[q] = pass[q]
          /\ pass'[p].pc = "act" /\ pass'[p].current = t
          /\ pass'[p].todo = pass[p].todo
          /\ pass'[p].remembered = pass[p].remembered
          /\ pass'[p].decision = d
      BY <1>0, <2>1 DEF Decide, TypeOK, PassType
    <2>3. Holds(p)'
      BY <1>0, <2>1, <2>2 DEF Holds, Arrived, Known
    <2> QED BY <2>2, <2>3, QuietTaught
  <1>6. ASSUME NEW p \in Passes, SkipTxn(p)
        PROVE  TaughtInv'
    <2>1. /\ Skipping(pass[p]).pc = "next"
          /\ Skipping(pass[p]).todo = pass[p].todo
      BY <1>0 DEF Skipping, Onward, PassType
    <2>2. /\ run' = run /\ txn' = txn
          /\ \A q \in Passes \ {p} : pass'[q] = pass[q]
          /\ pass'[p] = Skipping(pass[p]) /\ pass[p].pc = "decide"
      BY <1>0, <1>6 DEF SkipTxn, TypeOK
    <2>3. Holds(p)'
      BY <1>0, <2>1, <2>2 DEF Holds, Arrived
    <2> QED BY <2>2, <2>3, QuietTaught
  <1>10. ASSUME NEW p \in Passes, FinishBatch(p) \/ SendSummary(p)
                \/ (\E t \in Txns : SendQuestion(p, t)) \/ PassDies(p)
        PROVE  TaughtInv'
    <2>1. /\ run' = run
          /\ \A q \in Passes \ {p} : pass'[q] = pass[q]
          /\ pass'[p].pc \in {"send", "done", "dead"}
      BY <1>0, <1>10 DEF FinishBatch, SendQuestion, SendSummary, PassDies,
                         IdlePass, TypeOK, PassType
    <2>2. Holds(p)'
      BY <2>1 DEF Holds
    <2> QED BY <2>1, <2>2, QuietTaught
  <1>7. ASSUME NEW p \in Passes, NEW t \in Txns, AutoLink(p, t)
        PROVE  TaughtInv'
    <2>1. /\ Onward(pass[p]).pc = "next"
          /\ Onward(pass[p]).todo = pass[p].todo
      BY <1>0 DEF Onward, PassType
    <2>2. /\ Acting(p, t, "auto_link")
          /\ RecordRun(p, t, "resolved", "auto_link")
          /\ pass' = [pass EXCEPT ![p] = Onward(pass[p])]
      BY <1>7 DEF AutoLink, Settle
    <2> QED BY <2>1, <2>2, ActTaught DEF Actions
  <1>8. ASSUME NEW p \in Passes, NEW t \in Txns, AutoLog(p, t)
        PROVE  TaughtInv'
    <2>1. /\ Onward(pass[p]).pc = "next"
          /\ Onward(pass[p]).todo = pass[p].todo
      BY <1>0 DEF Onward, PassType
    <2>2. /\ Acting(p, t, "auto_log")
          /\ RecordRun(p, t, "resolved", "auto_log")
          /\ pass' = [pass EXCEPT ![p] = Onward(pass[p])]
      BY <1>8 DEF AutoLog, Settle
    <2> QED BY <2>1, <2>2, ActTaught DEF Actions
  <1>9. ASSUME NEW p \in Passes, NEW t \in Txns, AskUser(p, t)
        PROVE  TaughtInv'
    <2>1. /\ Asking(pass[p]).pc = "next"
          /\ Asking(pass[p]).todo = pass[p].todo
      BY <1>0 DEF Asking, Onward, PassType
    <2>2. /\ Acting(p, t, "ask_user")
          /\ RecordRun(p, t, "open", "ask_user")
          /\ pass' = [pass EXCEPT ![p] = Asking(pass[p])]
      BY <1>9 DEF AskUser
    <2> QED BY <2>1, <2>2, ActTaught DEF Actions
  <1> QED BY StepShape, <1>1, <1>2, <1>3, <1>4, <1>5, <1>6, <1>7, <1>8, <1>9,
             <1>10 DEF PassStep

\* So nothing a pass remembers was never taught.
LEMMA TaughtAlways == Spec => []TaughtInv
  <1>1. Init => TaughtInv
    BY DEF Init, TaughtInv, Holds, Backed, IdlePass, RunIds
  <1>2. IInv /\ TaughtInv /\ [Next]_vars => TaughtInv'
    BY TaughtStep
  <1> QED BY <1>1, <1>2, Invariance, PTL DEF Spec

\* A photo without a caption is logged without asking only when the user has
\* taught the category of its merchant, whatever the model says, whoever
\* else runs and whichever handler dies.
THEOREM PhotosAreTaught == Spec => []PhotoAutoLogIsTaught
  <1>1. TaughtInv => PhotoAutoLogIsTaught
    BY DEF TaughtInv, Backed, Known, PhotoAutoLogIsTaught
  <1> QED BY <1>1, TaughtAlways, PTL

-----------------------------------------------------------------------------
(***************************************************************************)
(* Duplicate charges.  The lookup folds the stored merchant and the new    *)
(* one by different means; where both agree it is symmetric, and with one  *)
(* pass at a time what it found is still so when the pass commits.         *)
(***************************************************************************)
FoldsAgree == \A m \in Merchants : StoredFold[m] = LookupFold[m]

AutoRows == {e \in ExpenseIds : expense[e].via = "auto_log"}

NewCharge(p) ==
    pass[p].pc = "act" /\ pass[p].decision.action = "auto_log" =>
        \A e \in AutoRows :
            ~SameCharge(expense[e], txn[pass[p].current].msg)

ChargeInv == NoAutoDuplicates /\ \A p \in Passes : NewCharge(p)

\* Days apart are the same both ways.
LEMMA DistanceSymmetric ==
    ASSUME NEW i \in Int, NEW j \in Int
    PROVE  Distance(i, j) = Distance(j, i)
  BY DEF Distance

\* Two rows that agree in amount, date and merchant are the same charge as
\* the same others.
LEMMA ChargeOfParts ==
    ASSUME NEW e, NEW f, NEW m, NEW n,
           e.amount = f.amount, e.date = f.date, e.merchant = f.merchant,
           m.amount = n.amount, m.date = n.date, m.merchant = n.merchant
    PROVE  SameCharge(e, m) <=> SameCharge(f, n)
  BY DEF SameCharge

\* Being the same charge goes both ways, names folded alike.
LEMMA ChargeSymmetric ==
    ASSUME FoldsAgree, NEW e, NEW f,
           e.merchant \in Merchants \cup {NoMerchant}, e.date \in Int,
           f.merchant \in Merchants \cup {NoMerchant}, f.date \in Int,
           SameCharge(e, f)
    PROVE  SameCharge(f, e)
  BY DistanceSymmetric DEF SameCharge, FoldsAgree

\* A new row of a pass is the only way to a new automatic row.
LEMMA AutoRowsKept ==
    ASSUME IInv, PassInv, [Next]_vars,
           \A p \in Passes, t \in Txns : ~AutoLog(p, t)
    PROVE  \A e \in AutoRows' :
              /\ e \in AutoRows
              /\ expense'[e].amount = expense[e].amount
              /\ expense'[e].date = expense[e].date
              /\ expense'[e].merchant = expense[e].merchant
  <1>0. TypeOK /\ LocalOK
    BY DEF IInv
  <1>1. CASE expense' = expense
    BY <1>1 DEF AutoRows
  <1>2. ASSUME NEW e \in ExpenseIds, expense'[e].via = "manual",
               \A x \in ExpenseIds \ {e} : expense'[x] = expense[x]
        PROVE  \A x \in AutoRows' : x \in AutoRows /\ expense'[x] = expense[x]
    BY <1>2 DEF AutoRows
  <1>3. ASSUME NEW l \in Logs, LogManual(l)
        PROVE  /\ <<"log", l>> \in ExpenseIds
               /\ expense'[<<"log", l>>].via = "manual"
               /\ \A x \in ExpenseIds \ {<<"log", l>>} :
                     expense'[x] = expense[x]
    BY <1>0, <1>3 DEF LogManual, ExpenseIds, TypeOK
  <1>4. ASSUME NEW k \in Taps, AnswerCommit(k)
        PROVE  /\ <<"answer", k>> \in ExpenseIds
               /\ expense'[<<"answer", k>>].via = "manual"
               /\ \A x \in ExpenseIds \ {<<"answer", k>>} :
                     expense'[x] = expense[x]
    BY <1>0, <1>4 DEF AnswerCommit, Answered, Row, ExpenseIds, TypeOK
  <1>5. ASSUME NEW e \in ExpenseIds, NEW c \in Categories, Recategorize(e, c)
        PROVE  \A x \in ExpenseIds :
                  /\ expense'[x].via = expense[x].via
                  /\ expense'[x].amount = expense[x].amount
                  /\ expense'[x].date = expense[x].date
                  /\ expense'[x].merchant = expense[x].merchant
    BY <1>0, <1>5 DEF Recategorize, TypeOK, ExpenseRow
  <1>6. ASSUME NEW p \in Passes, NEW t \in Txns, AutoLink(p, t)
        PROVE  \A x \in ExpenseIds :
                  /\ expense'[x].via = expense[x].via
                  /\ expense'[x].amount = expense[x].amount
                  /\ expense'[x].date = expense[x].date
                  /\ expense'[x].merchant = expense[x].merchant
    BY <1>0, <1>6 DEF AutoLink, TypeOK, ExpenseRow
  <1>7. ASSUME NEW p \in Passes, StartPass(p) \/ PassStep(p) \/ PassDies(p)
        PROVE  \/ expense' = expense
               \/ \E t \in Txns : AutoLink(p, t)
    BY <1>7 DEF PassStep, StartPass, Perceive, SendQuestion, FinishBatch,
       DecideFromMemory, DecideByModel, Decide, SkipTxn, SendSummary,
       PassDies, AskUser
  <1>8. \/ expense' = expense
        \/ \E l \in Logs : LogManual(l)
        \/ \E e \in ExpenseIds, c \in Categories : Recategorize(e, c)
        \/ \E p \in Passes, t \in Txns : AutoLink(p, t)
        \/ \E k \in Taps : AnswerCommit(k)
    BY <1>7 DEF Next, vars, IngestSms, IngestPhoto, Insert, AnswerRead,
       AnswerStep, AnswerFlush, AnswerConflict, AnswerDies
  <1>9. CASE \E l \in Logs : LogManual(l)
    BY <1>2, <1>3, <1>9
  <1>10. CASE \E k \in Taps : AnswerCommit(k)
    BY <1>2, <1>4, <1>10
  <1>11. CASE \/ \E e \in ExpenseIds, c \in Categories : Recategorize(e, c)
              \/ \E p \in Passes, t \in Txns : AutoLink(p, t)
    BY <1>5, <1>6, <1>11 DEF AutoRows
  <1> QED BY <1>1, <1>8, <1>9, <1>10, <1>11

\* Only a decision brings a pass to the point of acting.
LEMMA PassMoves ==
    ASSUME TypeOK, [Next]_vars, NEW p \in Passes, pass'[p] # pass[p],
           pass'[p].pc = "act"
    PROVE  DecideFromMemory(p) \/ DecideByModel(p)
  <1>1. PICK q \in Passes : StartPass(q) \/ PassStep(q) \/ PassDies(q)
    BY DEF Next, vars, IngestSms, IngestPhoto, Insert, LogManual,
       Recategorize, AnswerRead, AnswerStep, AnswerFlush, AnswerConflict,
       AnswerDies, AnswerCommit
  <1>2. q = p
    <2> DEFINE Others == \A x \in Passes \ {q} : pass'[x] = pass[x]
    <2>1. StartPass(q) \/ PassDies(q) => Others
      BY DEF StartPass, PassDies, TypeOK
    <2>2. \A t \in Txns : Perceive(q, t) => Others
      BY DEF Perceive, TypeOK
    <2>3. \A t \in Txns : SendQuestion(q, t) => Others
      BY DEF SendQuestion, TypeOK
    <2>4. \A t \in Txns :
              AutoLink(q, t) \/ AutoLog(q, t) \/ AskUser(q, t) => Others
      BY DEF AutoLink, AutoLog, AskUser, TypeOK
    <2>5. DecideFromMemory(q) \/ DecideByModel(q) \/ SkipTxn(q) => Others
      BY DEF DecideFromMemory, DecideByModel, Decide, SkipTxn, TypeOK
    <2>6. FinishBatch(q) \/ SendSummary(q) => Others
      BY DEF FinishBatch, SendSummary, TypeOK
    <2> HIDE DEF Others
    <2>7. Others
      BY <1>1, <2>1, <2>2, <2>3, <2>4, <2>5, <2>6 DEF PassStep
    <2> QED BY <2>7 DEF Others
  <1>3. pass[p] \in PassType
    BY DEF TypeOK
  <1>4. ASSUME \/ StartPass(p) \/ FinishBatch(p) \/ SendSummary(p)
               \/ PassDies(p)
               \/ \E t \in Txns : SendQuestion(p, t) \/ Perceive(p, t)
        PROVE  pass'[p].pc # "act"
    <2>1. ASSUME NEW t \in Txns, SendQuestion(p, t)
          PROVE  pass'[p].pc # "act"
      BY <1>3, <2>1 DEF SendQuestion, TypeOK, PassType
    <2>2. ASSUME NEW t \in Txns, Perceive(p, t)
          PROVE  pass'[p].pc # "act"
      BY <1>3, <2>2 DEF Perceive, TypeOK, PassType
    <2>3. ASSUME StartPass(p) \/ FinishBatch(p) \/ SendSummary(p)
          PROVE  pass'[p].pc # "act"
      BY <1>3, <2>3 DEF StartPass, FinishBatch, SendSummary, TypeOK, PassType
    <2>4. ASSUME PassDies(p)
          PROVE  pass'[p].pc # "act"
      BY <2>4 DEF PassDies, IdlePass, TypeOK
    <2> QED BY <1>4, <2>1, <2>2, <2>3, <2>4
  <1>5. ASSUME SkipTxn(p) \/ \E t \in Txns :
                  AutoLink(p, t) \/ AutoLog(p, t) \/ AskUser(p, t)
        PROVE  pass'[p].pc # "act"
    <2>1. /\ Onward(pass[p]).pc = "next" /\ Skipping(pass[p]).pc = "next"
          /\ Asking(pass[p]).pc = "next"
      BY <1>3 DEF Onward, Skipping, Asking, PassType
    <2>2. pass'[p] \in {Onward(pass[p]), Skipping(pass[p]), Asking(pass[p])}
      BY <1>5 DEF SkipTxn, AutoLink, AutoLog, AskUser, TypeOK
    <2> QED BY <2>1, <2>2
  <1> QED BY <1>1, <1>2, <1>4, <1>5 DEF PassStep

\* A decision that the duplicate guard let through.
LEMMA DecidedAlone ==
    ASSUME IInv, NEW p \in Passes,
           DecideFromMemory(p) \/ DecideByModel(p)
    PROVE  \E x : /\ Decide(p, x)
                  /\ x.action # "ask_user" =>
                        ~HasDuplicate(txn[pass[p].current].msg)
  <1> DEFINE m == txn[pass[p].current].msg
  <1>0. TypeOK /\ HasDuplicate(m) \in BOOLEAN
    BY DEF IInv, HasDuplicate
  <1>1. CASE DecideFromMemory(p)
    BY <1>1 DEF DecideFromMemory, apply_duplicate_guard, Downgrade
  <1>2. CASE DecideByModel(p)
    <2>1. PICK reply \in Replies :
             Decide(p, Guarded(reply, pass[p].offered, m, HasDuplicate(m)))
      BY <1>2 DEF DecideByModel
    <2>2. pass[p].current \in Txns
      BY <1>2 DEF DecideByModel, IInv, LocalOK, PassOK
    <2> DEFINE g == Guarded(reply, pass[p].offered, m, HasDuplicate(m))
    <2>3. g.action # "ask_user" => ~HasDuplicate(m)
      BY <1>0, <2>2, ModelIsCareful
    <2> HIDE DEF g
    <2>4. Decide(p, g)
      BY <2>1 DEF g
    <2> QED BY <2>3, <2>4
  <1> QED BY <1>1, <1>2

\* A charge that was new to a pass is new to it after the steps of others.
LEMMA StillNew ==
    ASSUME IInv, PassInv, TaughtInv, [Next]_vars,
           \A q \in Passes, t \in Txns : ~AutoLog(q, t),
           NEW p \in Passes, NewCharge(p), pass'[p] = pass[p]
    PROVE  NewCharge(p)'
  <1>1. SUFFICES ASSUME pass[p].pc = "act",
                        pass[p].decision.action = "auto_log",
                        NEW e \in AutoRows'
                 PROVE  ~SameCharge(expense[e], txn[pass[p].current].msg)'
    BY DEF NewCharge
  <1>2. /\ e \in AutoRows
        /\ expense'[e].amount = expense[e].amount
        /\ expense'[e].date = expense[e].date
        /\ expense'[e].merchant = expense[e].merchant
    BY <1>1, AutoRowsKept
  <1>3. /\ pass[p].current \in Txns /\ Arrived(pass[p].current)
        /\ ~SameCharge(expense[e], txn[pass[p].current].msg)
    BY <1>1, <1>2 DEF IInv, LocalOK, PassOK, TaughtInv, Holds, NewCharge
  <1>4. txn'[pass[p].current].msg = txn[pass[p].current].msg
    BY <1>3, Frozen
  <1>5. ~SameCharge(expense'[e], txn'[pass[p].current].msg)
    BY <1>2, <1>3, <1>4, ChargeOfParts
  <1> QED BY <1>5

\* Every step keeps the rows of one charge accounted for.
LEMMA ChargeStep ==
    ASSUME FoldsAgree, IInv, PassInv, TaughtInv, ChargeInv, [Next]_vars
    PROVE  ChargeInv'
  <1>0. TypeOK /\ LocalOK
    BY DEF IInv
  <1>1. ASSUME NEW p \in Passes, NEW t \in Txns, AutoLog(p, t)
        PROVE  ChargeInv'
    <2> DEFINE n == <<"auto", <<p, t>>>>
    <2>1. /\ pass[p].pc = "act" /\ pass[p].current = t
          /\ pass[p].decision.action = "auto_log"
      BY <1>1 DEF AutoLog, Acting
    <2>2. /\ n \in ExpenseIds
          /\ expense'[n].via = "auto_log"
          /\ expense'[n].amount = txn[t].msg.amount
          /\ expense'[n].date = txn[t].msg.date
          /\ expense'[n].merchant = txn[t].msg.merchant
          /\ \A x \in ExpenseIds \ {n} : expense'[x] = expense[x]
      BY <1>0, <1>1
      DEF AutoLog, AutoRow, Row, ExpenseIds, RunIds, TypeOK
    <2>3. \A x \in AutoRows : ~SameCharge(expense[x], txn[t].msg)
      BY <2>1 DEF ChargeInv, NewCharge
    <2>4. ASSUME NEW x \in AutoRows, x # n
          PROVE  ~SameCharge(expense[x], expense'[n])
      BY <2>2, <2>3, <2>4, ChargeOfParts
    <2>5. ASSUME NEW x \in AutoRows, x # n
          PROVE  ~SameCharge(expense'[n], expense[x])
      <3>1. /\ expense[x].merchant \in Merchants \cup {NoMerchant}
            /\ expense[x].date \in Int
        BY <1>0, <2>5 DEF AutoRows, TypeOK, ExpenseRow
      <3>2. /\ expense'[n].merchant \in Merchants \cup {NoMerchant}
            /\ expense'[n].date \in Int
        BY <1>0, <2>2, MessageRange
      <3> QED BY <2>4, <2>5, <3>1, <3>2, ChargeSymmetric
    <2>6. \A x \in ExpenseIds \ {n} : x \in AutoRows' <=> x \in AutoRows
      BY <2>2 DEF AutoRows
    <2>7. NoAutoDuplicates'
      <3> SUFFICES ASSUME NEW e \in ExpenseIds, NEW f \in ExpenseIds,
                          expense'[e].via = "auto_log",
                          expense'[f].via = "auto_log",
                          SameCharge(expense'[e], expense'[f])
                   PROVE  e = f
        BY DEF NoAutoDuplicates, Ledger
      <3>1. CASE e # n /\ f # n
        <4>1. expense'[e] = expense[e] /\ expense'[f] = expense[f]
          BY <2>2, <3>1
        <4> QED BY <4>1 DEF ChargeInv, NoAutoDuplicates, Ledger
      <3>2. CASE e # n /\ f = n
        <4>1. expense'[e] = expense[e] /\ e \in AutoRows
          BY <2>2, <3>2 DEF AutoRows
        <4> QED BY <2>4, <3>2, <4>1
      <3>3. CASE e = n /\ f # n
        <4>1. expense'[f] = expense[f] /\ f \in AutoRows
          BY <2>2, <3>3 DEF AutoRows
        <4> QED BY <2>5, <3>3, <4>1
      <3> QED BY <3>1, <3>2, <3>3
    <2>8. ASSUME NEW q \in Passes
          PROVE  NewCharge(q)'
      <3>1. CASE q = p
        <4>1. pass'[p].pc = "next"
          BY <1>0, <1>1 DEF AutoLog, Onward, TypeOK, PassType
        <4> QED BY <3>1, <4>1 DEF NewCharge
      <3>2. CASE q # p
        <4>1. pass'[q] = pass[q] /\ ~Active(q)
          BY <1>0, <1>1, <2>1, <3>2
          DEF AutoLog, TypeOK, PassInv, Alone, Active
        <4> QED BY <4>1 DEF NewCharge, Active
      <3> QED BY <3>1, <3>2
    <2> QED BY <2>7, <2>8 DEF ChargeInv
  <1>2. CASE \A p \in Passes, t \in Txns : ~AutoLog(p, t)
    <2>1. NoAutoDuplicates'
      <3> SUFFICES ASSUME NEW e \in AutoRows', NEW f \in AutoRows',
                          SameCharge(expense'[e], expense'[f])
                   PROVE  e = f
        BY DEF NoAutoDuplicates, Ledger, AutoRows
      <3>1. /\ e \in AutoRows /\ f \in AutoRows
            /\ SameCharge(expense[e], expense[f])
        <4>1. /\ e \in AutoRows
              /\ expense'[e].amount = expense[e].amount
              /\ expense'[e].date = expense[e].date
              /\ expense'[e].merchant = expense[e].merchant
          BY <1>2, AutoRowsKept
        <4>2. /\ f \in AutoRows
              /\ expense'[f].amount = expense[f].amount
              /\ expense'[f].date = expense[f].date
              /\ expense'[f].merchant = expense[f].merchant
          BY <1>2, AutoRowsKept
        <4> QED BY <4>1, <4>2, ChargeOfParts
      <3> QED BY <3>1 DEF ChargeInv, NoAutoDuplicates, Ledger, AutoRows
    <2>2. ASSUME NEW p \in Passes, pass'[p] = pass[p]
          PROVE  NewCharge(p)'
      BY <1>2, <2>2, StillNew DEF ChargeInv
    <2>3. ASSUME NEW p \in Passes, pass'[p] # pass[p]
          PROVE  NewCharge(p)'
      <3>1. CASE pass'[p].pc # "act"
        BY <3>1 DEF NewCharge
      <3>2. CASE pass'[p].pc = "act"
        <4>1. DecideFromMemory(p) \/ DecideByModel(p)
          BY <1>0, <1>2, <2>3, <3>2, PassMoves
        <4>2. PICK d : /\ Decide(p, d)
                       /\ d.action # "ask_user" =>
                             ~HasDuplicate(txn[pass[p].current].msg)
          BY <4>1, DecidedAlone
        <4>3. /\ pass'[p].decision = d /\ pass'[p].current = pass[p].current
              /\ expense' = expense /\ txn' = txn
          BY <1>0, <4>2 DEF Decide, TypeOK, PassType
        <4>4. d.action = "auto_log" => \A e \in AutoRows :
                  ~SameCharge(expense[e], txn[pass[p].current].msg)
          BY <4>2 DEF HasDuplicate, Ledger, AutoRows
        <4> QED BY <4>3, <4>4 DEF NewCharge, AutoRows
      <3> QED BY <3>1, <3>2
    <2> QED BY <2>1, <2>2, <2>3 DEF ChargeInv
  <1> QED BY <1>1, <1>2

\* One pass at a time, and merchants that are stored without blanks around
\* them: no charge is booked twice without asking.
THEOREM NoChargeTwice ==
    "one_pass" \in Discipline /\ FoldsAgree
        => (Spec => []NoAutoDuplicates)
  <1> SUFFICES ASSUME "one_pass" \in Discipline, FoldsAgree
               PROVE  Spec => []NoAutoDuplicates
    OBVIOUS
  <1>1. Init => ChargeInv
    BY DEF Init, ChargeInv, NoAutoDuplicates, Ledger, NewCharge, NoRow,
           IdlePass
  <1>2. IInv /\ PassInv /\ TaughtInv /\ ChargeInv /\ [Next]_vars
            => ChargeInv'
    BY ChargeStep
  <1>3. ChargeInv => NoAutoDuplicates
    BY DEF ChargeInv
  <1> QED BY <1>1, <1>2, <1>3, Invariance, PassAlways, TaughtAlways, PTL
          DEF Spec

-----------------------------------------------------------------------------
(***************************************************************************)
(* Questions answered first, besides: what a pass or an answer is about to *)
(* settle is still pending, although neither looks again.  A pass only     *)
(* runs when no question in the chat is open, the open ones are all of one *)
(* pass, and a transaction is asked about once by each.                    *)
(***************************************************************************)
Waiting(t) == txn[t].status = "pending"

OpenAsked == {r \in delivered : run[r].status = "open"}

Calm(p) ==
    /\ pass[p].pc = "idle" => pass[p].questions = {}
    /\ \A t \in pass[p].questions :
          /\ run[<<p, t>>].status # "absent"
          /\ Active(p) => Waiting(t)
    /\ pass[p].pc \in {"next", "decide", "act"} =>
          /\ \A t \in Ahead(p) \cap Txns : Waiting(t)
          /\ OpenAsked = {}
    /\ Active(p) => /\ \A k \in Taps : ~InFlight(k)
                    /\ \A r \in OpenAsked : r[1] = p

AskedOK ==
    /\ \A r \in delivered : run[r].status # "absent"
    /\ \A r \in OpenAsked : Waiting(r[2])
    /\ \A r, s \in OpenAsked : r[1] = s[1]
    /\ \A k \in Taps : InFlight(k) => tap[k].run \in delivered

CalmInv == AskedOK /\ \A p \in Passes : Calm(p)

Patient == {"one_pass", "one_tap", "answers_first"} \subseteq Discipline

\* Ingestion, /log and recategorisation.
LEMMA CalmWorld ==
    ASSUME TypeOK, CalmInv, UNCHANGED <<run, pass, delivered, tap>>,
           \A t \in Txns : Waiting(t) => Waiting(t)'
    PROVE  CalmInv'
  <1>1. OpenAsked' = OpenAsked
    BY DEF OpenAsked
  <1>2. AskedOK'
    <2>1. \A r \in OpenAsked : r[2] \in Txns
      BY DEF OpenAsked, TypeOK, RunIds
    <2> QED BY <1>1, <2>1 DEF CalmInv, AskedOK, InFlight
  <1>3. ASSUME NEW p \in Passes
        PROVE  Calm(p)'
    <2>1. pass[p].questions \subseteq Txns
      BY DEF TypeOK, PassType
    <2> QED BY <1>1, <2>1 DEF CalmInv, Calm, Active, InFlight, Ahead
  <1> QED BY <1>2, <1>3 DEF CalmInv

\* A step of a pass that writes nothing but the pass.
LEMMA CalmPassOnly ==
    ASSUME TypeOK, CalmInv, UNCHANGED <<txn, run, delivered, tap>>,
           NEW p \in Passes, NEW s, pass' = [pass EXCEPT ![p] = s],
           Calm(p)'
    PROVE  CalmInv'
  <1>1. AskedOK'
    BY DEF CalmInv, AskedOK, OpenAsked, Waiting, InFlight
  <1>2. ASSUME NEW q \in Passes, q # p
        PROVE  Calm(q)'
    <2>1. pass'[q] = pass[q]
      BY <1>2 DEF TypeOK
    <2> QED BY <2>1 DEF CalmInv, Calm, Active, InFlight, Ahead, OpenAsked,
                        Waiting
  <1> QED BY <1>1, <1>2 DEF CalmInv

\* A pass that settles its transaction or asks about it.
LEMMA CalmAct ==
    ASSUME TypeOK, LocalOK, Alone, CalmInv, NEW p \in Passes, NEW t \in Txns,
           NEW action \in Actions, NEW status \in {"open", "resolved"},
           Acting(p, t, action), RecordRun(p, t, status, action),
           \A u \in Txns \ {t} : Waiting(u) => Waiting(u)',
           NEW s, pass' = [pass EXCEPT ![p] = s],
           UNCHANGED <<delivered, tap>>,
           s.pc = "next", s.todo = pass[p].todo, s.current = NoTxn,
           \/ s.questions = pass[p].questions
           \/ s.questions = pass[p].questions \cup {t} /\ Waiting(t)'
    PROVE  CalmInv'
  <1>1. /\ pass[p].pc = "act" /\ pass[p].current = t
        /\ pass[p] \in PassType /\ Calm(p) /\ PassOK(p) /\ Active(p)
    BY DEF Acting, TypeOK, CalmInv, LocalOK, Active
  <1>2. /\ run[<<p, t>>].status = "absent" /\ t \notin pass[p].todo
        /\ <<p, t>> \notin delivered /\ t \notin pass[p].questions
    BY <1>1 DEF PassOK, CalmInv, AskedOK, Calm
  <1>3. /\ run'[<<p, t>>].status # "absent"
        /\ \A r \in RunIds : r # <<p, t>> => run'[r] = run[r]
    BY DEF RecordRun, TypeOK, RunIds
  <1>4. delivered \subseteq RunIds /\ OpenAsked = {}
    BY <1>1 DEF TypeOK, Calm
  <1>5. OpenAsked' = {}
    BY <1>2, <1>3, <1>4 DEF OpenAsked
  <1>6. AskedOK'
    BY <1>2, <1>3, <1>4, <1>5 DEF CalmInv, AskedOK, InFlight
  <1>7. pass'[p] = s /\ \A q \in Passes : q # p => pass'[q] = pass[q]
    BY DEF TypeOK
  <1>8. Calm(p)'
    <2>1. \A u \in s.questions :
              run'[<<p, u>>].status # "absent" /\ Waiting(u)'
      BY <1>1, <1>2, <1>3 DEF Calm, PassType, RunIds
    <2>2. \A u \in s.todo : Waiting(u)'
      BY <1>1, <1>2 DEF Calm, PassType, Ahead
    <2>3. \A k \in Taps : ~InFlight(k)'
      BY <1>1 DEF Calm, InFlight
    <2> QED BY <1>5, <1>7, <2>1, <2>2, <2>3 DEF Calm, Ahead, Txns, NoTxn
  <1>9. ASSUME NEW q \in Passes, q # p
        PROVE  Calm(q)'
    <2>1. pass'[q] = pass[q] /\ ~Active(q) /\ pass[q] \in PassType
      BY <1>1, <1>7, <1>9 DEF Alone, TypeOK
    <2>2. \A u \in pass[q].questions : run'[<<q, u>>] = run[<<q, u>>]
      BY <1>3, <1>9, <2>1 DEF PassType, RunIds
    <2> QED BY <2>1, <2>2 DEF CalmInv, Calm, Active
  <1> QED BY <1>6, <1>8, <1>9 DEF CalmInv

\* A step of an answer that writes nothing but the tap.
LEMMA CalmTapOnly ==
    ASSUME TypeOK, CalmInv, UNCHANGED <<txn, run, delivered, pass>>,
           \A k \in Taps : InFlight(k)' =>
              /\ tap'[k].run \in delivered
              /\ InFlight(k) \/ \A p \in Passes : ~Active(p)
    PROVE  CalmInv'
  <1>1. AskedOK'
    BY DEF CalmInv, AskedOK, OpenAsked, Waiting
  <1>2. \A p \in Passes : Active(p)' <=> Active(p)
    BY DEF Active
  <1>3. \A p \in Passes, k \in Taps : Active(p) => ~InFlight(k)'
    BY DEF CalmInv, Calm
  <1>4. \A p \in Passes : Calm(p)'
    BY <1>2, <1>3 DEF CalmInv, Calm, Ahead, OpenAsked, Waiting
  <1> QED BY <1>1, <1>4 DEF CalmInv

\* An answer finds its transaction still waiting, for the patient.
LEMMA CalmAnswer ==
    ASSUME TypeOK, LocalOK, TapInv, CalmInv, NEW k \in Taps, AnswerCommit(k)
    PROVE  /\ CalmInv'
           /\ Waiting(tap[k].run[2])
  <1> DEFINE r == tap[k].run
  <1>1. /\ InFlight(k) /\ r \in delivered /\ run[r].status = "open"
        /\ delivered \subseteq RunIds
    BY DEF AnswerCommit, InFlight, CalmInv, AskedOK, TapInv, TypeOK
  <1>2. r \in OpenAsked /\ Waiting(r[2]) /\ r[2] \in Txns
    BY <1>1 DEF OpenAsked, CalmInv, AskedOK, RunIds
  <1>3. \A p \in Passes : ~Active(p)
    BY <1>1 DEF CalmInv, Calm
  <1>4. /\ run'[r].status = "resolved"
        /\ \A x \in RunIds : x # r => run'[x] = run[x]
        /\ UNCHANGED <<delivered, pass>>
        /\ \A u \in Txns : u # r[2] => txn'[u] = txn[u]
    BY <1>1 DEF AnswerCommit, TypeOK
  <1>5. OpenAsked' = OpenAsked \ {r}
    BY <1>1, <1>4 DEF OpenAsked
  <1>6. \A x \in OpenAsked \ {r} : x[2] \in Txns /\ x[2] # r[2]
    <2>1. \A x \in OpenAsked : x[1] = r[1] /\ x \in RunIds
      BY <1>1, <1>2 DEF CalmInv, AskedOK, OpenAsked
    <2>2. \A x \in RunIds : x = <<x[1], x[2]>> /\ x[2] \in Txns
      BY DEF RunIds
    <2>3. r \in RunIds
      BY <1>1
    <2> HIDE DEF r
    <2> QED BY <2>1, <2>2, <2>3
  <1>7. \A j \in Taps : InFlight(j)' => InFlight(j) /\ tap'[j] = tap[j]
    BY DEF AnswerCommit, InFlight, IdleTap, TypeOK
  <1> HIDE DEF r
  <1>8. AskedOK'
    <2>1. \A x \in delivered : run'[x].status # "absent"
      BY <1>1, <1>4 DEF CalmInv, AskedOK
    <2>2. \A x \in OpenAsked \ {r} : Waiting(x[2])'
      BY <1>4, <1>6 DEF CalmInv, AskedOK, Waiting
    <2>3. \A x, y \in OpenAsked : x[1] = y[1]
      BY DEF CalmInv, AskedOK
    <2>4. \A j \in Taps : InFlight(j)' => tap'[j].run \in delivered
      BY <1>7 DEF CalmInv, AskedOK
    <2> QED BY <1>4, <1>5, <2>1, <2>2, <2>3, <2>4 DEF AskedOK
  <1>9. ASSUME NEW p \in Passes
        PROVE  Calm(p)'
    <2>1. ~Active(p)' /\ pass[p].questions \subseteq Txns
      BY <1>3, <1>4 DEF Active, TypeOK, PassType
    <2>2. \A t \in pass[p].questions : run'[<<p, t>>].status # "absent"
      BY <1>4, <2>1 DEF CalmInv, Calm, RunIds
    <2> QED BY <1>4, <2>1, <2>2 DEF CalmInv, Calm, Active
  <1> QED BY <1>2, <1>8, <1>9 DEF CalmInv, r

\* Every step keeps what the patient user's habits promise.
LEMMA CalmStep ==
    ASSUME Patient, IInv, BatchInv, PassInv, TapInv, CalmInv, [Next]_vars
    PROVE  CalmInv'
  <1>0. /\ TypeOK /\ LocalOK /\ Alone
        /\ \A p \in Passes : /\ pass[p] \in PassType
                             /\ Accounted(p) /\ PassOK(p) /\ Calm(p)
    BY DEF IInv, TypeOK, BatchInv, LocalOK, PassInv, CalmInv
  <1>1. CASE UNCHANGED vars
    BY <1>0, <1>1, CalmWorld DEF vars, Waiting
  <1>2. ASSUME NEW t \in Txns, NEW m \in Messages, Insert(t, m)
        PROVE  CalmInv'
    BY <1>0, <1>2, CalmWorld DEF Insert, Waiting, TypeOK
  <1>3. ASSUME NEW l \in Logs, LogManual(l)
        PROVE  CalmInv'
    BY <1>0, <1>3, CalmWorld DEF LogManual, Waiting
  <1>4. ASSUME NEW e \in ExpenseIds, NEW c \in Categories, Recategorize(e, c)
        PROVE  CalmInv'
    BY <1>0, <1>4, CalmWorld DEF Recategorize, Waiting
  <1>5. ASSUME NEW p \in Passes, StartPass(p)
        PROVE  CalmInv'
    <2> DEFINE s == [pass[p] EXCEPT !.pc = "next", !.taken = Pending,
                                    !.todo = Pending]
    <2>1. /\ pass' = [pass EXCEPT ![p] = s] /\ pass'[p] = s
          /\ UNCHANGED <<txn, run, delivered, tap>>
          /\ pass[p].pc = "idle"
          /\ \A k \in Taps : ~InFlight(k)
          /\ OpenAsked = {}
      BY <1>0, <1>5 DEF StartPass, TypeOK, Patient, OpenAsked
    <2>2. /\ s.pc = "next" /\ s.todo = Pending /\ s.current = NoTxn
          /\ s.questions = {}
      BY <1>0, <2>1 DEF PassType, Accounted, Calm
    <2>3. OpenAsked' = {} /\ \A k \in Taps : ~InFlight(k)'
      BY <2>1 DEF OpenAsked, InFlight
    <2>4. \A t \in Pending : Waiting(t)'
      BY <2>1 DEF Pending, Waiting
    <2> HIDE DEF s
    <2>5. Calm(p)'
      BY <2>1, <2>2, <2>3, <2>4 DEF Calm, Ahead, NoTxn, Txns
    <2> QED BY <1>0, <2>1, <2>5, CalmPassOnly
  <1>6. ASSUME NEW p \in Passes, NEW s,
               pass' = [pass EXCEPT ![p] = s],
               UNCHANGED <<txn, run, delivered, tap>>,
               Active(p),
               s.questions = pass[p].questions,
               s.pc \in {"next", "decide", "act", "send", "done"},
               pass[p].pc = "send" => s.pc \notin {"next", "decide", "act"},
               s.todo \cup {s.current} \subseteq Ahead(p) \cup {NoTxn}
        PROVE  CalmInv'
    <2>1. pass'[p] = s
      BY <1>0, <1>6 DEF TypeOK
    <2>2. /\ OpenAsked' = OpenAsked
          /\ \A k \in Taps : InFlight(k)' <=> InFlight(k)
          /\ \A t \in Txns : Waiting(t)' <=> Waiting(t)
      BY <1>6 DEF OpenAsked, InFlight, Waiting
    <2>3. pass[p].questions \subseteq Txns /\ NoTxn \notin Txns
      BY <1>0 DEF PassType, NoTxn, Txns
    <2>4. s.pc \in {"next", "decide", "act"} =>
              pass[p].pc \in {"next", "decide", "act"}
      BY <1>6 DEF Active
    <2>5. s.pc \in {"next", "decide", "act"} =>
              /\ \A t \in Ahead(p)' \cap Txns : Waiting(t)'
              /\ OpenAsked' = {}
      BY <1>0, <1>6, <2>1, <2>2, <2>3, <2>4 DEF Calm, Ahead
    <2>6. \A t \in s.questions : /\ run'[<<p, t>>].status # "absent"
                                 /\ Waiting(t)'
      BY <1>0, <1>6, <2>2, <2>3 DEF Calm
    <2>7. /\ \A k \in Taps : ~InFlight(k)'
          /\ \A r \in OpenAsked' : r[1] = p
      BY <1>0, <1>6, <2>2 DEF Calm
    <2>8. Calm(p)'
      BY <1>6, <2>1, <2>5, <2>6, <2>7 DEF Calm
    <2> QED BY <1>0, <1>6, <2>8, CalmPassOnly
  <1>7. ASSUME NEW p \in Passes, NEW t \in Txns, Perceive(p, t)
        PROVE  CalmInv'
    <2>1. PICK C \in SUBSET Window(txn[t].msg) :
             pass' = [pass EXCEPT
                 ![p].pc = "decide", ![p].todo = @ \ {t},
                 ![p].current = t, ![p].offered = C,
                 ![p].remembered = Recalled(txn[t].msg)]
      BY <1>7 DEF Perceive
    <2> DEFINE s == [pass[p] EXCEPT
                 !.pc = "decide", !.todo = @ \ {t}, !.current = t,
                 !.offered = C, !.remembered = Recalled(txn[t].msg)]
    <2>2. /\ pass' = [pass EXCEPT ![p] = s]
          /\ UNCHANGED <<txn, run, delivered, tap>>
          /\ pass[p].pc = "next" /\ t \in pass[p].todo
      BY <1>0, <1>7, <2>1 DEF Perceive, TypeOK
    <2>3. /\ s.pc = "decide" /\ s.todo = pass[p].todo \ {t} /\ s.current = t
          /\ s.questions = pass[p].questions
      BY <1>0 DEF PassType
    <2> HIDE DEF s
    <2> QED BY <1>6, <2>2, <2>3 DEF Active, Ahead
  <1>8. ASSUME NEW p \in Passes, DecideFromMemory(p) \/ DecideByModel(p)
        PROVE  CalmInv'
    <2>1. PICK d : Decide(p, d) /\ pass[p].pc = "decide"
      BY <1>8 DEF DecideFromMemory, DecideByModel
    <2> DEFINE s == [pass[p] EXCEPT !.pc = "act", !.decision = d]
    <2>2. /\ pass' = [pass EXCEPT ![p] = s]
          /\ UNCHANGED <<txn, run, delivered, tap>>
      BY <1>0, <2>1 DEF Decide, TypeOK
    <2>3. /\ s.pc = "act" /\ s.todo = pass[p].todo
          /\ s.current = pass[p].current
          /\ s.questions = pass[p].questions
      BY <1>0 DEF PassType
    <2> HIDE DEF s
    <2> QED BY <1>6, <2>1, <2>2, <2>3 DEF Active, Ahead
  <1>9. ASSUME NEW p \in Passes, SkipTxn(p)
        PROVE  CalmInv'
    <2> DEFINE s == Skipping(pass[p])
    <2>1. /\ pass' = [pass EXCEPT ![p] = s]
          /\ UNCHANGED <<txn, run, delivered, tap>>
          /\ pass[p].pc = "decide"
      BY <1>0, <1>9 DEF SkipTxn, TypeOK
    <2>2. /\ s.pc = "next" /\ s.todo = pass[p].todo /\ s.current = NoTxn
          /\ s.questions = pass[p].questions
      BY <1>0 DEF PassType, Skipping, Onward
    <2> HIDE DEF s
    <2> QED BY <1>6, <2>1, <2>2 DEF Active, Ahead
  <1>10. ASSUME NEW p \in Passes, FinishBatch(p) \/ SendSummary(p)
         PROVE  CalmInv'
    <2>1. PICK pc \in {"send", "done"} :
             /\ pass' = [pass EXCEPT ![p].pc = pc]
             /\ pass[p].pc \in {"next", "send"}
             /\ UNCHANGED <<txn, run, delivered, tap>>
      BY <1>10 DEF FinishBatch, SendSummary
    <2> DEFINE s == [pass[p] EXCEPT !.pc = pc]
    <2>2. /\ pass' = [pass EXCEPT ![p] = s]
          /\ s.pc = pc /\ s.todo = pass[p].todo
          /\ s.current = pass[p].current
          /\ s.questions = pass[p].questions
      BY <1>0, <2>1 DEF PassType, TypeOK
    <2> HIDE DEF s
    <2> QED BY <1>6, <2>1, <2>2 DEF Active, Ahead
  <1>11. ASSUME NEW p \in Passes, PassDies(p)
         PROVE  CalmInv'
    <2> DEFINE s == [IdlePass EXCEPT !.pc = "dead"]
    <2>1. /\ pass' = [pass EXCEPT ![p] = s] /\ pass'[p] = s
          /\ UNCHANGED <<txn, run, delivered, tap>>
      BY <1>0, <1>11 DEF PassDies, TypeOK
    <2>2. s.pc = "dead" /\ s.questions = {}
      BY DEF IdlePass
    <2>3. Calm(p)'
      BY <2>1, <2>2 DEF Calm, Active
    <2> QED BY <1>0, <2>1, <2>3, CalmPassOnly
  <1>12. ASSUME NEW p \in Passes, NEW t \in Txns, SendQuestion(p, t)
         PROVE  CalmInv'
    <2> DEFINE s == [pass[p] EXCEPT !.questions = @ \ {t}]
    <2>1. /\ pass' = [pass EXCEPT ![p] = s] /\ pass'[p] = s
          /\ UNCHANGED <<txn, run, tap>>
          /\ delivered' = delivered \cup {<<p, t>>}
          /\ pass[p].pc = "send" /\ Active(p) /\ t \in pass[p].questions
      BY <1>0, <1>12 DEF SendQuestion, TypeOK, Active
    <2>2. s.pc = "send" /\ s.questions = pass[p].questions \ {t}
      BY <1>0, <2>1 DEF PassType
    <2> HIDE DEF s
    <2>3. Waiting(t) /\ run[<<p, t>>].status # "absent"
      BY <1>0, <2>1 DEF Calm
    <2>4. OpenAsked \subseteq OpenAsked'
          /\ OpenAsked' \subseteq OpenAsked \cup {<<p, t>>}
      BY <2>1 DEF OpenAsked
    <2>5. \A r \in OpenAsked' : r[1] = p /\ Waiting(r[2])'
      BY <1>0, <2>1, <2>3, <2>4 DEF Calm, CalmInv, AskedOK, Waiting
    <2>6. \A k \in Taps : ~InFlight(k)'
      BY <1>0, <2>1 DEF Calm, InFlight
    <2>7. AskedOK'
      BY <2>1, <2>3, <2>5, <2>6 DEF CalmInv, AskedOK
    <2>8. Calm(p)'
      BY <1>0, <2>1, <2>2, <2>5, <2>6 DEF Calm, Waiting
    <2>9. ASSUME NEW q \in Passes, q # p
          PROVE  Calm(q)'
      <3>1. pass'[q] = pass[q] /\ ~Active(q)
        BY <1>0, <2>1, <2>9 DEF Alone, TypeOK
      <3> QED BY <1>0, <2>1, <3>1 DEF Calm, Active
    <2> QED BY <2>7, <2>8, <2>9 DEF CalmInv
  <1>13. ASSUME NEW p \in Passes, NEW t \in Txns,
                AutoLink(p, t) \/ AutoLog(p, t)
         PROVE  CalmInv'
    <2> DEFINE s == Onward(pass[p])
    <2>1. PICK action \in {"auto_link", "auto_log"} :
             Acting(p, t, action) /\ Settle(p, t, action)
      BY <1>13 DEF AutoLink, AutoLog
    <2>2. /\ pass' = [pass EXCEPT ![p] = s]
          /\ UNCHANGED <<delivered, tap>>
          /\ \A u \in Txns \ {t} : Waiting(u) => Waiting(u)'
      BY <1>0, <1>13, <2>1
         DEF AutoLink, AutoLog, Settle, Waiting, TypeOK
    <2>3. /\ s.pc = "next" /\ s.todo = pass[p].todo /\ s.current = NoTxn
          /\ s.questions = pass[p].questions
      BY <1>0 DEF PassType, Onward
    <2> HIDE DEF s
    <2> QED BY <1>0, <2>1, <2>2, <2>3, CalmAct DEF Settle, Actions
  <1>14. ASSUME NEW p \in Passes, NEW t \in Txns, AskUser(p, t)
         PROVE  CalmInv'
    <2> DEFINE s == Asking(pass[p])
    <2>1. /\ Acting(p, t, "ask_user") /\ RecordRun(p, t, "open", "ask_user")
          /\ pass' = [pass EXCEPT ![p] = s]
          /\ UNCHANGED <<txn, delivered, tap>>
      BY <1>0, <1>14 DEF AskUser, TypeOK
    <2>2. /\ s.pc = "next" /\ s.todo = pass[p].todo /\ s.current = NoTxn
          /\ s.questions = pass[p].questions \cup {t}
      BY <1>0, <2>1 DEF PassType, Asking, Onward, Acting
    <2>3. Waiting(t)
      BY <1>0, <2>1 DEF Acting, Calm, Ahead
    <2> HIDE DEF s
    <2> QED BY <1>0, <2>1, <2>2, <2>3, CalmAct DEF Actions, Waiting
  <1>15. ASSUME NEW k \in Taps, NEW r \in RunIds, NEW c \in Categories,
                AnswerRead(k, r, c)
         PROVE  CalmInv'
    <2>1. \A j \in Taps : InFlight(j)' =>
              /\ tap'[j].run \in delivered
              /\ InFlight(j) \/ \A p \in Passes : ~Active(p)
      BY <1>0, <1>15
         DEF AnswerRead, MayTap, InFlight, TypeOK, Patient, CalmInv, AskedOK
    <2> QED BY <1>0, <1>15, <2>1, CalmTapOnly DEF AnswerRead
  <1>16. ASSUME NEW k \in Taps,
                AnswerFlush(k) \/ AnswerConflict(k) \/ AnswerDies(k)
         PROVE  CalmInv'
    <2>1. \A j \in Taps : InFlight(j)' =>
              tap'[j].run = tap[j].run /\ InFlight(j)
      BY <1>0, <1>16 DEF AnswerFlush, AnswerConflict, AnswerDies, InFlight,
                         TypeOK, TapType, IdleTap
    <2>2. \A j \in Taps : InFlight(j)' => tap'[j].run \in delivered
      BY <2>1 DEF CalmInv, AskedOK
    <2> QED BY <1>0, <1>16, <2>1, <2>2, CalmTapOnly
            DEF AnswerFlush, AnswerConflict, AnswerDies
  <1>17. ASSUME NEW k \in Taps, AnswerCommit(k)
         PROVE  CalmInv'
    BY <1>0, <1>17, CalmAnswer
  <1>18. ASSUME NEW p \in Passes, StartPass(p) \/ PassStep(p) \/ PassDies(p)
         PROVE  CalmInv'
    BY <1>5, <1>7, <1>8, <1>9, <1>10, <1>11, <1>12, <1>13, <1>14, <1>18
       DEF PassStep
  <1>19. ASSUME NEW k \in Taps, AnswerStep(k) \/ AnswerDies(k)
         PROVE  CalmInv'
    BY <1>16, <1>17, <1>19 DEF AnswerStep
  <1> QED BY <1>1, <1>2, <1>3, <1>4, <1>15, <1>18, <1>19
          DEF Next, IngestSms, IngestPhoto

\* Under those habits it always holds.
LEMMA CalmAlways == Patient => (Spec => []CalmInv)
  <1> SUFFICES ASSUME Patient PROVE Spec => []CalmInv
    OBVIOUS
  <1>0. "one_pass" \in Discipline /\ "one_tap" \in Discipline
    BY DEF Patient
  <1>1. Init => CalmInv
    BY DEF Init, CalmInv, AskedOK, OpenAsked, Calm, Active, InFlight,
           IdlePass, IdleTap
  <1>2. IInv /\ BatchInv /\ PassInv /\ TapInv /\ CalmInv /\ [Next]_vars
            => CalmInv'
    BY CalmStep
  <1> QED BY <1>0, <1>1, <1>2, Invariance, BatchAlways, PassAlways, TapAlways,
             PTL DEF Spec

\* The statuses and the backing expenses, as SpendLedger has them.
Status  == [t \in Txns |-> txn[t].status]
Backing == [t \in Txns |-> Linked(t)]

\* An expense of its own settles a pending transaction of SpendLedger.
LEMMA SettlesPromise ==
    ASSUME IInv, NEW p \in Passes, NEW t \in Txns, NEW e \in ExpenseIds,
           Settles(p, t, e), Waiting(t),
           txn' = [txn EXCEPT ![t].status = "processed"]
    PROVE  Promise!Next
  <1>1. Linked(t) = {}
    BY DEF IInv, LinkedIsProcessed, Linked, Ledger, Waiting, Txns, NoTxn
  <1>2. \A u \in Txns : e \notin Linked(u)
    <2>1. \A u \in Txns : e \in Linked(u)' => u = t
      BY DEF Settles, Linked
    <2> QED BY <2>1 DEF Settles
  <1>3. Status[t] = "pending" /\ \A u \in Txns : e \notin Backing[u]
    BY <1>2 DEF Status, Backing, Waiting
  <1>4. Status' = [Status EXCEPT ![t] = "processed"]
    BY DEF Status, IInv, TypeOK
  <1>5. Backing' = [Backing EXCEPT ![t] = {e}]
    BY <1>1 DEF Backing, Settles
  <1>6. Promise!Settle(t, e)
    BY <1>3, <1>4, <1>5 DEF Promise!Settle, Status, Backing
  <1> QED BY <1>6 DEF Promise!Next

\* What arrives in SpendLedger is what is ingested.
LEMMA InsertPromise ==
    ASSUME TypeOK, NEW t \in Txns, NEW m \in Messages, Insert(t, m)
    PROVE  Promise!Next
  <1>1. Status[t] = "absent" /\ Status' = [Status EXCEPT ![t] = "pending"]
    BY DEF Insert, Status, TypeOK
  <1>2. Backing' = Backing
    BY DEF Insert, Backing, Linked, Ledger
  <1>3. Promise!Arrive(t)
    BY <1>1, <1>2 DEF Promise!Arrive, Status, Backing
  <1> QED BY <1>3 DEF Promise!Next

\* Every step of Reconcile is a step of SpendLedger or leaves it unchanged.
LEMMA PromiseStep ==
    ASSUME IInv, PassInv, TapInv, CalmInv, [Next]_vars
    PROVE  Promise!Next \/ UNCHANGED <<Status, Backing>>
  <1>0. TypeOK /\ LocalOK
    BY DEF IInv
  <1>1. ASSUME NEW p \in Passes, NEW t \in Txns, AutoLink(p, t)
        PROVE  Promise!Next
    <2>1. /\ pass[p].decision.target \in ExpenseIds
          /\ Waiting(t) /\ Settle(p, t, "auto_link")
      BY <1>0, <1>1 DEF AutoLink, Acting, LocalOK, PassOK, TypeOK, PassType,
                        CalmInv, Calm, Ahead
    <2> QED BY <1>1, <2>1, LinkSettles, SettlesPromise DEF Settle
  <1>2. ASSUME NEW p \in Passes, NEW t \in Txns, AutoLog(p, t)
        PROVE  Promise!Next
    <2>1. /\ <<"auto", <<p, t>>>> \in ExpenseIds
          /\ Waiting(t) /\ Settle(p, t, "auto_log")
      BY <1>2 DEF AutoLog, Acting, CalmInv, Calm, Ahead, ExpenseIds, RunIds
    <2> QED BY <1>2, <2>1, LogSettles, SettlesPromise DEF Settle
  <1>3. ASSUME NEW k \in Taps, AnswerCommit(k)
        PROVE  Promise!Next
    <2>1. PICK p \in Passes, t \in Txns : tap[k].run = <<p, t>>
      BY <1>3, AnswerSettles, RunParts
    <2>2. Settles(p, t, <<"answer", k>>) /\ <<"answer", k>> \in ExpenseIds
      BY <1>3, <2>1, AnswerSettles DEF ExpenseIds
    <2>3. Waiting(t)
      BY <1>0, <1>3, <2>1, CalmAnswer
    <2>4. txn' = [txn EXCEPT ![t].status = "processed"]
      BY <1>3, <2>1 DEF AnswerCommit
    <2> QED BY <2>2, <2>3, <2>4, SettlesPromise
  <1>4. ASSUME \A p \in Passes, t \in Txns : ~AutoLink(p, t) /\ ~AutoLog(p, t),
               \A k \in Taps : ~AnswerCommit(k),
               \A t \in Txns, m \in Messages : ~Insert(t, m)
        PROVE  UNCHANGED <<Status, Backing>>
    <2>1. Backing' = Backing
      BY <1>4, OtherSettlesNothing DEF SettlesNothing, Backing
    <2>2. ASSUME NEW p \in Passes, StartPass(p) \/ PassStep(p) \/ PassDies(p)
          PROVE  txn' = txn
      BY <1>4, <2>2 DEF PassStep, StartPass, Perceive, SendQuestion, AskUser,
         FinishBatch, DecideFromMemory, DecideByModel, Decide, SkipTxn,
         SendSummary, PassDies
    <2>3. ASSUME NEW k \in Taps, AnswerStep(k) \/ AnswerDies(k)
          PROVE  txn' = txn
      BY <1>4, <2>3 DEF AnswerStep, AnswerFlush, AnswerConflict, AnswerDies
    <2>4. ASSUME NEW k \in Taps, NEW r \in RunIds, NEW c \in Categories,
                 AnswerRead(k, r, c)
          PROVE  txn' = txn
      BY <2>4 DEF AnswerRead
    <2>5. txn' = txn
      BY <1>4, <2>2, <2>3, <2>4
         DEF Next, vars, IngestSms, IngestPhoto, LogManual, Recategorize
    <2> QED BY <2>1, <2>5 DEF Status
  <1> QED BY <1>0, <1>1, <1>2, <1>3, <1>4, InsertPromise

\* With all three habits Reconcile implements SpendLedger: a transaction is
\* settled once, by whichever of a pass and an answer, and is then backed by
\* exactly one expense that backs nothing else (agent.py _act and expenses.py
\* resolve_ask_user_answer write without looking at the status again).
THEOREM EachIsSettledOnce ==
    {"one_pass", "one_tap", "answers_first"} \subseteq Discipline
        => (Spec => ExactlyOnce)
  <1> SUFFICES ASSUME Patient PROVE Spec => ExactlyOnce
    BY DEF Patient
  <1>0. "one_pass" \in Discipline /\ "one_tap" \in Discipline
    BY DEF Patient
  <1>1. Init => Promise!Init
    BY DEF Init, Promise!Init, Linked, Ledger, NoRow
  <1>2. IInv /\ PassInv /\ TapInv /\ CalmInv /\ [Next]_vars
            => [Promise!Next]_<<[t \in Txns |-> txn[t].status],
                                [t \in Txns |-> Linked(t)]>>
    BY PromiseStep DEF Status, Backing
  <1> QED BY <1>0, <1>1, <1>2, Invariance, PassAlways, TapAlways, CalmAlways,
             PTL DEF Spec, ExactlyOnce, Promise!Spec
=============================================================================
