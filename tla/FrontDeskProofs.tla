-------------------------- MODULE FrontDeskProofs ---------------------------
(***************************************************************************)
(* The safety properties of FrontDesk, for every number of chats, handlers *)
(* and connections, whatever is asked and whatever the model answers.      *)
(***************************************************************************)
EXTENDS FrontDesk, FiniteSetTheorems, TLAPS

(***************************************************************************)
(* The inductive invariant.  Shape is about one handler by itself, Fits    *)
(* about a handler and the tables; Company is what alone stands for, and   *)
(* OneChatEach keeps a handler from writing to another chat's user.        *)
(***************************************************************************)
AtWork == {"store", "read", "write", "query", "perceive", "act", "send",
           "record"}

\* The user of the chat has yet to be found.
Young(l) == \/ l.pc \in {"idle", "user", "create"}
            \/ l.pc = "model" /\ l.req.kind = "ask"

\* The failures of a local model that leave an SMS to the expressions.
Failures == {"invalid", "failed"}

\* An SMS whose amount is known and fits, after such a failure.
Owing(m) == /\ Provider = "ollama" /\ m.req.kind = "sms"
            /\ m.last \in Failures /\ m.req.text.amount \in 0 .. Widest

\* What may end a handler that has its chat to itself.
Excused(m) == Incomparable(m.req) \/ TooWide(m) \/ Escaped(m)

Shape(l) ==
    /\ l \in HandlerType
    /\ IF l.pc \in {"idle", "done"} THEN l.user = NoUser
       ELSE l.req \in RequestType
    /\ l.pc \notin {"idle", "done", "reply", "dead"} => Accepted(l.req)
    /\ l.pc \in AtWork => l.user # NoUser
    /\ l.pc = "model" => /\ l.req.kind \in {"sms", "photo", "ask", "reconcile"}
                         /\ l.req.kind # "ask" => l.user # NoUser
                         /\ l.req.kind = "ask" => ~l.holds
    /\ l.pc \in {"perceive", "act", "send", "record"} =>
          l.req.kind = "reconcile"
    /\ l.pc = "store" => l.row \in RowType /\ l.row.owner = l.user
    /\ l.pc \in {"read", "write"} => l.req.kind \in {"salary", "setbudget"}
    /\ l.pc = "write" => IF l.req.kind = "salary" THEN l.seen \in PlanType
                         ELSE l.seen \in [limit : Int]
    /\ l.holds => l.pc \in InSession
    /\ l.pc = "reply" /\ l.reply = "saved" =>
          l.user # NoUser /\ l.req.kind \in {"salary", "setbudget"}
    /\ l.pc \in {"idle", "user", "create"} /\ l.req.kind = "sms" =>
          l.last = "none"

\* What a handler read is still so, if it has its chat to itself.
Fresh(h) ==
    LET l == handler[h]
    IN  l.alone =>
          /\ l.pc = "create" => user[l.req.chat] = NoUser
          /\ l.pc = "write" =>
                l.seen = IF l.req.kind = "salary" THEN profile[l.user]
                         ELSE [limit |-> budget[l.user][l.req.label]]
          /\ l.pc = "reply" /\ l.reply = "saved" => SettingOf(h)

Owned(u) == \E c \in Chats : user[c] = u

RowFits(h) ==
    /\ row[h] # NoRow => Owned(row[h].owner)
    /\ handler[h].pc \notin {"reply", "done"} => row[h] = NoRow
    /\ handler[h].pc = "reply" =>
          /\ handler[h].reply \in RowReplies <=> row[h] # NoRow
          /\ row[h] # NoRow => StoredReply[row[h].table] = handler[h].reply

UserFits(h) ==
    /\ handler[h].user # NoUser => user[handler[h].req.chat] = handler[h].user
    /\ \A c \in Chats : user[c] = h => ~Young(handler[h])

\* What a handler may end of, and where an SMS that is owed may be.
Kept(m) == \/ m.pc = "model"
           \/ m.pc = "store" /\ m.row.amount = m.req.text.amount

Resilient(h) ==
    LET l == handler[h]
    IN  /\ l.pc = "dead" /\ l.alone => Excused(l)
        /\ Owing(l) => \/ Kept(l)
                       \/ l.pc = "reply" /\ row[h] # NoRow

Fits(h) == Fresh(h) /\ RowFits(h) /\ UserFits(h) /\ Resilient(h)

Company ==
    \A g, h \in Handlers :
        /\ g # h /\ Running(g) /\ Running(h)
        /\ handler[g].req.chat = handler[h].req.chat
        => ~handler[g].alone /\ ~handler[h].alone

OneChatEach ==
    \A c, d \in Chats : user[c] = user[d] /\ user[c] # NoUser => c = d

SettingsOwned ==
    \A u \in UserIds :
        profile[u] # NoProfile \/ (\E c \in Labels : budget[u][c] # NotSet)
           => Owned(u)

Holders == {h \in Handlers : handler[h].holds}

PoolOK == IsFiniteSet(Holders) /\ lent + Cardinality(Holders) <= Connections

IInv ==
    /\ TypeOK /\ Company /\ OneChatEach /\ SettingsOwned /\ PoolOK
    /\ \A h \in Handlers : Shape(handler[h]) /\ Fits(h)

-----------------------------------------------------------------------------
(***************************************************************************)
(* Rows and local states.                                                  *)
(***************************************************************************)
LEMMA ConstantFacts ==
    /\ NoUser \notin UserIds /\ NoLabel \notin Labels
    /\ Dates \subseteq Nat /\ Today \in Dates
    /\ Connections \in Nat \ {0} /\ Widest \in Nat
  BY FrontDeskAssumption, ParserAssumption DEF UserIds

\* The row of what the patterns read is the chat's own.
LEMMA RegexRow ==
    ASSUME NEW text \in TextType, text.amount # NoAmount, NEW u \in UserIds
    PROVE  /\ ParsedRow(u, ByRegex(text)) \in RowType
           /\ ParsedRow(u, ByRegex(text)).owner = u
           /\ ParsedRow(u, ByRegex(text)).amount = text.amount
  <1>1. /\ text.amount \in Nat
        /\ MerchantOf(text) \in Merchants \cup {NoMerchant}
        /\ DateOf(text) \in Dates \cup {NoDate}
    BY DEF TextType, MerchantOf, FirstOf, DateOf
  <1>2. /\ ByRegex(text).amount = text.amount
        /\ ByRegex(text).merchant \in Merchants \cup {NoMerchant}
        /\ ByRegex(text).date \in Dates
    BY <1>1, ConstantFacts DEF ByRegex, Completed
  <1> QED BY <1>1, <1>2 DEF ParsedRow, RowType

\* The patterns are confident only with an amount.
LEMMA SureOfAmount ==
    ASSUME NEW text \in TextType, Confident(text)
    PROVE  text.amount # NoAmount
  BY DEF Confident, Confidence, Threshold

\* The row of what the model read is the chat's own.
LEMMA ModelRow ==
    ASSUME NEW x \in ExtractionType, IsTransaction(x), NEW u \in UserIds
    PROVE  /\ ParsedRow(u, ByModel(x)) \in RowType
           /\ ParsedRow(u, ByModel(x)).owner = u
  <1>1. /\ ByModel(x).amount \in Nat
        /\ ByModel(x).merchant \in Merchants \cup {NoMerchant}
        /\ ByModel(x).date \in Dates
    BY ConstantFacts DEF ByModel, Completed, IsTransaction, ExtractionType
  <1> QED BY <1>1 DEF ParsedRow, RowType

\* The row of a photo is the chat's own.
LEMMA PhotoRow ==
    ASSUME NEW x \in ReceiptType, x.amount # NoAmount, NEW u \in UserIds,
           NEW caption \in Labels \cup {NoLabel}
    PROVE  /\ ReceiptRow(u, x, caption) \in RowType
           /\ ReceiptRow(u, x, caption).owner = u
  BY ConstantFacts DEF ReceiptRow, ReceiptType, RowType

\* The row of an accepted /log is the chat's own.
LEMMA LogRow ==
    ASSUME NEW r \in RequestType, r.kind = "log", Accepted(r),
           NEW u \in UserIds
    PROVE  ReportedRow(u, r) \in RowType /\ ReportedRow(u, r).owner = u
  <1>1. r.amount \in Int /\ r.amount > 0 /\ r.label \in Labels
    BY DEF RequestType, Accepted
  <1> QED BY <1>1, ConstantFacts DEF ReportedRow, RowType

\* The places and the answers the proofs speak of are there.
LEMMA Names ==
    /\ {"idle", "user", "create", "model", "store", "read", "write", "query",
        "perceive", "act", "send", "record", "reply", "done", "dead"}
       \subseteq Places
    /\ {"refused", "parse_error", "llm_error", "low_confidence",
        "not_understood", "not_financial", "pending", "income", "logged",
        "saved", "answer", "summary"} \subseteq Answers
  BY DEF Places, Answers

\* What the chat is sent closes the session.
LEMMA AnsweredShape ==
    ASSUME NEW l, Shape(l), l.pc \notin {"idle", "done"},
           NEW reply \in Answers,
           reply = "saved" => l.pc = "write"
    PROVE  Shape(Answered(l, reply))
  <1> DEFINE m == Answered(l, reply)
  <1>0. l \in HandlerType
    BY DEF Shape
  <1>1. m \in HandlerType
    BY <1>0, Names DEF Answered, HandlerType
  <1>3. /\ m.pc = "reply" /\ ~m.holds /\ m.reply = reply
        /\ m.req = l.req /\ m.user = l.user
    BY <1>0 DEF Answered, HandlerType
  <1> HIDE DEF m
  <1>2. Shape(m)
    BY <1>1, <1>3 DEF Shape, AtWork
  <1> QED BY <1>2 DEF m

\* A handler that dies on its way has the shape of a dead one.
LEMMA DeadShape ==
    ASSUME NEW l, Shape(l), l.pc \notin {"idle", "done"}
    PROVE  Shape(Dead(l))
  <1> DEFINE m == Dead(l)
  <1>0. l \in HandlerType
    BY DEF Shape
  <1>1. m \in HandlerType
    BY <1>0, Names DEF Dead, HandlerType
  <1>3. m.pc = "dead" /\ ~m.holds /\ m.req = l.req
    BY <1>0 DEF Dead, HandlerType
  <1> HIDE DEF m
  <1>2. Shape(m)
    BY <1>1, <1>3 DEF Shape, AtWork
  <1> QED BY <1>2 DEF m

\* A handler that ends or has not begun holds nothing.
LEMMA GoneShape == Shape(Gone) /\ Shape(Idle)
  BY Names DEF Gone, Idle, Shape, HandlerType, AtWork, Unseen

\* Who enters knows his user and has something to do.
LEMMA EnterShape ==
    ASSUME NEW l \in HandlerType, l.req \in RequestType, Accepted(l.req),
           l.user # NoUser, l.user \in UserIds
    PROVE  /\ Shape(Enter(l))
           /\ Enter(l).pc \in {"store", "model", "read", "query", "perceive"}
           /\ ~Young(Enter(l))
           /\ Enter(l).req = l.req /\ Enter(l).user = l.user
           /\ Enter(l).holds = l.holds /\ Enter(l).alone = l.alone
           /\ Enter(l).last = l.last /\ Enter(l).seen = l.seen
  <1> DEFINE m == Enter(l)
             r == l.req
             Same == /\ m.req = l.req /\ m.user = l.user
                     /\ m.holds = l.holds /\ m.alone = l.alone
                     /\ m.last = l.last /\ m.seen = l.seen
  <1>1. CASE r.kind = "sms" /\ Confident(r.text)
    <2>1. r.text \in TextType
      BY <1>1 DEF RequestType
    <2> DEFINE x == ParsedRow(l.user, ByRegex(r.text))
    <2>2. x \in RowType /\ x.owner = l.user
      BY <1>1, <2>1, SureOfAmount, RegexRow
    <2>3. m = [l EXCEPT !.pc = "store", !.row = x]
      BY <1>1 DEF Enter
    <2> HIDE DEF x, m
    <2>4. m \in HandlerType
      BY <2>2, <2>3, Names DEF HandlerType
    <2>5. /\ m.pc = "store" /\ m.row = x /\ Same
      BY <2>3 DEF HandlerType
    <2> QED BY <2>2, <2>4, <2>5
            DEF Shape, AtWork, InSession, Young, m
  <1>2. CASE \/ r.kind = "sms" /\ ~Confident(r.text)
             \/ r.kind = "photo"
    <2>1. m = [l EXCEPT !.pc = "model"]
      BY <1>2 DEF Enter
    <2> HIDE DEF m
    <2>2. m \in HandlerType
      BY <2>1, Names DEF HandlerType
    <2>3. m.pc = "model" /\ Same
      BY <2>1 DEF HandlerType
    <2> QED BY <1>2, <2>2, <2>3 DEF Shape, AtWork, InSession, Young, m
  <1>3. CASE r.kind = "log"
    <2> DEFINE x == ReportedRow(l.user, r)
    <2>1. x \in RowType /\ x.owner = l.user
      BY <1>3, LogRow
    <2>2. m = [l EXCEPT !.pc = "store", !.row = x]
      BY <1>3 DEF Enter
    <2> HIDE DEF x, m
    <2>3. m \in HandlerType
      BY <2>1, <2>2, Names DEF HandlerType
    <2>4. /\ m.pc = "store" /\ m.row = x /\ Same
      BY <2>2 DEF HandlerType
    <2> QED BY <1>3, <2>1, <2>3, <2>4
            DEF Shape, AtWork, InSession, Young, m
  <1>4. CASE r.kind \in {"salary", "setbudget"}
    <2>1. m = [l EXCEPT !.pc = "read"]
      BY <1>4 DEF Enter
    <2> HIDE DEF m
    <2>2. m \in HandlerType
      BY <2>1, Names DEF HandlerType
    <2>3. m.pc = "read" /\ Same
      BY <2>1 DEF HandlerType
    <2> QED BY <1>4, <2>2, <2>3 DEF Shape, AtWork, InSession, Young, m
  <1>5. CASE r.kind \in {"ask", "show"}
    <2>1. m = [l EXCEPT !.pc = "query"]
      BY <1>5 DEF Enter
    <2> HIDE DEF m
    <2>2. m \in HandlerType
      BY <2>1, Names DEF HandlerType
    <2>3. m.pc = "query" /\ Same
      BY <2>1 DEF HandlerType
    <2> QED BY <1>5, <2>2, <2>3 DEF Shape, AtWork, InSession, Young, m
  <1>6. CASE r.kind = "reconcile"
    <2>1. m = [l EXCEPT !.pc = "perceive"]
      BY <1>6 DEF Enter
    <2> HIDE DEF m
    <2>2. m \in HandlerType
      BY <2>1, Names DEF HandlerType
    <2>3. m.pc = "perceive" /\ Same
      BY <2>1 DEF HandlerType
    <2> QED BY <1>6, <2>2, <2>3 DEF Shape, AtWork, InSession, Young, m
  <1>7. r.kind \in {"sms", "photo", "log", "salary", "setbudget", "ask",
                    "show", "reconcile"}
    BY DEF RequestType
  <1> QED BY <1>1, <1>2, <1>3, <1>4, <1>5, <1>6, <1>7

-----------------------------------------------------------------------------
(***************************************************************************)
(* A step of one handler.                                                  *)
(***************************************************************************)
Moves(h, m) == handler' = [handler EXCEPT ![h] = m]

\* Going on, a handler keeps what it was asked.
GoesOn(h, m) ==
    m.pc \notin {"idle", "done", "dead"} =>
        /\ Running(h)
        /\ m.req = handler[h].req /\ m.alone = handler[h].alone

MayHold(h, m) == m.holds => Connected(h)

TablesOK ==
    /\ lent \in 0 .. Connections - 1
    /\ user \in [Chats -> UserIds \cup {NoUser}]
    /\ row \in [Handlers -> RowType \cup {NoRow}]
    /\ profile \in [UserIds -> PlanType]
    /\ budget \in [UserIds -> [Labels -> Int]]

\* A step that takes or returns one connection keeps the pool.
LEMMA PoolStep ==
    ASSUME TypeOK, PoolOK, NEW h \in Handlers, NEW m, m.holds \in BOOLEAN,
           Moves(h, m), MayHold(h, m), lent' = lent
    PROVE  PoolOK'
  <1>1. /\ IsFiniteSet(Holders) /\ Cardinality(Holders) \in Nat
        /\ lent \in Nat /\ Connections \in Nat
        /\ lent + Cardinality(Holders) <= Connections
    BY FS_CardinalityType, ConstantFacts DEF PoolOK, TypeOK
  <1>2. /\ handler'[h] = m
        /\ \A g \in Handlers \ {h} : handler'[g] = handler[g]
    BY DEF Moves, TypeOK
  <1>3. CASE m.holds = handler[h].holds
    <2>1. Holders' = Holders
      BY <1>2, <1>3 DEF Holders
    <2> QED BY <1>1, <2>1 DEF PoolOK
  <1>4. CASE m.holds /\ ~handler[h].holds
    <2>1. Holders' = Holders \cup {h} /\ h \notin Holders
      BY <1>2, <1>4 DEF Holders
    <2>2. /\ IsFiniteSet(Holders')
          /\ Cardinality(Holders') = Cardinality(Holders) + 1
      BY <1>1, <2>1, FS_AddElement
    <2>3. lent + Cardinality(Holders) < Connections
      BY <1>4 DEF MayHold, Connected, InUse, Holders
    <2> QED BY <1>1, <2>2, <2>3 DEF PoolOK
  <1>5. CASE ~m.holds /\ handler[h].holds
    <2>1. Holders' = Holders \ {h} /\ h \in Holders
      BY <1>2, <1>5 DEF Holders
    <2>2. /\ IsFiniteSet(Holders')
          /\ Cardinality(Holders') = Cardinality(Holders) - 1
      BY <1>1, <2>1, FS_RemoveElement
    <2> QED BY <1>1, <2>2 DEF PoolOK
  <1>6. handler[h].holds \in BOOLEAN
    BY DEF TypeOK, HandlerType
  <1> QED BY <1>3, <1>4, <1>5, <1>6

\* A step of one handler keeps the invariant if its parts are kept.
LEMMA StepInv ==
    ASSUME IInv, NEW h \in Handlers, NEW m, Moves(h, m), GoesOn(h, m),
           MayHold(h, m), Shape(m), lent' = lent, TablesOK',
           OneChatEach', SettingsOwned', \A g \in Handlers : Fits(g)'
    PROVE  IInv'
  <1>1. /\ handler'[h] = m
        /\ \A g \in Handlers \ {h} : handler'[g] = handler[g]
    BY DEF Moves, IInv, TypeOK
  <1>2. m \in HandlerType /\ m.holds \in BOOLEAN
    BY DEF Shape, HandlerType
  <1>3. TypeOK'
    BY <1>2 DEF Moves, IInv, TypeOK, TablesOK
  <1>4. PoolOK'
    BY <1>2, PoolStep DEF IInv
  <1>5. Company'
    <2> SUFFICES ASSUME NEW g \in Handlers, NEW k \in Handlers, g # k,
                        Running(g)', Running(k)',
                        handler'[g].req.chat = handler'[k].req.chat
                 PROVE  ~handler'[g].alone /\ ~handler'[k].alone
      BY DEF Company
    <2>1. \A x \in Handlers : Running(x)' =>
              /\ Running(x) /\ handler'[x].req = handler[x].req
              /\ handler'[x].alone = handler[x].alone
      BY <1>1 DEF GoesOn, Running
    <2> QED BY <2>1 DEF IInv, Company
  <1>6. \A g \in Handlers : Shape(handler'[g])
    BY <1>1 DEF IInv
  <1> QED BY <1>3, <1>4, <1>5, <1>6 DEF IInv, Shape

\* Others keep what they have when no table is written.
LEMMA SameFits ==
    ASSUME NEW g \in Handlers, Fits(g), handler'[g] = handler[g],
           UNCHANGED <<user, row, profile, budget>>
    PROVE  Fits(g)'
  BY DEF Fits, Fresh, SettingOf, RowFits, Owned, UserFits, Resilient

\* A step of one handler that writes no table keeps the invariant.
LEMMA LocalInv ==
    ASSUME IInv, NEW h \in Handlers, NEW m, Local(h, m), GoesOn(h, m),
           MayHold(h, m), Shape(m), Fits(h)'
    PROVE  IInv'
  <1>1. Moves(h, m) /\ UNCHANGED <<lent, user, row, profile, budget>>
    BY DEF Local, Moves
  <1>2. \A g \in Handlers \ {h} : handler'[g] = handler[g]
    BY <1>1 DEF Moves, IInv, TypeOK
  <1>3. \A g \in Handlers : Fits(g)'
    BY <1>1, <1>2, SameFits DEF IInv
  <1>4. TablesOK' /\ OneChatEach' /\ SettingsOwned'
    BY <1>1 DEF IInv, TypeOK, TablesOK, OneChatEach, SettingsOwned, Owned
  <1> QED BY <1>1, <1>3, <1>4, StepInv

\* A handler goes on to a place where it neither relies on the tables nor
\* reports on them.
LEMMA PlainFits ==
    ASSUME IInv, NEW h \in Handlers, NEW m, Local(h, m),
           handler[h].pc \notin {"reply", "done"},
           m.pc \notin {"create", "write", "reply", "done", "dead"},
           m.user # NoUser => user[m.req.chat] = m.user,
           Young(m) => Young(handler[h]),
           Owing(m) => Kept(m)
    PROVE  Fits(h)'
  <1>1. handler'[h] = m /\ UNCHANGED <<user, row, profile, budget>>
    BY DEF Local, IInv, TypeOK
  <1>2. RowFits(h) /\ UserFits(h) /\ row[h] = NoRow
    BY DEF IInv, Fits, RowFits
  <1>3. Fresh(h)' /\ Resilient(h)'
    BY <1>1 DEF Fresh, Resilient
  <1>4. RowFits(h)' /\ UserFits(h)'
    BY <1>1, <1>2 DEF RowFits, UserFits, Owned
  <1> QED BY <1>3, <1>4 DEF Fits

\* A handler says that nothing was stored.
LEMMA RefusalInv ==
    ASSUME IInv, NEW h \in Handlers, NEW l, NEW reply \in Answers,
           Local(h, Answered(l, reply)),
           handler[h].pc \notin {"idle", "reply", "done", "dead"},
           Shape(l), l.pc = handler[h].pc, l.req = handler[h].req,
           l.user = handler[h].user, l.alone = handler[h].alone,
           reply \notin RowReplies \cup {"saved"}, ~Owing(l)
    PROVE  IInv'
  <1> DEFINE m == Answered(l, reply)
  <1>0. l \in HandlerType
    BY DEF Shape
  <1>1. /\ m.pc = "reply" /\ ~m.holds /\ m.reply = reply /\ m.req = l.req
        /\ m.user = l.user /\ m.alone = l.alone /\ m.last = l.last
    BY <1>0 DEF Answered, HandlerType
  <1>2. Shape(m)
    BY AnsweredShape
  <1>3. Local(h, m)
    OBVIOUS
  <1> HIDE DEF m
  <1>4. handler'[h] = m /\ UNCHANGED <<user, row, profile, budget>>
    BY <1>3 DEF Local, IInv, TypeOK
  <1>5. RowFits(h) /\ UserFits(h) /\ row[h] = NoRow
    BY DEF IInv, Fits, RowFits
  <1>6. Fresh(h)' /\ Resilient(h)'
    BY <1>1, <1>4 DEF Fresh, Resilient, Owing
  <1>7. RowFits(h)' /\ UserFits(h)'
    BY <1>1, <1>4, <1>5 DEF RowFits, UserFits, Owned, Young
  <1>8. GoesOn(h, m) /\ MayHold(h, m)
    BY <1>1 DEF GoesOn, MayHold, Running
  <1> QED BY <1>2, <1>3, <1>6, <1>7, <1>8, LocalInv DEF Fits

\* A handler ends, whatever it was at.
LEMMA GoneInv ==
    ASSUME IInv, NEW h \in Handlers, Local(h, Gone)
    PROVE  IInv'
  <1>1. /\ Gone.pc = "done" /\ ~Gone.holds /\ Gone.user = NoUser
        /\ Gone.req.kind = "none"
    BY DEF Gone, Idle, NoRequest
  <1>2. handler'[h] = Gone /\ UNCHANGED <<user, row, profile, budget>>
    BY DEF Local, IInv, TypeOK
  <1>3. Fresh(h)' /\ Resilient(h)'
    BY <1>1, <1>2 DEF Fresh, Resilient, Owing
  <1>4. RowFits(h)' /\ UserFits(h)'
    BY <1>1, <1>2 DEF IInv, Fits, RowFits, UserFits, Owned, Young
  <1>5. GoesOn(h, Gone) /\ MayHold(h, Gone)
    BY <1>1 DEF GoesOn, MayHold
  <1> QED BY <1>3, <1>4, <1>5, GoneShape, LocalInv DEF Fits

\* An exception ends a handler: in a race, or for want of an answer.
LEMMA DeadInv ==
    ASSUME IInv, NEW h \in Handlers, NEW l, Local(h, Dead(l)),
           handler[h].pc \notin {"idle", "reply", "done", "dead"},
           Shape(l), l.pc = handler[h].pc, l.req = handler[h].req,
           l.user = handler[h].user, l.alone = handler[h].alone,
           l.alone => Excused(l), ~Owing(l)
    PROVE  IInv'
  <1> DEFINE m == Dead(l)
  <1>0. l \in HandlerType
    BY DEF Shape
  <1>1. /\ m.pc = "dead" /\ ~m.holds /\ m.req = l.req /\ m.row = l.row
        /\ m.user = l.user /\ m.alone = l.alone /\ m.last = l.last
    BY <1>0 DEF Dead, HandlerType
  <1>9. (Excused(m) <=> Excused(l)) /\ (Owing(m) <=> Owing(l))
    BY <1>1 DEF Excused, TooWide, Escaped, Owing
  <1>2. Shape(m)
    BY DeadShape
  <1>3. Local(h, m)
    OBVIOUS
  <1> HIDE DEF m
  <1>4. handler'[h] = m /\ UNCHANGED <<user, row, profile, budget>>
    BY <1>3 DEF Local, IInv, TypeOK
  <1>5. RowFits(h) /\ UserFits(h) /\ row[h] = NoRow
    BY DEF IInv, Fits, RowFits
  <1>6. Fresh(h)' /\ Resilient(h)'
    BY <1>1, <1>4, <1>9 DEF Fresh, Resilient
  <1>7. RowFits(h)' /\ UserFits(h)'
    BY <1>1, <1>4, <1>5 DEF RowFits, UserFits, Owned, Young
  <1>8. GoesOn(h, m) /\ MayHold(h, m)
    BY <1>1 DEF GoesOn, MayHold
  <1> QED BY <1>2, <1>3, <1>6, <1>7, <1>8, LocalInv DEF Fits

-----------------------------------------------------------------------------
(***************************************************************************)
(* The steps that write nothing but the handler.                           *)
(***************************************************************************)
\* A handler that is running, and what IInv says of it.
LEMMA AtPlace ==
    ASSUME IInv, NEW h \in Handlers
    PROVE  /\ handler[h] \in HandlerType /\ Shape(handler[h])
           /\ Fresh(h) /\ RowFits(h) /\ UserFits(h) /\ Resilient(h)
           /\ user \in [Chats -> UserIds \cup {NoUser}]
           /\ Running(h) => handler[h].req \in RequestType
           /\ Running(h) => handler[h].req.chat \in Chats
  <1>1. Running(h) => handler[h].req \in RequestType
    BY DEF IInv, Shape, Running
  <1>2. \A r \in RequestType : r.chat \in Chats
    BY DEF RequestType
  <1> QED BY <1>1, <1>2 DEF IInv, TypeOK, Fits

\* The lookup of the user keeps the invariant.
LEMMA FindUserStep ==
    ASSUME IInv, NEW h \in Handlers, FindUser(h)
    PROVE  IInv'
  <1> DEFINE l == handler[h]
             u == user[l.req.chat]
  <1>1. /\ l.pc = "user" /\ Connected(h) /\ Running(h)
        /\ l \in HandlerType /\ Shape(l) /\ l.req \in RequestType
        /\ Accepted(l.req) /\ u \in UserIds \cup {NoUser}
        /\ l.req.chat \in Chats /\ RowFits(h) /\ UserFits(h)
        /\ row[h] = NoRow
    BY AtPlace DEF FindUser, Running, Shape, RowFits
  <1>2. ~Owing(l)
    BY <1>1 DEF Shape, Owing, Failures, Attempts
  <1>3. CASE u = NoUser
    <2> DEFINE m == [l EXCEPT !.pc = "create", !.holds = TRUE]
    <2>1. Local(h, m)
      BY <1>3 DEF FindUser
    <2>2. m \in HandlerType
      BY <1>1, Names DEF HandlerType
    <2>3. /\ m.pc = "create" /\ m.req = l.req /\ m.user = l.user
          /\ m.alone = l.alone /\ m.last = l.last
      BY <1>1 DEF HandlerType
    <2> HIDE DEF m
    <2>4. Shape(m)
      BY <1>1, <2>2, <2>3 DEF Shape, AtWork, InSession
    <2>5. handler'[h] = m /\ UNCHANGED <<user, row, profile, budget>>
      BY <2>1 DEF Local, IInv, TypeOK
    <2>6. Fresh(h)' /\ Resilient(h)'
      BY <1>2, <1>3, <2>3, <2>5 DEF Fresh, Resilient, Owing
    <2>7. RowFits(h)' /\ UserFits(h)'
      BY <1>1, <2>3, <2>5 DEF RowFits, UserFits, Young
    <2>8. GoesOn(h, m) /\ MayHold(h, m)
      BY <1>1, <2>3 DEF GoesOn, MayHold
    <2> QED BY <2>1, <2>4, <2>6, <2>7, <2>8, LocalInv DEF Fits
  <1>4. CASE u # NoUser
    <2> DEFINE k == [l EXCEPT !.user = u, !.holds = TRUE]
               m == Enter(k)
    <2>1. Local(h, m)
      BY <1>4 DEF FindUser
    <2>2. k \in HandlerType
      BY <1>1 DEF HandlerType
    <2>3. /\ k.user = u /\ k.req = l.req /\ k.alone = l.alone
          /\ k.last = l.last
      BY <1>1 DEF HandlerType
    <2> HIDE DEF k
    <2>4. /\ Shape(m) /\ ~Young(m)
          /\ m.pc \in {"store", "model", "read", "query", "perceive"}
          /\ m.req = l.req /\ m.user = u /\ m.alone = l.alone
          /\ m.last = l.last
      BY <1>1, <1>4, <2>2, <2>3, EnterShape
    <2> HIDE DEF m
    <2>5. ~Owing(m)
      BY <1>2, <2>4 DEF Owing
    <2>6. Fits(h)'
      BY <1>1, <2>1, <2>4, <2>5, PlainFits
    <2>7. GoesOn(h, m) /\ MayHold(h, m)
      BY <1>1, <2>4 DEF GoesOn, MayHold
    <2> QED BY <2>1, <2>4, <2>6, <2>7, LocalInv
  <1> QED BY <1>3, <1>4

\* The steps from place to place with a user in hand.
LEMMA OnwardInv ==
    ASSUME IInv, NEW h \in Handlers, NEW m \in HandlerType, Local(h, m),
           handler[h].pc \in AtWork \cup {"model"},
           handler[h].user # NoUser,
           m.req = handler[h].req, m.user = handler[h].user,
           m.alone = handler[h].alone,
           m.pc \in {"model", "query", "act", "send", "record"},
           m.holds => Connected(h) /\ m.pc \notin {"send", "record"},
           m.pc = "query" => m.req.kind = "ask",
           m.pc \in {"model", "act", "send", "record"} =>
              m.req.kind = "reconcile",
           ~Owing(m)
    PROVE  IInv'
  <1>1. /\ m.req \in RequestType /\ Accepted(m.req) /\ Running(h)
    BY AtPlace DEF Shape, AtWork, Running
  <1>2. Shape(m)
    BY <1>1 DEF Shape, AtWork, InSession
  <1>3. m.user # NoUser => user[m.req.chat] = m.user
    BY AtPlace DEF UserFits
  <1>4. ~Young(m)
    BY DEF Young
  <1>5. Fits(h)'
    BY <1>3, <1>4, PlainFits DEF AtWork
  <1>6. GoesOn(h, m) /\ MayHold(h, m)
    BY <1>1 DEF GoesOn, MayHold
  <1> QED BY <1>2, <1>5, <1>6, LocalInv

\* Neither an SMS that waits for its model nor one that is stored is at work
\* elsewhere.
LEMMA NotOwing ==
    ASSUME IInv, NEW h \in Handlers, Running(h),
           handler[h].pc \notin {"model", "store", "reply"}
    PROVE  ~Owing(handler[h])
  BY AtPlace DEF Resilient, Kept, Running

\* The SELECTs of an answer keep it.
LEMMA QueryStep ==
    ASSUME IInv, NEW h \in Handlers, Query(h)
    PROVE  IInv'
  <1>1. handler[h].pc = "query" /\ Local(h, Answered(handler[h], "answer"))
    BY DEF Query
  <1>2. ~Owing(handler[h]) /\ Shape(handler[h])
    BY <1>1, NotOwing, AtPlace DEF Running
  <1> QED BY <1>1, <1>2, Names, RefusalInv DEF RowReplies

\* The steps of the pass after an income keep it.
LEMMA PassSteps ==
    ASSUME IInv, NEW h \in Handlers,
           \/ Perceive(h) \/ Act(h) \/ SendQuestion(h) \/ RecordQuestion(h)
    PROVE  IInv'
  <1> DEFINE l == handler[h]
  <1>1. /\ l.pc \in {"perceive", "act", "send", "record"} /\ Running(h)
        /\ l \in HandlerType /\ Shape(l)
    BY AtPlace DEF Perceive, Act, SendQuestion, RecordQuestion, Running
  <1>2. ~Owing(l) /\ l.user # NoUser
    BY <1>1, NotOwing DEF Shape, AtWork
  <1>3. ASSUME NEW k, Shape(k), k.pc = l.pc, k.req = l.req, k.user = l.user,
               k.alone = l.alone, k.last = l.last,
               Local(h, Answered(k, "summary"))
        PROVE  IInv'
    <2>1. ~Owing(k)
      BY <1>2, <1>3 DEF Owing
    <2> QED BY <1>1, <1>3, <2>1, Names, RefusalInv DEF RowReplies
  <1>4. ASSUME NEW m \in HandlerType, Local(h, m),
               m.pc \in {"model", "act", "send", "record"},
               m.req = l.req, m.user = l.user, m.alone = l.alone,
               m.last = l.last,
               m.holds => Connected(h) /\ m.pc \notin {"send", "record"}
        PROVE  IInv'
    <2>1. ~Owing(m) /\ m.req.kind = "reconcile"
      BY <1>1, <1>2, <1>4 DEF Owing, Shape
    <2> QED BY <1>1, <1>2, <1>4, <2>1, OnwardInv DEF AtWork
  <1>5. CASE Perceive(h)
    <2> DEFINE k == [l EXCEPT !.holds = TRUE]
    <2>1. /\ l.pc = "perceive" /\ Connected(h)
          /\ \/ Local(h, Answered(k, "summary"))
             \/ Local(h, [k EXCEPT !.pc = "act"])
             \/ Local(h, [k EXCEPT !.pc = "model"])
      BY <1>5 DEF Perceive
    <2>2. /\ k \in HandlerType /\ k.pc = l.pc /\ k.req = l.req
          /\ k.user = l.user /\ k.alone = l.alone /\ k.last = l.last
      BY <1>1 DEF HandlerType
    <2> HIDE DEF k
    <2>3. Shape(k)
      BY <1>1, <2>1, <2>2 DEF Shape, InSession, AtWork
    <2>4. ASSUME NEW pc \in {"act", "model"}
          PROVE  LET m == [k EXCEPT !.pc = pc]
                 IN  /\ m \in HandlerType /\ m.pc = pc /\ m.req = l.req
                     /\ m.user = l.user /\ m.alone = l.alone
                     /\ m.last = l.last
      BY <2>2, <2>4, Names DEF HandlerType
    <2> QED BY <1>3, <1>4, <2>1, <2>2, <2>3, <2>4
  <1>6. CASE Act(h)
    <2> DEFINE m == [l EXCEPT !.pc = "send", !.holds = FALSE]
    <2>1. /\ \/ Local(h, Answered(l, "summary"))
             \/ Local(h, m)
      BY <1>6 DEF Act
    <2>2. m \in HandlerType
      BY <1>1, Names DEF HandlerType
    <2>3. /\ m.pc = "send" /\ m.req = l.req /\ m.user = l.user
          /\ m.alone = l.alone /\ m.last = l.last /\ ~m.holds
      BY <1>1 DEF HandlerType
    <2> HIDE DEF m
    <2> QED BY <1>1, <1>3, <1>4, <2>1, <2>2, <2>3
  <1>8. CASE SendQuestion(h)
    <2> DEFINE m == [l EXCEPT !.pc = "record"]
    <2>1. Local(h, m) /\ l.pc = "send"
      BY <1>8 DEF SendQuestion
    <2>2. m \in HandlerType
      BY <1>1, Names DEF HandlerType
    <2>3. /\ m.pc = "record" /\ m.req = l.req /\ m.user = l.user
          /\ m.alone = l.alone /\ m.last = l.last /\ ~m.holds
      BY <1>1, <2>1 DEF HandlerType, Shape, InSession
    <2> HIDE DEF m
    <2> QED BY <1>4, <2>1, <2>2, <2>3
  <1>7. CASE RecordQuestion(h)
    <2>1. Local(h, Answered(l, "summary"))
      BY <1>7 DEF RecordQuestion
    <2> QED BY <1>1, <1>3, <2>1
  <1> QED BY <1>5, <1>6, <1>7, <1>8

\* What an attempt comes to.
LEMMA Outcomes ==
    ASSUME NEW n, NEW a \in Attempts
    PROVE  LET o == Outcome(Provider, n, a)
           IN  /\ o \in {"again", "LLMDecisionError", "escapes", "answer"}
               /\ o = "answer" => a = "valid"
               /\ o = "escapes" =>
                     \/ a = "empty" /\ Provider # "gemini"
                     \/ a = "failed" /\ Provider # "ollama"
  BY FrontDeskAssumption
     DEF Outcome, ClaudeOutcome, GeminiOutcome, OllamaOutcome, Attempts,
         Providers

\* A row is ready to be stored.
LEMMA StoreInv ==
    ASSUME IInv, NEW h \in Handlers, handler[h].pc = "model",
           handler[h].req.kind \in {"sms", "photo"},
           NEW l \in HandlerType, l.pc = "model", l.req = handler[h].req,
           l.user = handler[h].user, l.alone = handler[h].alone,
           l.holds = handler[h].holds,
           NEW x \in RowType, x.owner = l.user,
           Owing(l) => x.amount = l.req.text.amount,
           Local(h, [l EXCEPT !.pc = "store", !.row = x])
    PROVE  IInv'
  <1> DEFINE m == [l EXCEPT !.pc = "store", !.row = x]
  <1>1. m \in HandlerType
    BY Names DEF HandlerType
  <1>2. /\ m.pc = "store" /\ m.row = x /\ m.req = l.req /\ m.user = l.user
        /\ m.alone = l.alone /\ m.last = l.last /\ m.holds = l.holds
    BY DEF HandlerType
  <1>3. Local(h, m)
    OBVIOUS
  <1> HIDE DEF m
  <1>4. /\ l.user # NoUser /\ l.req \in RequestType /\ Accepted(l.req)
        /\ Running(h) /\ (l.holds => Connected(h))
    BY AtPlace DEF Shape, Running, Connected
  <1>5. Shape(m)
    BY <1>1, <1>2, <1>4 DEF Shape, AtWork, InSession
  <1>6. m.user # NoUser => user[m.req.chat] = m.user
    BY <1>2, AtPlace DEF UserFits
  <1>9. Owing(m) => Kept(m)
    BY <1>2 DEF Owing, Kept
  <1>7. Fits(h)'
    BY <1>2, <1>3, <1>6, <1>9, PlainFits DEF Young
  <1>8. GoesOn(h, m) /\ MayHold(h, m)
    BY <1>2, <1>4 DEF GoesOn, MayHold
  <1> QED BY <1>3, <1>5, <1>7, <1>8, LocalInv

\* The call of the model keeps it, whatever comes of it.
LEMMA CallModelStep ==
    ASSUME IInv, NEW h \in Handlers, NEW a \in Attempts, CallModel(h, a)
    PROVE  IInv'
  <1> DEFINE l == [handler[h] EXCEPT !.last = a, !.attempt = @ + 1]
             o == Outcome(Provider, l.attempt, a)
  <1>1. /\ handler[h].pc = "model" /\ Running(h)
        /\ handler[h] \in HandlerType /\ Shape(handler[h])
        /\ handler[h].req.kind \in {"sms", "photo", "ask", "reconcile"}
        /\ handler[h].req \in RequestType
        /\ RowFits(h) /\ UserFits(h)
    BY AtPlace DEF CallModel, Running, Shape
  <1>a. l \in HandlerType
    <2> DEFINE k == handler[h]
    <2>1. k.attempt + 1 \in Nat /\ a \in Attempts \cup {"none"}
      BY <1>1 DEF HandlerType
    <2>2. l = [k EXCEPT !.last = a, !.attempt = k.attempt + 1]
      OBVIOUS
    <2>3. k \in HandlerType
      BY <1>1
    <2> HIDE DEF k, l
    <2> QED BY <2>1, <2>2, <2>3 DEF HandlerType
  <1>b. /\ l.pc = "model" /\ l.req = handler[h].req
        /\ l.user = handler[h].user /\ l.alone = handler[h].alone
        /\ l.holds = handler[h].holds /\ l.last = a
    BY <1>1 DEF HandlerType
  <1>2. /\ l \in HandlerType /\ l.pc = "model" /\ l.req = handler[h].req
        /\ l.user = handler[h].user /\ l.alone = handler[h].alone
        /\ l.holds = handler[h].holds /\ l.last = a
    BY <1>a, <1>b
  <1>c. o \in {"again", "LLMDecisionError", "escapes", "answer"}
    BY Outcomes
  <1>3. \/ o = "again" /\ Local(h, l)
        \/ o = "LLMDecisionError" /\ Local(h, GiveUp(l))
        \/ o = "escapes" /\ Local(h, Dead(l))
        \/ /\ o = "answer"
           /\ \/ l.req.kind = "sms" /\ AnswerSms(h, l)
              \/ l.req.kind = "photo" /\ AnswerPhoto(h, l)
              \/ l.req.kind = "ask" /\ AnswerAsk(h, l)
              \/ l.req.kind = "reconcile" /\ AnswerPass(h, l)
    BY <1>c DEF CallModel
  <1>4. /\ o = "answer" => ~Owing(l)
        /\ o = "escapes" => Excused(l) /\ ~Owing(l)
    BY <1>2, Outcomes DEF Owing, Failures, Excused, Escaped
  <1> HIDE DEF o
  <1> HIDE DEF l
  <1>5. Shape(l)
    BY <1>1, <1>2 DEF Shape, AtWork
  <1>6. l.req.kind # "ask" => l.user \in UserIds /\ l.user # NoUser
    BY <1>2, <1>5 DEF Shape, HandlerType
  <1>7. ASSUME NEW reply \in Answers \ (RowReplies \cup {"saved"}),
               Local(h, Answered(l, reply)), ~Owing(l)
        PROVE  IInv'
    BY <1>1, <1>2, <1>5, <1>7, RefusalInv
  <1>8. ASSUME NEW x \in RowType, x.owner = l.user,
               Local(h, [l EXCEPT !.pc = "store", !.row = x]),
               l.req.kind \in {"sms", "photo"},
               Owing(l) => x.amount = l.req.text.amount
        PROVE  IInv'
    BY <1>1, <1>2, <1>8, StoreInv
  <1>9. CASE o = "again" /\ Local(h, l)
    <2>1. l.user # NoUser => user[l.req.chat] = l.user
      BY <1>1, <1>2 DEF UserFits
    <2>2. Young(l) => Young(handler[h])
      BY <1>1, <1>2 DEF Young
    <2>3. Fits(h)'
      BY <1>1, <1>2, <1>9, <2>1, <2>2, PlainFits DEF Kept
    <2>4. GoesOn(h, l) /\ MayHold(h, l)
      BY <1>1, <1>2 DEF GoesOn, MayHold, Connected
    <2> QED BY <1>5, <1>9, <2>3, <2>4, LocalInv
  <1>10. CASE o = "LLMDecisionError" /\ Local(h, GiveUp(l))
    <2>1. CASE l.req.kind = "sms" /\ l.req.text.amount # NoAmount
      <3> DEFINE x == ParsedRow(l.user, ByRegex(l.req.text))
      <3>1. l.req.text \in TextType
        BY <1>1, <1>2, <2>1 DEF RequestType
      <3>2. x \in RowType /\ x.owner = l.user /\ x.amount = l.req.text.amount
        BY <1>6, <2>1, <3>1, RegexRow
      <3>3. GiveUp(l) = [l EXCEPT !.pc = "store", !.row = x]
        BY <2>1 DEF GiveUp
      <3> HIDE DEF x
      <3> QED BY <1>8, <1>10, <2>1, <3>2, <3>3
    <2>2. CASE ~(l.req.kind = "sms" /\ l.req.text.amount # NoAmount)
      <3>1. ~Owing(l)
        BY <2>2, ConstantFacts DEF Owing, NoAmount
      <3>2. \E reply \in {"parse_error", "llm_error", "not_understood",
                          "summary"} : GiveUp(l) = Answered(l, reply)
        BY <1>1, <1>2, <2>2 DEF GiveUp
      <3> QED BY <1>7, <1>10, <3>1, <3>2, Names DEF RowReplies
    <2> QED BY <2>1, <2>2
  <1>11. CASE o = "escapes" /\ Local(h, Dead(l))
    BY <1>1, <1>2, <1>4, <1>5, <1>11, DeadInv
  <1>12. CASE o = "answer" /\ l.req.kind = "sms" /\ AnswerSms(h, l)
    <2>1. PICK x \in Extractions :
             Local(h, IF IsTransaction(x)
                      THEN [l EXCEPT !.pc = "store",
                                     !.row = ParsedRow(l.user, ByModel(x))]
                      ELSE Answered(l, "parse_error"))
      BY <1>12 DEF AnswerSms
    <2>2. x \in ExtractionType
      BY FrontDeskAssumption
    <2>3. CASE IsTransaction(x)
      <3> DEFINE y == ParsedRow(l.user, ByModel(x))
      <3>1. y \in RowType /\ y.owner = l.user
        BY <1>6, <1>12, <2>2, <2>3, ModelRow
      <3>2. Local(h, [l EXCEPT !.pc = "store", !.row = y])
        BY <2>1, <2>3
      <3> HIDE DEF y
      <3> QED BY <1>4, <1>8, <1>12, <3>1, <3>2
    <2>4. CASE ~IsTransaction(x)
      BY <1>4, <1>7, <1>12, <2>1, <2>4, Names DEF RowReplies
    <2> QED BY <2>3, <2>4
  <1>13. CASE o = "answer" /\ l.req.kind = "photo" /\ AnswerPhoto(h, l)
    <2>1. PICK x \in Receipts :
             Local(h, IF x.readable /\ x.sure /\ x.amount # NoAmount
                      THEN [l EXCEPT !.pc = "store",
                                     !.row = ReceiptRow(l.user, x,
                                                        l.req.caption)]
                      ELSE Answered(l, "low_confidence"))
      BY <1>13 DEF AnswerPhoto
    <2>2. x \in ReceiptType /\ l.req.caption \in Labels \cup {NoLabel}
      BY <1>1, <1>2, <1>13, FrontDeskAssumption DEF RequestType
    <2>3. CASE x.readable /\ x.sure /\ x.amount # NoAmount
      <3> DEFINE y == ReceiptRow(l.user, x, l.req.caption)
      <3>1. y \in RowType /\ y.owner = l.user
        BY <1>6, <1>13, <2>2, <2>3, PhotoRow
      <3>2. Local(h, [l EXCEPT !.pc = "store", !.row = y])
        BY <2>1, <2>3
      <3> HIDE DEF y
      <3> QED BY <1>4, <1>8, <1>13, <3>1, <3>2
    <2>4. CASE ~(x.readable /\ x.sure /\ x.amount # NoAmount)
      BY <1>4, <1>7, <1>13, <2>1, <2>4, Names DEF RowReplies
    <2> QED BY <2>3, <2>4
  <1>14. CASE o = "answer" /\ l.req.kind = "ask" /\ AnswerAsk(h, l)
    <2>1. CASE Local(h, Answered(l, "not_financial"))
      BY <1>4, <1>7, <1>14, <2>1, Names DEF RowReplies
    <2>2. CASE Local(h, [l EXCEPT !.pc = "user"])
      <3> DEFINE m == [l EXCEPT !.pc = "user"]
      <3>1. m \in HandlerType
        BY <1>2, Names DEF HandlerType
      <3>2. /\ m.pc = "user" /\ m.req = l.req /\ m.user = l.user
            /\ m.alone = l.alone /\ m.last = l.last /\ ~m.holds
        BY <1>2, <1>5, <1>14 DEF HandlerType, Shape
      <3>3. Local(h, m)
        BY <2>2
      <3> HIDE DEF m
      <3>4. Shape(m)
        BY <1>2, <1>5, <1>14, <3>1, <3>2 DEF Shape, AtWork
      <3>5. m.user # NoUser => user[m.req.chat] = m.user
        BY <1>1, <1>2, <3>2 DEF UserFits
      <3>6. Young(handler[h]) /\ ~Owing(m)
        BY <1>1, <1>2, <1>14, <3>2 DEF Young, Owing
      <3>7. Fits(h)'
        BY <1>1, <3>2, <3>3, <3>5, <3>6, PlainFits
      <3>8. GoesOn(h, m) /\ MayHold(h, m)
        BY <1>1, <1>2, <3>2 DEF GoesOn, MayHold
      <3> QED BY <3>3, <3>4, <3>7, <3>8, LocalInv
    <2> QED BY <1>14, <2>1, <2>2 DEF AnswerAsk
  <1>15. CASE o = "answer" /\ l.req.kind = "reconcile" /\ AnswerPass(h, l)
    <2> DEFINE m == [l EXCEPT !.pc = "act"]
    <2>1. m \in HandlerType
      BY <1>2, Names DEF HandlerType
    <2>2. /\ m.pc = "act" /\ m.req = l.req /\ m.user = l.user
          /\ m.alone = l.alone /\ m.last = l.last /\ m.holds = l.holds
      BY <1>2 DEF HandlerType
    <2>3. Local(h, m)
      BY <1>15 DEF AnswerPass
    <2> HIDE DEF m
    <2>4. ~Owing(m) /\ (m.holds => Connected(h)) /\ handler[h].user # NoUser
      BY <1>1, <1>2, <1>6, <1>15, <2>2 DEF Owing, Connected
    <2> QED BY <1>1, <1>2, <1>15, <2>1, <2>2, <2>3, <2>4, OnwardInv
  <1> QED BY <1>3, <1>9, <1>10, <1>11, <1>12, <1>13, <1>14, <1>15

\* Reading the row of a setting keeps it.
LEMMA ReadSettingStep ==
    ASSUME IInv, NEW h \in Handlers, ReadSetting(h)
    PROVE  IInv'
  <1> DEFINE l == handler[h]
             s == IF l.req.kind = "salary" THEN profile[l.user]
                  ELSE [limit |-> budget[l.user][l.req.label]]
             m == [l EXCEPT !.pc = "write", !.holds = TRUE, !.seen = s]
  <1>1. /\ l.pc = "read" /\ Connected(h) /\ Running(h)
        /\ l \in HandlerType /\ Shape(l) /\ l.req \in RequestType
        /\ l.req.kind \in {"salary", "setbudget"} /\ Accepted(l.req)
        /\ l.user # NoUser /\ l.user \in UserIds
        /\ RowFits(h) /\ UserFits(h) /\ row[h] = NoRow
    BY AtPlace
       DEF ReadSetting, Running, Shape, AtWork, RowFits, HandlerType
  <1>2. Local(h, m)
    BY DEF ReadSetting
  <1>3. IF l.req.kind = "salary" THEN s \in PlanType ELSE s \in [limit : Int]
    <2>1. l.req.kind = "salary" => profile[l.user] \in PlanType
      BY <1>1 DEF IInv, TypeOK
    <2>2. l.req.kind = "setbudget" => l.req.label \in Labels
      BY <1>1 DEF RequestType
    <2>3. l.req.kind = "setbudget" => budget[l.user][l.req.label] \in Int
      BY <1>1, <2>2 DEF IInv, TypeOK
    <2> QED BY <1>1, <2>1, <2>3
  <1>4. /\ s = IF l.req.kind = "salary" THEN profile[l.user]
               ELSE [limit |-> budget[l.user][l.req.label]]
        /\ m = [l EXCEPT !.pc = "write", !.holds = TRUE, !.seen = s]
    OBVIOUS
  <1> HIDE DEF s, m
  <1>5. m \in HandlerType
    <2>1. s \in PlanType \cup [limit : Int] \cup {Unseen}
      BY <1>3
    <2>2. "write" \in Places
      BY Names
    <2>3. l \in HandlerType /\ m = [l EXCEPT !.pc = "write", !.holds = TRUE,
                                             !.seen = s]
      BY <1>1, <1>4
    <2> HIDE DEF l
    <2> QED BY <2>1, <2>2, <2>3 DEF HandlerType
  <1>6. /\ m.pc = "write" /\ m.seen = s /\ m.req = l.req /\ m.user = l.user
        /\ m.alone = l.alone /\ m.last = l.last
    BY <1>1, <1>4 DEF HandlerType
  <1>7. Shape(m)
    BY <1>1, <1>3, <1>5, <1>6 DEF Shape, AtWork, InSession
  <1>8. handler'[h] = m /\ UNCHANGED <<user, row, profile, budget>>
    BY <1>2 DEF Local, IInv, TypeOK
  <1>9. Fresh(h)' /\ Resilient(h)'
    BY <1>1, <1>4, <1>6, <1>8, NotOwing DEF Fresh, Resilient, Owing
  <1>10. RowFits(h)' /\ UserFits(h)'
    BY <1>1, <1>6, <1>8 DEF RowFits, UserFits, Young
  <1>11. GoesOn(h, m) /\ MayHold(h, m)
    BY <1>1, <1>6 DEF GoesOn, MayHold
  <1> QED BY <1>2, <1>7, <1>9, <1>10, <1>11, LocalInv DEF Fits

-----------------------------------------------------------------------------
(***************************************************************************)
(* The steps that write a table.                                           *)
(***************************************************************************)
LEMMA StoreStep ==
    ASSUME IInv, NEW h \in Handlers, Store(h)
    PROVE  IInv'
  <1> DEFINE l == handler[h]
             reply == StoredReply[l.row.table]
             m == Answered(l, reply)
  <1>1. /\ l.pc = "store" /\ Running(h) /\ l \in HandlerType /\ Shape(l)
        /\ l.row \in RowType /\ l.row.owner = l.user /\ l.user # NoUser
        /\ user[l.req.chat] = l.user /\ l.req.chat \in Chats
        /\ RowFits(h) /\ UserFits(h)
    BY AtPlace DEF Store, Running, Shape, AtWork, UserFits
  <1>2. CASE TooWide(l)
    <2>1. Local(h, Dead(l))
      BY <1>2 DEF Store
    <2>2. Owing(l) => l.row.amount = l.req.text.amount
      BY <1>1, AtPlace DEF Resilient, Kept
    <2>3. ~Owing(l)
      BY <1>2, <2>2, ConstantFacts DEF TooWide, Owing
    <2>4. Excused(l)
      BY <1>2 DEF Excused
    <2> HIDE DEF l
    <2> QED BY <1>1, <2>1, <2>3, <2>4, DeadInv DEF l
  <1>3. CASE ~TooWide(l)
    <2>2. /\ row' = [row EXCEPT ![h] = l.row] /\ Moves(h, m)
          /\ UNCHANGED <<lent, user, profile, budget>>
      BY <1>3 DEF Store, Moves
    <2>3. l.row.table \in {"transactions", "incomes", "expenses"}
      BY <1>1 DEF RowType
    <2>4. reply \in RowReplies
      BY <2>3 DEF StoredReply, RowReplies
    <2>5. reply = StoredReply[l.row.table]
      OBVIOUS
    <2> HIDE DEF reply
    <2>6. reply \in Answers /\ reply # "saved"
      BY <2>4, Names DEF RowReplies
    <2>7. Shape(m)
      BY <1>1, <2>6, AnsweredShape
    <2>8. /\ m.pc = "reply" /\ ~m.holds /\ m.reply = reply /\ m.req = l.req
          /\ m.user = l.user /\ m.alone = l.alone
      BY <1>1 DEF Answered, HandlerType
    <2> HIDE DEF m
    <2>9. /\ handler'[h] = m /\ row'[h] = l.row
          /\ \A g \in Handlers \ {h} :
                handler'[g] = handler[g] /\ row'[g] = row[g]
      BY <2>2 DEF Moves, IInv, TypeOK
    <2>10. l.row # NoRow
      BY <2>3 DEF NoRow
    <2>11. \A g \in Handlers : Fits(g)'
      <3> TAKE g \in Handlers
      <3>1. CASE g # h
        BY <2>2, <2>9, <3>1
           DEF IInv, Fits, Fresh, SettingOf, RowFits, Owned, UserFits,
               Resilient
      <3>2. CASE g = h
        <4>1. Fresh(h)' /\ Resilient(h)'
          BY <2>6, <2>8, <2>9, <2>10 DEF Fresh, Resilient
        <4>2. RowFits(h)'
          BY <1>1, <2>2, <2>4, <2>5, <2>8, <2>9, <2>10 DEF RowFits, Owned
        <4>3. UserFits(h)'
          BY <1>1, <2>2, <2>8, <2>9 DEF UserFits, Young
        <4> QED BY <3>2, <4>1, <4>2, <4>3 DEF Fits
      <3> QED BY <3>1, <3>2
    <2>12. TablesOK'
      BY <1>1, <2>2 DEF IInv, TypeOK, TablesOK
    <2>13. OneChatEach' /\ SettingsOwned'
      BY <2>2 DEF IInv, OneChatEach, SettingsOwned, Owned
    <2>14. GoesOn(h, m) /\ MayHold(h, m)
      BY <1>1, <2>8 DEF GoesOn, MayHold
    <2> QED BY <2>2, <2>7, <2>11, <2>12, <2>13, <2>14, StepInv
  <1> QED BY <1>2, <1>3

\* Inserting the user keeps it, and every chat to one user.
LEMMA CreateUserStep ==
    ASSUME IInv, NEW h \in Handlers, CreateUser(h)
    PROVE  IInv'
  <1> DEFINE l == handler[h]
             c == l.req.chat
             k == [l EXCEPT !.user = h, !.holds = FALSE]
             m == Enter(k)
  <1>1. /\ l.pc = "create" /\ Running(h) /\ l \in HandlerType /\ Shape(l)
        /\ c \in Chats /\ l.req \in RequestType /\ Accepted(l.req)
        /\ Fresh(h) /\ RowFits(h) /\ UserFits(h) /\ row[h] = NoRow
        /\ user \in [Chats -> UserIds \cup {NoUser}]
    BY AtPlace DEF CreateUser, Running, Shape, RowFits
  <1>2. ~Owing(l)
    BY <1>1, NotOwing
  <1>3. CASE user[c] # NoUser
    <2>1. Local(h, Dead(l)) /\ ~l.alone
      BY <1>1, <1>3 DEF CreateUser, Fresh
    <2> QED BY <1>1, <1>2, <2>1, DeadInv
  <1>4. CASE user[c] = NoUser
    <2>1. /\ user' = [user EXCEPT ![c] = h] /\ Moves(h, m)
          /\ UNCHANGED <<lent, row, profile, budget>>
      BY <1>4 DEF CreateUser, Moves
    <2>2. h \in UserIds /\ h # NoUser
      BY ConstantFacts DEF UserIds
    <2>3. k \in HandlerType
      BY <1>1, <2>2 DEF HandlerType
    <2>4. /\ k.user = h /\ k.req = l.req /\ k.alone = l.alone
          /\ k.last = l.last /\ ~k.holds
      BY <1>1 DEF HandlerType
    <2> HIDE DEF k
    <2>5. /\ Shape(m) /\ ~Young(m)
          /\ m.pc \in {"store", "model", "read", "query", "perceive"}
          /\ m.req = l.req /\ m.user = h /\ m.alone = l.alone
          /\ m.last = l.last /\ ~m.holds
      BY <1>1, <2>2, <2>3, <2>4, EnterShape
    <2> HIDE DEF m
    <2>6. /\ handler'[h] = m /\ user'[c] = h
          /\ \A d \in Chats \ {c} : user'[d] = user[d]
          /\ \A g \in Handlers \ {h} : handler'[g] = handler[g]
      BY <1>1, <2>1 DEF Moves, IInv, TypeOK
    <2>7. \A u \in UserIds : Owned(u) => Owned(u)'
      BY <1>4, <2>6, ConstantFacts DEF Owned
    <2>8. \A g \in Handlers : Fits(g)'
      <3> TAKE g \in Handlers
      <3>1. CASE g # h
        <4>1. /\ Fits(g) /\ Shape(handler[g]) /\ handler[g] \in HandlerType
              /\ Running(g) => handler[g].req.chat \in Chats
              /\ row[g] # NoRow => row[g].owner \in UserIds
          BY AtPlace DEF IInv, TypeOK, RowType
        <4>2. handler[g].alone /\ Running(g) => handler[g].req.chat # c
          BY <1>1, <3>1 DEF IInv, Company
        <4>3. Fresh(g)'
          BY <2>1, <2>6, <3>1, <4>1, <4>2
             DEF Fits, Fresh, SettingOf, Running
        <4>4. RowFits(g)'
          BY <2>1, <2>6, <2>7, <3>1, <4>1 DEF Fits, RowFits
        <4>5. UserFits(g)'
          <5>1. ASSUME handler[g].user # NoUser
                PROVE  user'[handler[g].req.chat] = handler[g].user
            <6>1. handler[g].req.chat \in Chats
              BY <4>1, <5>1 DEF Shape, RequestType
            <6>2. user[handler[g].req.chat] = handler[g].user
              BY <4>1, <5>1 DEF Fits, UserFits
            <6> QED BY <1>4, <2>6, <5>1, <6>1, <6>2
          <5>2. ASSUME NEW d \in Chats, user'[d] = g
                PROVE  ~Young(handler[g])
            BY <2>6, <3>1, <4>1, <5>2 DEF Fits, UserFits
          <5> QED BY <2>6, <3>1, <5>1, <5>2 DEF UserFits
        <4>6. Resilient(g)'
          BY <2>1, <2>6, <3>1, <4>1 DEF Fits, Resilient
        <4> QED BY <4>3, <4>4, <4>5, <4>6 DEF Fits
      <3>2. CASE g = h
        <4>1. Fresh(h)' /\ Resilient(h)'
          BY <1>2, <2>5, <2>6 DEF Fresh, Resilient, Owing
        <4>2. RowFits(h)' /\ UserFits(h)'
          BY <1>1, <2>1, <2>5, <2>6 DEF RowFits, UserFits
        <4> QED BY <3>2, <4>1, <4>2 DEF Fits
      <3> QED BY <3>1, <3>2
    <2>9. TablesOK'
      BY <1>1, <2>1, <2>2 DEF IInv, TypeOK, TablesOK
    <2>10. OneChatEach'
      <3>1. \A d \in Chats : user[d] # h
        BY <1>1 DEF UserFits, Young
      <3> QED BY <2>6, <3>1 DEF IInv, OneChatEach
    <2>11. SettingsOwned'
      BY <2>1, <2>7 DEF IInv, SettingsOwned
    <2>12. GoesOn(h, m) /\ MayHold(h, m)
      BY <1>1, <2>5 DEF GoesOn, MayHold
    <2> QED BY <2>1, <2>5, <2>8, <2>9, <2>10, <2>11, <2>12, StepInv
  <1> QED BY <1>3, <1>4

\* An upsert keeps the columns; one that is not overtaken writes what was
\* asked.
LEMMA ChangedPlan ==
    ASSUME NEW seen \in PlanType, NEW now \in PlanType, NEW wanted \in PlanType
    PROVE  /\ Changed(seen, now, wanted) \in PlanType
           /\ seen = now => Changed(seen, now, wanted) = wanted
  <1>1. DOMAIN wanted = {"expected", "target", "payday"}
    BY DEF PlanType
  <1>2. /\ \A f \in {"expected", "target", "payday"} :
              wanted[f] \in Int /\ now[f] \in Int
        /\ wanted = [expected |-> wanted.expected, target |-> wanted.target,
                     payday |-> wanted.payday]
    BY DEF PlanType
  <1> DEFINE new == Changed(seen, now, wanted)
  <1>3. new = [expected |-> new["expected"], target |-> new["target"],
               payday |-> new["payday"]]
    BY <1>1 DEF Changed
  <1>4. \A f \in {"expected", "target", "payday"} :
           new[f] = IF wanted[f] # seen[f] THEN wanted[f] ELSE now[f]
    BY <1>1 DEF Changed
  <1> HIDE DEF new
  <1>5. new \in PlanType
    BY <1>2, <1>3, <1>4 DEF PlanType
  <1>6. seen = now => new = wanted
    BY <1>2, <1>3, <1>4
  <1> QED BY <1>5, <1>6 DEF new

\* An UPDATE of the changed columns leaves the limit a number.
LEMMA ChangedLimit ==
    ASSUME NEW seen \in [limit : Int], NEW now \in [limit : Int],
           NEW limit \in Int
    PROVE  LET new == Changed(seen, now, [limit |-> limit])
           IN  /\ new.limit \in Int
               /\ seen = now => new.limit = limit
  BY DEF Changed

\* A handler that has its chat to itself has its user to itself.
LEMMA OwnUser ==
    ASSUME IInv, NEW h \in Handlers, NEW g \in Handlers, g # h,
           Running(g), Running(h), handler[g].alone,
           handler[g].user # NoUser
    PROVE  handler[g].user # handler[h].user
  <1>1. handler[g].req.chat # handler[h].req.chat
    BY DEF IInv, Company
  <1>2. handler[g].req.chat \in Chats /\ handler[h].req.chat \in Chats
    BY AtPlace
  <1>3. /\ user[handler[g].req.chat] = handler[g].user
        /\ handler[h].user # NoUser =>
              user[handler[h].req.chat] = handler[h].user
    BY AtPlace DEF UserFits
  <1> QED BY <1>1, <1>2, <1>3 DEF IInv, OneChatEach

\* A handler is about to write a setting.
LEMMA AtWrite ==
    ASSUME IInv, NEW h \in Handlers, handler[h].pc = "write"
    PROVE  LET l == handler[h]
           IN  /\ Running(h) /\ l \in HandlerType /\ Shape(l)
               /\ l.req \in RequestType /\ l.req.chat \in Chats
               /\ l.user \in UserIds /\ l.user # NoUser
               /\ user[l.req.chat] = l.user /\ Owned(l.user)
               /\ Fresh(h) /\ RowFits(h) /\ UserFits(h) /\ row[h] = NoRow
               /\ ~Owing(l)
  <1>1. /\ Running(h) /\ handler[h] \in HandlerType /\ Shape(handler[h])
        /\ handler[h].req \in RequestType /\ handler[h].req.chat \in Chats
        /\ Fresh(h) /\ RowFits(h) /\ UserFits(h)
    BY AtPlace DEF Running
  <1>2. handler[h].user \in UserIds /\ handler[h].user # NoUser
    BY <1>1 DEF Shape, AtWork, HandlerType
  <1> QED BY <1>1, <1>2, NotOwing DEF UserFits, Owned, RowFits

\* A setting was written; the chat is told so.
LEMMA SavedInv ==
    ASSUME IInv, NEW h \in Handlers, handler[h].pc = "write",
           handler[h].req.kind \in {"salary", "setbudget"},
           Moves(h, Answered(handler[h], "saved")),
           UNCHANGED <<lent, user, row>>,
           profile' \in [UserIds -> PlanType],
           budget' \in [UserIds -> [Labels -> Int]],
           \A u \in UserIds \ {handler[h].user} :
              profile'[u] = profile[u] /\ budget'[u] = budget[u],
           handler[h].alone =>
              IF handler[h].req.kind = "salary"
              THEN profile'[handler[h].user] = handler[h].req.plan
              ELSE budget'[handler[h].user][handler[h].req.label]
                      = handler[h].req.limit
    PROVE  IInv'
  <1> DEFINE l == handler[h]
             m == Answered(l, "saved")
  <1>1. /\ Running(h) /\ l \in HandlerType /\ Shape(l)
        /\ l.user \in UserIds /\ l.user # NoUser
        /\ user[l.req.chat] = l.user /\ Owned(l.user)
        /\ RowFits(h) /\ UserFits(h) /\ row[h] = NoRow /\ ~Owing(l)
    BY AtWrite
  <1>2. Shape(m)
    BY <1>1, Names, AnsweredShape
  <1>3. /\ m.pc = "reply" /\ ~m.holds /\ m.reply = "saved" /\ m.req = l.req
        /\ m.user = l.user /\ m.alone = l.alone /\ m.last = l.last
    BY <1>1 DEF Answered, HandlerType
  <1>4. Moves(h, m)
    OBVIOUS
  <1> HIDE DEF m
  <1>5. /\ handler'[h] = m
        /\ \A g \in Handlers \ {h} : handler'[g] = handler[g]
    BY <1>4 DEF Moves, IInv, TypeOK
  <1>6. \A g \in Handlers : Fits(g)'
    <2> TAKE g \in Handlers
    <2>1. CASE g # h
      <3>1. Fits(g) /\ Shape(handler[g]) /\ handler[g] \in HandlerType
        BY DEF IInv, TypeOK
      <3>2. handler[g].alone /\ Running(g) /\ handler[g].user # NoUser =>
               /\ profile'[handler[g].user] = profile[handler[g].user]
               /\ budget'[handler[g].user] = budget[handler[g].user]
        <4> SUFFICES ASSUME handler[g].alone, Running(g),
                            handler[g].user # NoUser
                     PROVE  handler[g].user \in UserIds \ {l.user}
          OBVIOUS
        <4>1. handler[g].user # l.user
          BY <1>1, <2>1, OwnUser
        <4> QED BY <3>1, <4>1 DEF HandlerType
      <3>3. Fresh(g)'
        BY <1>5, <2>1, <3>1, <3>2
           DEF Fits, Fresh, SettingOf, Shape, AtWork, Running
      <3>4. RowFits(g)' /\ UserFits(g)' /\ Resilient(g)'
        BY <1>5, <2>1, <3>1 DEF Fits, RowFits, UserFits, Owned, Resilient
      <3> QED BY <3>3, <3>4 DEF Fits
    <2>2. CASE g = h
      <3>1. Fresh(h)' /\ Resilient(h)'
        BY <1>1, <1>3, <1>5 DEF Fresh, SettingOf, Resilient, Owing
      <3>2. RowFits(h)' /\ UserFits(h)'
        BY <1>1, <1>3, <1>5 DEF RowFits, RowReplies, UserFits, Young
      <3> QED BY <2>2, <3>1, <3>2 DEF Fits
    <2> QED BY <2>1, <2>2
  <1>7. TablesOK'
    BY DEF IInv, TypeOK, TablesOK
  <1>8. OneChatEach'
    BY DEF IInv, OneChatEach
  <1>9. SettingsOwned'
    BY <1>1 DEF IInv, SettingsOwned, Owned
  <1>10. GoesOn(h, m) /\ MayHold(h, m)
    BY <1>1, <1>3 DEF GoesOn, MayHold
  <1> QED BY <1>2, <1>4, <1>6, <1>7, <1>8, <1>9, <1>10, StepInv

\* Writing the profile keeps it.
LEMMA WriteProfileStep ==
    ASSUME IInv, NEW h \in Handlers, WriteProfile(h)
    PROVE  IInv'
  <1> DEFINE l   == handler[h]
             now == profile[l.user]
             new == Changed(l.seen, now, l.req.plan)
  <1>1. l.pc = "write" /\ l.req.kind = "salary"
    BY DEF WriteProfile
  <1>2. /\ Shape(l) /\ l.req \in RequestType /\ l.user \in UserIds
        /\ Fresh(h) /\ ~Owing(l)
    BY <1>1, AtWrite
  <1>3. /\ l.seen \in PlanType /\ now \in PlanType /\ l.req.plan \in PlanType
        /\ l.alone => l.seen = now
    BY <1>1, <1>2 DEF Shape, Fresh, RequestType, IInv, TypeOK
  <1> DEFINE Fails == TooWide(l) \/ (l.seen = NoProfile /\ now # NoProfile)
  <1>4. CASE Fails
    <2>1. Local(h, Dead(l)) /\ (l.alone => Excused(l))
      BY <1>3, <1>4 DEF WriteProfile, Excused
    <2> QED BY <1>1, <1>2, <2>1, DeadInv
  <1>5. CASE ~Fails
    <2>1. /\ profile' = [profile EXCEPT ![l.user] = new]
          /\ Moves(h, Answered(l, "saved"))
          /\ UNCHANGED <<lent, user, row, budget>>
      BY <1>5 DEF WriteProfile, Moves
    <2>2. new \in PlanType /\ (l.alone => new = l.req.plan)
      BY <1>3, ChangedPlan
    <2> HIDE DEF new
    <2>3. /\ profile' \in [UserIds -> PlanType] /\ profile'[l.user] = new
          /\ \A u \in UserIds \ {l.user} : profile'[u] = profile[u]
          /\ budget' \in [UserIds -> [Labels -> Int]]
      BY <1>2, <2>1, <2>2 DEF IInv, TypeOK
    <2> QED BY <1>1, <2>1, <2>2, <2>3, SavedInv
  <1> QED BY <1>4, <1>5

\* Writing a budget keeps it.
LEMMA WriteBudgetStep ==
    ASSUME IInv, NEW h \in Handlers, WriteBudget(h)
    PROVE  IInv'
  <1> DEFINE l   == handler[h]
             now == [limit |-> budget[l.user][l.req.label]]
             new == Changed(l.seen, now, [limit |-> l.req.limit])
  <1>1. l.pc = "write" /\ l.req.kind = "setbudget"
    BY DEF WriteBudget
  <1>2. /\ Shape(l) /\ l.req \in RequestType /\ l.user \in UserIds
        /\ Fresh(h) /\ ~Owing(l)
    BY <1>1, AtWrite
  <1>3. l.req.label \in Labels /\ l.req.limit \in Int
    BY <1>1, <1>2 DEF RequestType
  <1>4. /\ l.seen \in [limit : Int] /\ now \in [limit : Int]
        /\ l.alone => l.seen = now
    BY <1>1, <1>2, <1>3 DEF Shape, Fresh, IInv, TypeOK
  <1> DEFINE Fails == \/ TooWide(l)
                      \/ l.seen.limit = NotSet /\ now.limit # NotSet
  <1>5. CASE Fails
    <2>1. Local(h, Dead(l)) /\ (l.alone => Excused(l))
      BY <1>4, <1>5 DEF WriteBudget, Excused
    <2> QED BY <1>1, <1>2, <2>1, DeadInv
  <1>6. CASE ~Fails
    <2>1. /\ budget' = [budget EXCEPT ![l.user][l.req.label] = new.limit]
          /\ Moves(h, Answered(l, "saved"))
          /\ UNCHANGED <<lent, user, row, profile>>
      BY <1>6 DEF WriteBudget, Moves
    <2>2. new.limit \in Int /\ (l.alone => new.limit = l.req.limit)
      BY <1>3, <1>4, ChangedLimit
    <2> HIDE DEF new
    <2>3. /\ budget' \in [UserIds -> [Labels -> Int]]
          /\ budget'[l.user][l.req.label] = new.limit
          /\ \A u \in UserIds \ {l.user} : budget'[u] = budget[u]
          /\ profile' \in [UserIds -> PlanType]
      BY <1>2, <1>3, <2>1, <2>2 DEF IInv, TypeOK
    <2> QED BY <1>1, <2>1, <2>2, <2>3, SavedInv
  <1> QED BY <1>5, <1>6

-----------------------------------------------------------------------------
(***************************************************************************)
(* Arrivals.                                                               *)
(***************************************************************************)
LEMMA BeginShape ==
    ASSUME NEW r \in RequestType, NEW b \in BOOLEAN
    PROVE  LET m == Begin([Idle EXCEPT !.req = r, !.alone = b])
           IN  /\ m \in HandlerType /\ Shape(m)
               /\ m.pc \in {"reply", "model", "user", "dead"} /\ ~m.holds
               /\ m.pc = "reply" => m.reply = "refused"
               /\ m.pc = "dead" => Incomparable(r)
               /\ m.req = r /\ m.alone = b /\ m.user = NoUser
               /\ m.last = "none"
  <1> DEFINE l == [Idle EXCEPT !.req = r, !.alone = b]
             m == Begin(l)
  <1>1. /\ l.req = r /\ l.alone = b /\ l.user = NoUser /\ l.last = "none"
        /\ ~l.holds
    BY DEF Idle
  <1>2. l \in HandlerType
    BY Names DEF Idle, HandlerType, Unseen
  <1> HIDE DEF l
  <1>5. CASE Incomparable(r)
    <2>1. m = [l EXCEPT !.pc = "dead", !.holds = FALSE]
      BY <1>1, <1>5 DEF Begin, Dead
    <2> HIDE DEF m
    <2>2. m \in HandlerType
      BY <1>2, <2>1, Names DEF HandlerType
    <2>3. /\ m.pc = "dead" /\ ~m.holds /\ m.req = r
          /\ m.alone = b /\ m.user = NoUser /\ m.last = "none"
      BY <1>1, <1>2, <2>1 DEF HandlerType
    <2>4. Shape(m)
      BY <2>2, <2>3 DEF Shape, AtWork
    <2> QED BY <1>5, <2>2, <2>3, <2>4 DEF m, l
  <1>3. CASE ~Incomparable(r) /\ ~Accepted(r)
    <2>1. m = [l EXCEPT !.pc = "reply", !.holds = FALSE, !.reply = "refused"]
      BY <1>1, <1>3 DEF Begin, Answered
    <2> HIDE DEF m
    <2>2. m \in HandlerType
      BY <1>2, <2>1, Names DEF HandlerType
    <2>3. /\ m.pc = "reply" /\ ~m.holds /\ m.reply = "refused" /\ m.req = r
          /\ m.alone = b /\ m.user = NoUser /\ m.last = "none"
      BY <1>1, <1>2, <2>1 DEF HandlerType
    <2>4. Shape(m)
      BY <2>2, <2>3 DEF Shape, AtWork
    <2> QED BY <2>2, <2>3, <2>4 DEF m, l
  <1>4. CASE ~Incomparable(r) /\ Accepted(r)
    <2> DEFINE pc == IF r.kind = "ask" THEN "model" ELSE "user"
    <2>1. m = [l EXCEPT !.pc = pc]
      BY <1>1, <1>4 DEF Begin
    <2>2. pc \in {"model", "user"} /\ (pc = "model" => r.kind = "ask")
      OBVIOUS
    <2> HIDE DEF pc, m
    <2>3. m \in HandlerType
      BY <1>2, <2>1, <2>2, Names DEF HandlerType
    <2>4. /\ m.pc = pc /\ ~m.holds /\ m.req = r
          /\ m.alone = b /\ m.user = NoUser /\ m.last = "none"
      BY <1>1, <1>2, <2>1 DEF HandlerType
    <2>5. Shape(m)
      BY <1>4, <2>2, <2>3, <2>4 DEF Shape, AtWork
    <2> QED BY <2>2, <2>3, <2>4, <2>5 DEF m, l
  <1> QED BY <1>3, <1>4, <1>5

\* A handler that is no longer alone is otherwise as it was.
LEMMA BesideShape ==
    ASSUME NEW l, Shape(l)
    PROVE  LET m == [l EXCEPT !.alone = FALSE]
           IN  /\ m \in HandlerType /\ Shape(m) /\ ~m.alone
               /\ m.pc = l.pc /\ m.req = l.req /\ m.user = l.user
               /\ m.holds = l.holds /\ m.reply = l.reply /\ m.last = l.last
               /\ m.seen = l.seen /\ m.row = l.row
  <1> DEFINE m == [l EXCEPT !.alone = FALSE]
  <1>1. l \in HandlerType
    BY DEF Shape
  <1>2. m \in HandlerType
    BY <1>1 DEF HandlerType
  <1>3. /\ ~m.alone /\ m.pc = l.pc /\ m.req = l.req /\ m.user = l.user
        /\ m.holds = l.holds /\ m.reply = l.reply /\ m.last = l.last
        /\ m.seen = l.seen /\ m.row = l.row
    BY <1>1 DEF HandlerType
  <1> HIDE DEF m
  <1>4. Shape(m)
    BY <1>2, <1>3 DEF Shape
  <1> QED BY <1>2, <1>3, <1>4 DEF m

\* A message that arrives keeps it; nobody is alone beside it.
LEMMA ArriveStep ==
    ASSUME IInv, NEW h \in Handlers, NEW r \in Requests, Arrive(h, r)
    PROVE  IInv'
  <1> DEFINE beside == {g \in Handlers : SameChat(g, h, r)}
             b == beside = {}
             m == Begin([Idle EXCEPT !.req = r, !.alone = b])
  <1>0. /\ handler[h].pc = "idle" /\ r \in RequestType /\ b \in BOOLEAN
        /\ UNCHANGED <<lent, user, row, profile, budget>>
    BY FrontDeskAssumption DEF Arrive
  <1>1. /\ handler' = [g \in Handlers |->
                          IF g = h THEN m
                          ELSE IF g \in beside
                               THEN [handler[g] EXCEPT !.alone = FALSE]
                               ELSE handler[g]]
    BY DEF Arrive
  <1>2. /\ m \in HandlerType /\ Shape(m)
        /\ m.pc \in {"reply", "model", "user", "dead"} /\ ~m.holds
        /\ m.pc = "reply" => m.reply = "refused"
        /\ m.pc = "dead" => Incomparable(r)
        /\ m.req = r /\ m.alone = b /\ m.user = NoUser /\ m.last = "none"
    BY <1>0, BeginShape
  <1> HIDE DEF m
  <1>3. ASSUME NEW g \in Handlers, g # h
        PROVE  /\ handler'[g] \in HandlerType /\ Shape(handler'[g])
               /\ handler'[g].pc = handler[g].pc
               /\ handler'[g].req = handler[g].req
               /\ handler'[g].user = handler[g].user
               /\ handler'[g].holds = handler[g].holds
               /\ handler'[g].reply = handler[g].reply
               /\ handler'[g].last = handler[g].last
               /\ handler'[g].seen = handler[g].seen
               /\ handler'[g].row = handler[g].row
               /\ IF g \in beside THEN ~handler'[g].alone
                                  ELSE handler'[g] = handler[g]
    <2>1. Shape(handler[g]) /\ handler[g] \in HandlerType
      BY DEF IInv, TypeOK
    <2>2. CASE g \in beside
      <3>1. handler'[g] = [handler[g] EXCEPT !.alone = FALSE]
        BY <1>1, <1>3, <2>2
      <3> QED BY <2>1, <2>2, <3>1, BesideShape
    <2>3. CASE g \notin beside
      BY <1>1, <1>3, <2>1, <2>3
    <2> QED BY <2>2, <2>3
  <1>4. handler'[h] = m
    BY <1>1
  <1>5. TypeOK'
    <2>1. \A g \in Handlers : handler'[g] \in HandlerType
      BY <1>2, <1>3, <1>4
    <2>2. handler' \in [Handlers -> HandlerType]
      BY <1>1, <2>1
    <2> QED BY <1>0, <2>2 DEF IInv, TypeOK
  <1>6. \A g \in Handlers : Shape(handler'[g])
    BY <1>2, <1>3, <1>4
  <1>7. Company'
    <2> SUFFICES ASSUME NEW g \in Handlers, NEW k \in Handlers, g # k,
                        Running(g)', Running(k)',
                        handler'[g].req.chat = handler'[k].req.chat
                 PROVE  ~handler'[g].alone /\ ~handler'[k].alone
      BY DEF Company
    <2>1. ASSUME NEW x \in Handlers, x # h, Running(x)',
                 handler'[x].req.chat = r.chat
          PROVE  ~handler'[x].alone /\ ~m.alone
      <3>1. x \in beside
        BY <1>3, <2>1 DEF SameChat, Running
      <3> QED BY <1>2, <1>3, <2>1, <3>1
    <2>2. CASE g = h
      BY <1>2, <1>4, <2>1, <2>2
    <2>3. CASE k = h
      BY <1>2, <1>4, <2>1, <2>3
    <2>4. CASE g # h /\ k # h
      <3>1. ~handler[g].alone /\ ~handler[k].alone
        BY <1>3, <2>4 DEF IInv, Company, Running
      <3> QED BY <1>3, <2>4, <3>1
    <2> QED BY <2>2, <2>3, <2>4
  <1>8. PoolOK'
    <2>1. ~handler[h].holds
      BY <1>0 DEF IInv, Shape, InSession
    <2>2. Holders' = Holders
      BY <1>2, <1>3, <1>4, <2>1 DEF Holders
    <2> QED BY <1>0, <2>2 DEF IInv, PoolOK
  <1>9. \A g \in Handlers : Fits(g)'
    <2> TAKE g \in Handlers
    <2>1. Fits(g)
      BY DEF IInv
    <2>2. CASE g # h
      <3>1. Fresh(g)'
        BY <1>0, <1>3, <2>1, <2>2 DEF Fits, Fresh, SettingOf
      <3>2. RowFits(g)' /\ UserFits(g)'
        BY <1>0, <1>3, <2>1, <2>2
           DEF Fits, RowFits, UserFits, Owned, Young
      <3>3. Resilient(g)'
        BY <1>0, <1>3, <2>1, <2>2
           DEF Fits, Resilient, Owing, Kept, Excused, TooWide, Escaped
      <3> QED BY <3>1, <3>2, <3>3 DEF Fits
    <2>3. CASE g = h
      <3>1. RowFits(h) /\ UserFits(h) /\ row[h] = NoRow
        BY <1>0, <2>1, <2>3 DEF Fits, RowFits
      <3>2. Fresh(h)' /\ Resilient(h)'
        BY <1>2, <1>4 DEF Fresh, Resilient, Owing, Failures, Excused
      <3>3. RowFits(h)' /\ UserFits(h)'
        BY <1>0, <1>2, <1>4, <3>1 DEF RowFits, RowReplies, UserFits, Young
      <3> QED BY <2>3, <3>2, <3>3 DEF Fits
    <2> QED BY <2>2, <2>3
  <1>10. OneChatEach' /\ SettingsOwned'
    BY <1>0 DEF IInv, OneChatEach, SettingsOwned, Owned
  <1> QED BY <1>5, <1>6, <1>7, <1>8, <1>9, <1>10 DEF IInv

\* The inductive invariant holds at the start.
LEMMA InitInv ==
    ASSUME Init
    PROVE  IInv
  <1>1. \A h \in Handlers : handler[h] = Idle
    BY DEF Init
  <1>2. /\ Idle.pc = "idle" /\ ~Idle.holds /\ Idle.user = NoUser
        /\ Idle.last = "none" /\ Idle.req = NoRequest
    BY DEF Idle
  <1>3. Shape(Idle) /\ Idle \in HandlerType
    BY GoneShape DEF Shape
  <1>4. NoProfile \in PlanType /\ NotSet \in Int
    BY DEF NoProfile, PlanType, NotSet
  <1>5. user \in [Chats -> UserIds \cup {NoUser}]
    BY DEF Init, UserIds
  <1>6. TypeOK
    BY <1>3, <1>4, <1>5 DEF Init, TypeOK
  <1>7. PoolOK
    <2>1. Holders = {}
      BY <1>1, <1>2 DEF Holders
    <2>2. lent \in Nat /\ lent <= Connections
      BY ConstantFacts DEF Init
    <2> QED BY <2>1, <2>2, FS_EmptySet DEF PoolOK
  <1>8. Company /\ OneChatEach /\ SettingsOwned
    BY <1>1, <1>2 DEF Init, Company, Running, OneChatEach, SettingsOwned
  <1>9. ASSUME NEW h \in Handlers
        PROVE  Shape(handler[h]) /\ Fits(h)
    <2>1. handler[h] = Idle /\ row[h] = NoRow
      BY <1>1 DEF Init
    <2>2. Fresh(h) /\ RowFits(h)
      BY <1>2, <2>1 DEF Fresh, RowFits
    <2>3. Resilient(h)
      BY <1>2, <2>1 DEF Resilient, Owing, NoRequest
    <2>4. UserFits(h)
      <3>1. \A c \in Chats : user[c] # h
        BY FrontDeskAssumption DEF Init
      <3> QED BY <1>2, <2>1, <3>1 DEF UserFits
    <2> QED BY <1>3, <2>1, <2>2, <2>3, <2>4 DEF Fits
  <1> QED BY <1>6, <1>7, <1>8, <1>9 DEF IInv

\* Every step keeps the inductive invariant.
LEMMA NextInv ==
    ASSUME IInv, [Next]_vars
    PROVE  IInv'
  <1>1. CASE Next
    <2>1. PICK h \in Handlers : \/ \E r \in Requests : Arrive(h, r)
                                \/ Step(h) \/ HandlerDies(h)
      BY <1>1 DEF Next
    <2>2. CASE \E r \in Requests : Arrive(h, r)
      BY <2>2, ArriveStep
    <2>3. CASE Step(h)
      <3>1. CASE FindUser(h)
        BY <3>1, FindUserStep
      <3>2. CASE CreateUser(h)
        BY <3>2, CreateUserStep
      <3>3. CASE Reply(h)
        BY <3>3, GoneInv DEF Reply
      <3>4. CASE \E a \in Attempts : CallModel(h, a)
        BY <3>4, CallModelStep
      <3>5. CASE Store(h)
        BY <3>5, StoreStep
      <3>6. CASE ReadSetting(h)
        BY <3>6, ReadSettingStep
      <3>7. CASE WriteProfile(h)
        BY <3>7, WriteProfileStep
      <3>8. CASE WriteBudget(h)
        BY <3>8, WriteBudgetStep
      <3>9. CASE Query(h)
        BY <3>9, QueryStep
      <3>10. CASE Perceive(h) \/ Act(h) \/ SendQuestion(h) \/ RecordQuestion(h)
        BY <3>10, PassSteps
      <3> QED BY <2>3, <3>1, <3>2, <3>3, <3>4, <3>5, <3>6, <3>7, <3>8, <3>9,
                 <3>10 DEF Step
    <2>4. CASE HandlerDies(h)
      BY <2>4, GoneInv DEF HandlerDies
    <2> QED BY <2>1, <2>2, <2>3, <2>4
  <1>2. CASE UNCHANGED vars
    <2>1. \A h \in Handlers : Fits(h)'
      BY <1>2, SameFits DEF vars, IInv
    <2>2. TypeOK' /\ Company' /\ PoolOK'
      BY <1>2 DEF vars, IInv, TypeOK, Company, Running, PoolOK, Holders
    <2>3. OneChatEach' /\ SettingsOwned'
      BY <1>2 DEF vars, IInv, OneChatEach, SettingsOwned, Owned
    <2>4. \A h \in Handlers : Shape(handler'[h])
      BY <1>2 DEF vars, IInv
    <2> QED BY <2>1, <2>2, <2>3, <2>4 DEF IInv
  <1> QED BY <1>1, <1>2

\* The inductive invariant of FrontDesk.
LEMMA Invariance == Spec => []IInv
  BY InitInv, NextInv, PTL DEF Spec

-----------------------------------------------------------------------------
(***************************************************************************)
(* The theorems.                                                           *)
(***************************************************************************)
\* Tables and handlers are well formed, whatever is asked and answered: in
\* particular a row has an amount, an owner and a date that exist.
THEOREM TypeCorrect == Spec => []TypeOK
  <1>1. IInv => TypeOK
    BY DEF IInv
  <1> QED BY <1>1, Invariance, PTL

\* Whoever loses the race of _get_or_create_user, no row, no salary profile
\* and no budget belongs to a user no chat leads to.
THEOREM OwnersExist == Spec => []NothingIsOrphaned
  <1>1. IInv => NothingIsOrphaned
    BY DEF IInv, NothingIsOrphaned, SettingsOwned, Fits, RowFits, Owned
  <1> QED BY <1>1, Invariance, PTL

\* The pool of db.py is never overdrawn, and whoever holds a connection is
\* inside a session: none is kept by a handler that has ended or died, or
\* that is talking to Telegram.
THEOREM ConnectionsAreGivenBack == Spec => []PoolBalanced
  <1>1. IInv => PoolBalanced
    BY DEF IInv, PoolOK, PoolBalanced, InUse, Holders, Shape
  <1> QED BY <1>1, Invariance, PTL

\* A confirmed transaction, income, expense or setting is in the tables, and
\* nothing is there that was not confirmed.
THEOREM RepliesAreTrue == Spec => []ReplyTellsTheTable
  <1>1. IInv => ReplyTellsTheTable
    BY DEF IInv, ReplyTellsTheTable, Fits, RowFits, Fresh
  <1> QED BY <1>1, Invariance, PTL

\* With any provider, a handler that has its chat to itself ends in an
\* exception only for a number that cannot be compared or stored, or for a
\* response its provider lets through.
THEOREM AloneIsSafe == Spec => []AloneFailsOnInput
  <1>1. IInv => AloneFailsOnInput
    BY DEF IInv, AloneFailsOnInput, Fits, Resilient, Excused
  <1> QED BY <1>1, Invariance, PTL

\* With a local model that cannot be reached, or sends what does not fit the
\* schema, an SMS whose amount the expressions found is stored.
THEOREM AmountIsKept ==
    ASSUME Provider = "ollama"
    PROVE  Spec => []BadTextKeepsAmount
  <1>1. IInv => BadTextKeepsAmount
    BY DEF IInv, BadTextKeepsAmount, Failed, Fits, Resilient, Owing, Kept,
           Failures
  <1> QED BY <1>1, Invariance, PTL
=============================================================================
