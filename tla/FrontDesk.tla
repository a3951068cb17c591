------------------------------ MODULE FrontDesk ------------------------------
(***************************************************************************)
(* What stands between the chats and the tables: the handlers of           *)
(* app/telegram/handlers with ingestion (app/ingestion.py, app/income.py), *)
(* users, salary profiles and budgets, the sessions they open on the pool  *)
(* of app/db.py and the model calls they make while they hold one.         *)
(*                                                                         *)
(* Every update is handled by a coroutine of its own; an action is what    *)
(* runs from one await to the next.  A session checks a connection out at  *)
(* its first statement and gives it back at its commit or when it is       *)
(* closed, so a handler whose user is known waits for the model with a     *)
(* connection in its hands, and one that just created its user without.    *)
(*                                                                         *)
(* A reconciliation pass is reduced to one transaction and its use of      *)
(* sessions: what it decides is in module Reconcile.                       *)
(***************************************************************************)
EXTENDS SmsParser, Providers, FiniteSets

CONSTANTS
    Chats,
    Handlers,       \* bound: the updates that arrive
    Requests,       \* what an update may ask
    Extractions,    \* what parse_transaction may answer
    Receipts,       \* what extract_receipt may answer
    Labels,         \* app/categories.py CATEGORIES
    Provider,       \* llm_provider
    Connections,    \* pool_size + max_overflow
    Widest          \* the largest amount a Numeric(10, 2) column holds

NoLabel == "no label"
NoUser  == "nobody"
NotSet  == -1

\* Decimal("NaN"): it parses, and comparing it raises InvalidOperation.
NotANumber == -2

PlanType    == [expected : Int, target : Int, payday : Int]
ReceiptType == [readable : BOOLEAN, sure : BOOLEAN,
                amount : Nat \cup {NoAmount},
                merchant : Merchants \cup {NoMerchant},
                date : Dates \cup {NoDate}]

\* The caption of a photo stands for the label it normalises to.
RequestType ==
    [chat : Chats, kind : {"sms"}, text : TextType]
      \cup [chat : Chats, kind : {"photo"}, caption : Labels \cup {NoLabel}]
      \cup [chat : Chats, kind : {"salary"}, plan : PlanType]
      \cup [chat : Chats, kind : {"setbudget"}, label : Labels, limit : Int]
      \cup [chat : Chats, kind : {"log"}, label : Labels, amount : Int]
      \cup [chat : Chats, kind : {"ask", "show", "reconcile"}]

ASSUME FrontDeskAssumption ==
    /\ Requests \subseteq RequestType
    /\ Extractions \subseteq ExtractionType
    /\ Receipts \subseteq ReceiptType
    /\ NoLabel \notin Labels
    /\ NoUser \notin Handlers \cup Chats
    /\ Handlers \cap Chats = {}
    /\ Provider \in Providers
    /\ Connections \in Nat \ {0}
    /\ Widest \in Nat

VARIABLES
    lent,       \* connections that handlers of other chats keep
    user,       \* users: from the chat to the id of its row
    row,        \* the transaction, income or expense a handler inserted
    profile,    \* salary_profiles
    budget,     \* budgets
    handler     \* the local state of each handler

vars == <<lent, user, row, profile, budget, handler>>

\* A user's id is the handler that created the row, or the chat if it was
\* there from the start.
UserIds   == Handlers \cup Chats
NoProfile == [expected |-> NotSet, target |-> NotSet, payday |-> NotSet]
NoRow     == [table |-> "none"]
NoRequest == [kind |-> "none"]
Unseen    == [kind |-> "none"]

Idle == [pc |-> "idle", req |-> NoRequest, user |-> NoUser, holds |-> FALSE,
         attempt |-> 0, last |-> "none", row |-> NoRow, seen |-> Unseen,
         reply |-> "none", alone |-> TRUE]

\* A handler that is through; what it knew is gone.
Gone == [Idle EXCEPT !.pc = "done"]

Running(h) == handler[h].pc \notin {"idle", "done", "dead"}

-----------------------------------------------------------------------------
(***************************************************************************)
(* Sessions and the pool.                                                  *)
(***************************************************************************)
InUse == lent + Cardinality({h \in Handlers : handler[h].holds})

\* The next statement of h need not wait for a connection.
Connected(h) == handler[h].holds \/ InUse < Connections

\* Tables unchanged; the local state of h becomes l.
Local(h, l) ==
    /\ handler' = [handler EXCEPT ![h] = l]
    /\ UNCHANGED <<lent, user, row, profile, budget>>

\* The session of l is closed and its answer goes to the chat.
Answered(l, reply) ==
    [l EXCEPT !.pc = "reply", !.holds = FALSE, !.reply = reply]

\* An exception of its own making leaves the handler, which is kept for the
\* record; async with closes its session.
Dead(l) == [l EXCEPT !.pc = "dead", !.holds = FALSE]

-----------------------------------------------------------------------------
(***************************************************************************)
(* What a handler does before it opens a session, and once it knows its    *)
(* user.                                                                   *)
(***************************************************************************)
\* handle_salary_command; a part that is left out is not set.
ValidPlan(p) ==
    /\ p.expected > 0
    /\ p.target = NotSet \/ p.target \in 0 .. p.expected
    /\ p.payday = NotSet \/ p.payday \in 1 .. 28

Accepted(r) ==
    /\ r.kind = "salary" => ValidPlan(r.plan)
    /\ r.kind = "setbudget" => r.limit > 0
    /\ r.kind = "log" => r.amount > 0

\* Where the commands compare before they catch: the comparison stands
\* behind the try that reads the number.
Incomparable(r) ==
    CASE r.kind = "log"       -> r.amount = NotANumber
      [] r.kind = "setbudget" -> r.limit = NotANumber
      [] r.kind = "salary"    ->
            \/ r.plan.expected = NotANumber
            \/ r.plan.expected > 0 /\ r.plan.target = NotANumber
      [] OTHER -> FALSE

\* /ask calls the model first; what is refused never opens a session.
Begin(l) ==
    IF Incomparable(l.req) THEN Dead(l)
    ELSE IF ~Accepted(l.req) THEN Answered(l, "refused")
    ELSE [l EXCEPT !.pc = IF l.req.kind = "ask" THEN "model" ELSE "user"]

\* Money in is written to incomes at once, money out waits for a pass.
ParsedRow(u, x) ==
    [table |-> IF x.direction = "credit" THEN "incomes" ELSE "transactions",
     owner |-> u, amount |-> x.amount, merchant |-> x.merchant,
     date |-> x.date, label |-> NoLabel]

ReceiptRow(u, x, caption) ==
    [table |-> "transactions", owner |-> u, amount |-> x.amount,
     merchant |-> x.merchant,
     date |-> IF x.date = NoDate THEN Today ELSE x.date, label |-> caption]

ReportedRow(u, r) ==
    [table |-> "expenses", owner |-> u, amount |-> r.amount,
     merchant |-> NoMerchant, date |-> Today, label |-> r.label]

\* The user is known: on to what was asked.
Enter(l) ==
    LET r == l.req
    IN  CASE r.kind = "sms" ->
               IF Confident(r.text)
               THEN [l EXCEPT !.pc = "store",
                              !.row = ParsedRow(l.user, ByRegex(r.text))]
               ELSE [l EXCEPT !.pc = "model"]
          [] r.kind = "photo"               -> [l EXCEPT !.pc = "model"]
          [] r.kind = "log"                 ->
               [l EXCEPT !.pc = "store", !.row = ReportedRow(l.user, r)]
          [] r.kind \in {"salary", "setbudget"} -> [l EXCEPT !.pc = "read"]
          [] r.kind \in {"ask", "show"}     -> [l EXCEPT !.pc = "query"]
          [] r.kind = "reconcile"           -> [l EXCEPT !.pc = "perceive"]

-----------------------------------------------------------------------------
(***************************************************************************)
(* The steps every handler shares.                                         *)
(***************************************************************************)
\* Some chats have a user already, and other chats leave some connections.
Init ==
    /\ lent \in 0 .. Connections - 1
    /\ user \in [Chats -> Chats \cup {NoUser}]
    /\ \A c \in Chats : user[c] \in {NoUser, c}
    /\ row = [h \in Handlers |-> NoRow]
    /\ profile = [u \in UserIds |-> NoProfile]
    /\ budget = [u \in UserIds |-> [c \in Labels |-> NotSet]]
    /\ handler = [h \in Handlers |-> Idle]

SameChat(g, h, r) == g # h /\ Running(g) /\ handler[g].req.chat = r.chat

\* An update arrives.  alone remembers whether another of the chat is, or
\* comes, under way: no variable of the code.
Arrive(h, r) ==
    LET beside == {g \in Handlers : SameChat(g, h, r)}
    IN  /\ handler[h].pc = "idle"
        /\ handler' = [g \in Handlers |->
              IF g = h
              THEN Begin([Idle EXCEPT !.req = r, !.alone = beside = {}])
              ELSE IF g \in beside THEN [handler[g] EXCEPT !.alone = FALSE]
              ELSE handler[g]]
        /\ UNCHANGED <<lent, user, row, profile, budget>>

\* _get_or_create_user: the lookup.
FindUser(h) ==
    LET l == handler[h]
        u == user[l.req.chat]
    IN  /\ l.pc = "user" /\ Connected(h)
        /\ Local(h, IF u = NoUser
                    THEN [l EXCEPT !.pc = "create", !.holds = TRUE]
                    ELSE Enter([l EXCEPT !.user = u, !.holds = TRUE]))

\* Mutated form: the chat id is not unique.
CreateUserAnyway(h) ==
    LET l == handler[h]
    IN  /\ l.pc = "create"
        /\ user' = [user EXCEPT ![l.req.chat] = h]
        /\ handler' = [handler EXCEPT
              ![h] = Enter([l EXCEPT !.user = h, !.holds = FALSE])]
        /\ UNCHANGED <<lent, row, profile, budget>>

\* The insert is committed; the unique chat id refuses a second one.
CreateUser(h) ==
    LET l == handler[h]
    IN  /\ l.pc = "create"
        /\ IF user[l.req.chat] # NoUser
           THEN Local(h, Dead(l))
           ELSE /\ user' = [user EXCEPT ![l.req.chat] = h]
                /\ handler' = [handler EXCEPT
                      ![h] = Enter([l EXCEPT !.user = h, !.holds = FALSE])]
                /\ UNCHANGED <<lent, row, profile, budget>>

\* The last thing a handler does; its session is closed.
Reply(h) ==
    /\ handler[h].pc = "reply"
    /\ Local(h, Gone)

-----------------------------------------------------------------------------
(***************************************************************************)
(* The calls of the model.                                                 *)
(***************************************************************************)
\* Mutated form: an SMS the model failed on is not understood.
GiveUpOnSms(l) ==
    LET r == l.req
    IN  CASE r.kind = "sms"       -> Answered(l, "parse_error")
          [] r.kind = "photo"     -> Answered(l, "llm_error")
          [] r.kind = "ask"       -> Answered(l, "not_understood")
          [] r.kind = "reconcile" -> Answered(l, "summary")

\* The provider gives up.  A reconciliation pass counts the transaction as
\* failed; an SMS falls back on what the expressions found.
GiveUp(l) ==
    LET r == l.req
    IN  CASE r.kind = "sms" ->
               IF r.text.amount # NoAmount
               THEN [l EXCEPT !.pc = "store",
                              !.row = ParsedRow(l.user, ByRegex(r.text))]
               ELSE Answered(l, "parse_error")
          [] r.kind = "photo"     -> Answered(l, "llm_error")
          [] r.kind = "ask"       -> Answered(l, "not_understood")
          [] r.kind = "reconcile" -> Answered(l, "summary")

AnswerSms(h, l) ==
    \E x \in Extractions :
        Local(h, IF IsTransaction(x)
                 THEN [l EXCEPT !.pc = "store",
                                !.row = ParsedRow(l.user, ByModel(x))]
                 ELSE Answered(l, "parse_error"))

\* A receipt is trusted when it is readable, sure and has a total.
AnswerPhoto(h, l) ==
    \E x \in Receipts :
        Local(h, IF x.readable /\ x.sure /\ x.amount # NoAmount
                 THEN [l EXCEPT !.pc = "store",
                                !.row = ReceiptRow(l.user, x, l.req.caption)]
                 ELSE Answered(l, "low_confidence"))

\* Is it a question about money at all?
AnswerAsk(h, l) ==
    \/ Local(h, [l EXCEPT !.pc = "user"])
    \/ Local(h, Answered(l, "not_financial"))

AnswerPass(h, l) == Local(h, [l EXCEPT !.pc = "act"])

CallModel(h, a) ==
    LET l == [handler[h] EXCEPT !.last = a, !.attempt = @ + 1]
        o == Outcome(Provider, l.attempt, a)
    IN  /\ l.pc = "model"
        /\ CASE o = "again"            -> Local(h, l)
             [] o = "LLMDecisionError" -> Local(h, GiveUp(l))
             [] o = "escapes"          -> Local(h, Dead(l))
             [] o = "answer" ->
                  \/ l.req.kind = "sms" /\ AnswerSms(h, l)
                  \/ l.req.kind = "photo" /\ AnswerPhoto(h, l)
                  \/ l.req.kind = "ask" /\ AnswerAsk(h, l)
                  \/ l.req.kind = "reconcile" /\ AnswerPass(h, l)

-----------------------------------------------------------------------------
(***************************************************************************)
(* Inserts, upserts and queries.                                           *)
(***************************************************************************)
\* What the database refuses at the commit: nobody asks whether an amount
\* fits its column.
TooWide(l) ==
    \/ l.row # NoRow /\ l.row.amount > Widest
    \/ l.req.kind = "salary" /\ l.req.plan.expected > Widest
    \/ l.req.kind = "setbudget" /\ l.req.limit > Widest

StoredReply == [transactions |-> "pending", incomes |-> "income",
                expenses |-> "logged"]

\* ingest_sms_transaction, ingest_photo_transaction, record_income and
\* log_manual_expense: one row, one commit, unless the amount is too wide.
Store(h) ==
    LET l == handler[h]
    IN  /\ l.pc = "store" /\ Connected(h)
        /\ IF TooWide(l)
           THEN Local(h, Dead(l))
           ELSE /\ row' = [row EXCEPT ![h] = l.row]
                /\ handler' = [handler EXCEPT
                      ![h] = Answered(l, StoredReply[l.row.table])]
                /\ UNCHANGED <<lent, user, profile, budget>>

\* upsert_salary_profile and upsert_budget: the select.
ReadSetting(h) ==
    LET l == handler[h]
        r == l.req
    IN  /\ l.pc = "read" /\ Connected(h)
        /\ Local(h, [l EXCEPT
              !.pc = "write", !.holds = TRUE,
              !.seen = IF r.kind = "salary" THEN profile[l.user]
                       ELSE [limit |-> budget[l.user][r.label]]])

\* Mutated form: a value that is left out keeps the old one.
ChangedIfSet(seen, now, wanted) ==
    [f \in DOMAIN wanted |->
        IF wanted[f] \notin {seen[f], NotSet} THEN wanted[f] ELSE now[f]]

(***************************************************************************)
(* The commit of an upsert.  A row that was not there is inserted, unless  *)
(* another upsert was first: the unique index refuses it.  One that was    *)
(* there is updated in the columns whose value differs from the one that   *)
(* was read, and only in those.                                            *)
(***************************************************************************)
Changed(seen, now, wanted) ==
    [f \in DOMAIN wanted |-> IF wanted[f] # seen[f] THEN wanted[f] ELSE now[f]]

WriteProfile(h) ==
    LET l   == handler[h]
        now == profile[l.user]
    IN  /\ l.pc = "write" /\ l.req.kind = "salary"
        /\ IF TooWide(l) \/ (l.seen = NoProfile /\ now # NoProfile)
           THEN Local(h, Dead(l))
           ELSE /\ profile' = [profile EXCEPT
                      ![l.user] = Changed(l.seen, now, l.req.plan)]
                /\ handler' = [handler EXCEPT ![h] = Answered(l, "saved")]
                /\ UNCHANGED <<lent, user, row, budget>>

WriteBudget(h) ==
    LET l   == handler[h]
        now == [limit |-> budget[l.user][l.req.label]]
        new == Changed(l.seen, now, [limit |-> l.req.limit])
    IN  /\ l.pc = "write" /\ l.req.kind = "setbudget"
        /\ IF TooWide(l) \/ (l.seen.limit = NotSet /\ now.limit # NotSet)
           THEN Local(h, Dead(l))
           ELSE /\ budget' = [budget EXCEPT ![l.user][l.req.label] = new.limit]
                /\ handler' = [handler EXCEPT ![h] = Answered(l, "saved")]
                /\ UNCHANGED <<lent, user, row, profile>>

\* run_query, get_spend_summary, get_income_summary, get_budget_statuses
\* and get_salary_profile write nothing.
Query(h) ==
    /\ handler[h].pc = "query" /\ Connected(h)
    /\ Local(h, Answered(handler[h], "answer"))

-----------------------------------------------------------------------------
(***************************************************************************)
(* A reconciliation pass over one transaction, as a user of sessions.      *)
(***************************************************************************)
\* The reads that open the transaction; there may be nothing to do, and a
\* merchant that is remembered needs no model.
Perceive(h) ==
    LET l == [handler[h] EXCEPT !.holds = TRUE]
    IN  /\ handler[h].pc = "perceive" /\ Connected(h)
        /\ \/ Local(h, Answered(l, "summary"))
           \/ Local(h, [l EXCEPT !.pc = "act"])
           \/ Local(h, [l EXCEPT !.pc = "model"])

\* Mutated form: the question is sent from inside the first session.
ActInside(h) ==
    LET l == handler[h]
    IN  /\ l.pc = "act"
        /\ \/ Local(h, Answered(l, "summary"))
           \/ Local(h, [l EXCEPT !.pc = "send"])

\* _act commits; the session is closed before a question is sent.
Act(h) ==
    LET l == handler[h]
    IN  /\ l.pc = "act"
        /\ \/ Local(h, Answered(l, "summary"))
           \/ Local(h, [l EXCEPT !.pc = "send", !.holds = FALSE])

\* send_ask_user_message: the message, then a session of its own that
\* records the message id.
SendQuestion(h) ==
    /\ handler[h].pc = "send"
    /\ Local(h, [handler[h] EXCEPT !.pc = "record"])

RecordQuestion(h) ==
    /\ handler[h].pc = "record" /\ InUse < Connections
    /\ Local(h, Answered(handler[h], "summary"))

-----------------------------------------------------------------------------
\* The process ends, the pool has had no connection for 30 seconds, the
\* database or Telegram fails: what is committed stays.
HandlerDies(h) ==
    /\ Running(h)
    /\ Local(h, Gone)

Step(h) ==
    \/ FindUser(h) \/ CreateUser(h) \/ Reply(h)
    \/ \E a \in Attempts : CallModel(h, a)
    \/ Store(h) \/ ReadSetting(h) \/ WriteProfile(h) \/ WriteBudget(h)
    \/ Query(h) \/ Perceive(h) \/ Act(h) \/ SendQuestion(h)
    \/ RecordQuestion(h)

Next ==
    \E h \in Handlers : \/ \E r \in Requests : Arrive(h, r)
                        \/ Step(h) \/ HandlerDies(h)

Spec == Init /\ [][Next]_vars

\* The event loop runs every ready coroutine; the services answer or time
\* out.  Nothing makes an update arrive, or a handler die.
FairSpec == Spec /\ \A h \in Handlers : WF_vars(Step(h))

-----------------------------------------------------------------------------
(***************************************************************************)
(* Properties.                                                             *)
(***************************************************************************)
RowType == [table : {"transactions", "incomes", "expenses"}, owner : UserIds,
            amount : Nat, merchant : Merchants \cup {NoMerchant},
            date : Dates, label : Labels \cup {NoLabel}]

Places  == {"idle", "user", "create", "model", "store", "read", "write",
            "query", "perceive", "act", "send", "record", "reply", "done",
            "dead"}
Answers == {"refused", "parse_error", "llm_error", "low_confidence",
            "not_understood", "not_financial", "pending", "income", "logged",
            "saved", "answer", "summary"}

HandlerType == [pc      : Places,
                req     : RequestType \cup {NoRequest},
                user    : UserIds \cup {NoUser},
                holds   : BOOLEAN,
                attempt : Nat,
                last    : Attempts \cup {"none"},
                row     : RowType \cup {NoRow},
                seen    : PlanType \cup [limit : Int] \cup {Unseen},
                reply   : Answers \cup {"none"},
                alone   : BOOLEAN]

TypeOK ==
    /\ lent \in 0 .. Connections - 1
    /\ user \in [Chats -> UserIds \cup {NoUser}]
    /\ row \in [Handlers -> RowType \cup {NoRow}]
    /\ profile \in [UserIds -> PlanType]
    /\ budget \in [UserIds -> [Labels -> Int]]
    /\ handler \in [Handlers -> HandlerType]

\* Two first messages of a chat race in _get_or_create_user: whoever loses,
\* nothing is left with a user no chat leads to.
NothingIsOrphaned ==
    /\ \A h \in Handlers :
          row[h] # NoRow => \E c \in Chats : user[c] = row[h].owner
    /\ \A u \in UserIds :
          profile[u] # NoProfile \/ (\E c \in Labels : budget[u][c] # NotSet)
             => \E c \in Chats : user[c] = u

\* The pool is never overdrawn, and no handler that has ended, or is talking
\* to Telegram, keeps a connection: not after an exception either.
InSession == {"create", "model", "store", "read", "write", "query",
              "perceive", "act"}

PoolBalanced ==
    /\ InUse <= Connections
    /\ \A h \in Handlers : handler[h].holds => handler[h].pc \in InSession

\* What the chat is told is in the tables: a row was inserted exactly when
\* one is confirmed, and a setting that is confirmed is the one asked for,
\* if no other update of the chat was handled meanwhile.
RowReplies == {"pending", "income", "logged"}

SettingOf(h) ==
    IF handler[h].req.kind = "salary"
    THEN profile[handler[h].user] = handler[h].req.plan
    ELSE budget[handler[h].user][handler[h].req.label] = handler[h].req.limit

ReplyTellsTheTable ==
    \A h \in Handlers : handler[h].pc = "reply" =>
        /\ handler[h].reply \in RowReplies <=> row[h] # NoRow
        /\ row[h] # NoRow =>
              StoredReply[row[h].table] = handler[h].reply
        /\ handler[h].reply = "saved" /\ handler[h].alone => SettingOf(h)

\* An SMS is through although its last attempt with the model failed in one
\* of these ways; the expressions had found an amount that fits its column.
Failed(h, ways) ==
    /\ handler[h].pc \in {"reply", "dead"}
    /\ handler[h].req.kind = "sms"
    /\ handler[h].req.text.amount \in 0 .. Widest
    /\ handler[h].last \in ways

\* parse_sms: when the expressions found an amount, a model that fails never
\* costs the message.
FailedModelKeepsAmount ==
    \A h \in Handlers : Failed(h, Attempts \ {"valid"}) => row[h] # NoRow

\* parse_sms with OllamaProvider: a local model that cannot be reached, or
\* sends a text that does not fit, never costs the message.  A response
\* without a text does: see OllamaOutcome.
BadTextKeepsAmount ==
    \A h \in Handlers : Failed(h, {"invalid", "failed"}) => row[h] # NoRow

\* The client's errors that providers let through.
Escaped(l) ==
    \/ l.last = "empty" /\ Provider # "gemini"
    \/ l.last = "failed" /\ Provider # "ollama"

\* A handler that has its chat to itself ends in an exception of its own
\* making only for what it was sent: a number that cannot be compared or is
\* too wide, or a response no provider expects.  The unique indexes and the
\* upserts end one only when the chat's other updates are under way.
AloneFailsOnInput ==
    \A h \in Handlers : handler[h].pc = "dead" /\ handler[h].alone =>
        Incomparable(handler[h].req) \/ TooWide(handler[h])
                                     \/ Escaped(handler[h])

\* /salary accepts no target beyond the expected salary; none is stored.
TargetWithinExpected ==
    \A u \in UserIds : profile[u] # NoProfile => ValidPlan(profile[u])

\* Handlers wait for connections, never for each other's: every one that
\* has started ends, whether or not the pool's timeout ever strikes.
HandlersEnd == \A h \in Handlers : Running(h) ~> ~Running(h)
=============================================================================
