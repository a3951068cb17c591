----------------------------- MODULE MCFrontDesk -----------------------------
(***************************************************************************)
(* Small instances of FrontDesk for TLC.                                   *)
(***************************************************************************)
EXTENDS FrontDesk

Two  == {"c1", "c2"}
One  == {"c1"}
Shop == {"cafe", "acme"}
Food == {"Food"}
Days == {1, 2}

Nothing == [amount |-> NoAmount, debit |-> FALSE, credit |-> FALSE,
            numeric |-> NoDate, named |-> NoDate, to |-> NoMerchant,
            from |-> NoMerchant]

\* "paid 100", "50 credited on 31-02-24, 1 Mar, from acme to your cafe": sure
\* of itself or not; a text without an amount.
Unsure == [Nothing EXCEPT !.amount = 100, !.debit = TRUE]
Salary == [Nothing EXCEPT !.amount = 50, !.credit = TRUE, !.numeric = NotADate,
                          !.named = 1, !.to = "cafe", !.from = "acme"]
Chat   == [Nothing EXCEPT !.numeric = 2]

Sms(c, text)         == [chat |-> c, kind |-> "sms", text |-> text]
Photo(c, caption)    == [chat |-> c, kind |-> "photo", caption |-> caption]
Budget(c, limit)     == [chat |-> c, kind |-> "setbudget", label |-> "Food",
                         limit |-> limit]
Log(c, amount)       == [chat |-> c, kind |-> "log", label |-> "Food",
                         amount |-> amount]
Ask(c)               == [chat |-> c, kind |-> "ask"]
Show(c)              == [chat |-> c, kind |-> "show"]
Reconcile(c)         == [chat |-> c, kind |-> "reconcile"]
SetSalary(c, e, t, p) ==
    [chat |-> c, kind |-> "salary",
     plan |-> [expected |-> e, target |-> t, payday |-> p]]

\* Numbers that are refused, that cannot be compared and that are too wide
\* (999 is the widest) are among them.
Desk_Requests ==
    {Sms("c1", Unsure), Sms("c1", Salary), Sms("c1", Chat), Photo("c2", "Food"),
     SetSalary("c1", 50, 10, 1), SetSalary("c1", 20, NotSet, 29),
     SetSalary("c1", 20, NotSet, 2), SetSalary("c1", 20, NotANumber, 2),
     SetSalary("c1", 1000, 10, 1), Budget("c1", 40), Budget("c1", 30),
     Budget("c1", 1000), Log("c2", 0), Log("c2", 9), Log("c2", NotANumber),
     Ask("c2"), Show("c2"), Reconcile("c2")}

Salary_Requests ==
    {SetSalary("c1", 50, 10, 1), SetSalary("c1", 20, 10, 1),
     SetSalary("c1", 50, 40, 1), SetSalary("c1", 20, 30, 1)}

Extracted(is, amount, direction) ==
    [isTransaction |-> is, amount |-> amount, merchant |-> "cafe",
     date |-> NoDate, direction |-> direction]

Desk_Extractions ==
    {Extracted(TRUE, 100, "unknown"), Extracted(TRUE, 1000, "debit"),
     Extracted(FALSE, 100, "debit"),
     Extracted(TRUE, NoAmount, "debit"), Extracted(TRUE, 50, "credit")}

Receipt(readable, sure, amount) ==
    [readable |-> readable, sure |-> sure, amount |-> amount,
     merchant |-> NoMerchant, date |-> 1]

Desk_Receipts ==
    {Receipt(TRUE, TRUE, 100), Receipt(TRUE, FALSE, 100),
     Receipt(FALSE, TRUE, NoAmount)}
=============================================================================
