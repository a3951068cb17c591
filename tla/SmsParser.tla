------------------------------ MODULE SmsParser ------------------------------
(***************************************************************************)
(* parse_sms of app/parser.py: regular expressions first, one call of the  *)
(* model when they are not sure.                                           *)
(*                                                                         *)
(* A text is the record of what each expression finds in it.  to and from  *)
(* are the first matches of the two merchant patterns that are no false    *)
(* positive ("your", "a/c"); numeric and named are the two ways to write a *)
(* date, NotADate one that is matched and does not exist (31-02-24).       *)
(***************************************************************************)
EXTENDS Integers

CONSTANTS
    Merchants,      \* names the expressions or the model may find
    Dates,          \* day numbers
    Today           \* date.today()

NoAmount   == -1
NoMerchant == "no merchant"
NoDate     == -1
NotADate   == -2

ASSUME ParserAssumption ==
    /\ Dates \subseteq Nat
    /\ Today \in Dates
    /\ NoMerchant \notin Merchants

Directions == {"debit", "credit", "unknown"}

TextType == [amount  : Nat \cup {NoAmount},
             debit   : BOOLEAN,
             credit  : BOOLEAN,
             numeric : Dates \cup {NoDate, NotADate},
             named   : Dates \cup {NoDate, NotADate},
             to      : Merchants \cup {NoMerchant},
             from    : Merchants \cup {NoMerchant}]

\* LLMExtraction: every field may be null.
ExtractionType == [isTransaction : BOOLEAN,
                   amount        : Nat \cup {NoAmount},
                   merchant      : Merchants \cup {NoMerchant},
                   date          : Dates \cup {NoDate},
                   direction     : Directions]

ParsedType == [amount    : Nat,
               merchant  : Merchants \cup {NoMerchant},
               date      : Dates,
               direction : {"debit", "credit"}]

-----------------------------------------------------------------------------
\* _parse_direction
Direction(text) ==
    IF text.debit THEN "debit" ELSE IF text.credit THEN "credit" ELSE "unknown"

\* _parse_date: a date that is matched and does not exist ends the search.
DateOf(text) ==
    LET matched == IF text.numeric # NoDate THEN text.numeric ELSE text.named
    IN  IF matched = NotADate THEN NoDate ELSE matched

FirstOf(one, other) == IF one # NoMerchant THEN one ELSE other

\* _parse_merchant: where the counterparty stands depends on the direction.
MerchantOf(text) ==
    IF Direction(text) = "credit" THEN FirstOf(text.from, text.to)
                                  ELSE FirstOf(text.to, text.from)

\* In quarters: the amount counts twice as much as the date or the merchant.
Confidence(text) ==
    (IF text.amount # NoAmount THEN 2 ELSE 0)
    + (IF DateOf(text) # NoDate THEN 1 ELSE 0)
    + (IF MerchantOf(text) # NoMerchant THEN 1 ELSE 0)

Threshold == 3      \* _LLM_FALLBACK_THRESHOLD

Confident(text) == Confidence(text) >= Threshold

\* Mutated form: without a date there is none.
CompletedAsIs(amount, merchant, date, direction) ==
    [amount    |-> amount,
     merchant  |-> merchant,
     date      |-> date,
     direction |-> IF direction = "unknown" THEN "debit" ELSE direction]

\* Nothing said of the direction is a debit, nothing of the date is today.
Completed(amount, merchant, date, direction) ==
    [amount    |-> amount,
     merchant  |-> merchant,
     date      |-> IF date = NoDate THEN Today ELSE date,
     direction |-> IF direction = "unknown" THEN "debit" ELSE direction]

\* _regex_result
ByRegex(text) ==
    Completed(text.amount, MerchantOf(text), DateOf(text), Direction(text))

\* Is the model's answer a transaction?  Checked in code, not trusted.
IsTransaction(x) == x.isTransaction /\ x.amount # NoAmount

ByModel(x) == Completed(x.amount, x.merchant, x.date, x.direction)
=============================================================================
