--------------------------- MODULE DecisionGuards ---------------------------
(***************************************************************************)
(* The pure part of app/agent.py: which ledger rows are offered to the     *)
(* model as candidates, which one counts as a duplicate charge, and the    *)
(* chain of guards a model decision goes through before it is acted on.    *)
(*                                                                         *)
(* Amounts are whole paise (Numeric(10,2)), dates are day numbers.  A text *)
(* (merchant, category) is an abstract value; what the code's string       *)
(* folding does to it is the value of a constant function.                 *)
(***************************************************************************)
EXTENDS Integers, FiniteSets

CONSTANTS
    Categories,      \* the labels of app/categories.py CATEGORIES
    Suggestions,     \* category texts a model or a user may write
    FoldKey,         \* text -> strip().lower().removesuffix("s"), None as ""
    Merchants,       \* merchant texts as stored on a row
    StoredFold,      \* merchant -> lower(merchant), the database side
    LookupFold,      \* merchant -> merchant.strip().lower(), the Python side
    NormalKey,       \* merchant -> normalize_merchant(merchant)
    Keys,            \* the keys normalize_merchant can produce
    TolerancePct,    \* candidate_amount_tolerance_pct, in percent
    CandidateDays,   \* candidate_date_window_days
    DuplicateDays,   \* duplicate_charge_window_days
    MaxCandidates    \* _MAX_CANDIDATES

NoCategory == "no category"      \* None
NoMerchant == "no merchant"      \* None, or an empty string
NoKey      == "no key"           \* the key of a blank merchant
NoExpense  == <<"none">>         \* matched_expense_id = None

ASSUME GuardAssumption ==
    /\ NoCategory \notin Categories
    /\ NoMerchant \notin Merchants
    /\ NoKey \notin Keys
    /\ Categories \subseteq Suggestions
    \* two labels never fold to the same key
    /\ \A c, d \in Categories : FoldKey[c] = FoldKey[d] => c = d
    /\ FoldKey[NoCategory] \notin {FoldKey[c] : c \in Categories}
    /\ \A m \in Merchants : NormalKey[m] \in Keys \cup {NoKey}
    /\ MaxCandidates \in Nat

Actions == {"auto_link", "auto_log", "ask_user"}

(***************************************************************************)
(* Rows.  A message is what ingestion extracts from an SMS or a receipt    *)
(* photo; hint is the caption's category, and only a photo has one.        *)
(***************************************************************************)
Message == [source   : {"sms", "photo"},
            merchant : Merchants \cup {NoMerchant},
            amount   : Int,
            date     : Int,
            hint     : Categories \cup {NoCategory}]

Distance(i, j) == IF i < j THEN j - i ELSE i - j

\* The label a text stands for, or NoCategory.
normalize_category(raw) ==
    IF \E c \in Categories : FoldKey[c] = FoldKey[raw]
    THEN CHOOSE c \in Categories : FoldKey[c] = FoldKey[raw]
    ELSE NoCategory

\* The memory key of a merchant, NoKey when there is nothing to key on.
MerchantKey(merchant) ==
    IF merchant = NoMerchant THEN NoKey ELSE NormalKey[merchant]

(***************************************************************************)
(* The candidate window and the shortlist of the closest MaxCandidates.    *)
(***************************************************************************)
InWindow(e, m) ==
    /\ 100 * Distance(e.amount, m.amount) <= TolerancePct * m.amount
    /\ Distance(e.date, m.date) <= CandidateDays

Closer(e, f, m) ==
    LET de == Distance(e.amount, m.amount)
        df == Distance(f.amount, m.amount)
    IN  \/ de < df
        \/ de = df /\ Distance(e.date, m.date) < Distance(f.date, m.date)

\* C is what the stable sort and the [:3] may leave of W, ties in any order.
IsShortlist(C, W, row, m) ==
    /\ C \subseteq W
    /\ Cardinality(C) = IF Cardinality(W) < MaxCandidates
                        THEN Cardinality(W) ELSE MaxCandidates
    /\ \A c \in C, w \in W \ C : ~Closer(row[w], row[c], m)

(***************************************************************************)
(* Is ledger row e the same charge as message m?  The stored merchant is   *)
(* only lower-cased, the message's is also stripped.                       *)
(***************************************************************************)
SameCharge(e, m) ==
    /\ e.merchant # NoMerchant /\ m.merchant # NoMerchant
    /\ StoredFold[e.merchant] = LookupFold[m.merchant]
    /\ e.amount = m.amount
    /\ Distance(e.date, m.date) <= DuplicateDays

(***************************************************************************)
(* A decision is [action, target, category, confident]; confident says     *)
(* whether the confidence reaches confidence_threshold.                    *)
(***************************************************************************)
Downgrade(d) ==
    [action |-> "ask_user", target |-> NoExpense,
     category |-> d.category, confident |-> d.confident]

\* Mutated forms of the guard: each drops one reason to ask.
UnsureNoPhotoRule(d, offered, m) ==
    \/ ~d.confident
    \/ d.action = "auto_link" /\ (d.target = NoExpense \/ d.target \notin offered)
    \/ /\ d.action = "auto_log" /\ m.hint = NoCategory
       /\ normalize_category(d.category) = NoCategory

UnsureAnyLabel(d, offered, m) ==
    \/ ~d.confident
    \/ d.action = "auto_link" /\ (d.target = NoExpense \/ d.target \notin offered)
    \/ d.action = "auto_log" /\ m.hint = NoCategory /\ m.source = "photo"

UnsureAnyTarget(d, offered, m) ==
    \/ ~d.confident
    \/ d.action = "auto_link" /\ d.target = NoExpense
    \/ /\ d.action = "auto_log" /\ m.hint = NoCategory
       /\ m.source = "photo" \/ normalize_category(d.category) = NoCategory

\* The reasons for which _apply_guard does not act on the model's word.
Unsure(d, offered, m) ==
    \/ ~d.confident
    \/ d.action = "auto_link" /\ (d.target = NoExpense \/ d.target \notin offered)
    \/ /\ d.action = "auto_log" /\ m.hint = NoCategory
       /\ m.source = "photo" \/ normalize_category(d.category) = NoCategory

apply_guard(d, offered, m) ==
    IF d.action # "ask_user" /\ Unsure(d, offered, m)
    THEN Downgrade(d) ELSE d

\* Mutated form: only an auto_link is held back.
DuplicateGuardLinksOnly(d, duplicate) ==
    IF d.action = "auto_link" /\ duplicate THEN Downgrade(d) ELSE d

apply_duplicate_guard(d, duplicate) ==
    IF d.action # "ask_user" /\ duplicate THEN Downgrade(d) ELSE d

apply_category_hint(d, m) ==
    IF d.action = "auto_log" /\ m.hint # NoCategory
    THEN [d EXCEPT !.category = m.hint] ELSE d

\* Mutated form: the model's own spelling goes into the ledger.
KeepSpelling(d) == d

normalize_auto_log_category(d) ==
    IF d.action = "auto_log" /\ normalize_category(d.category) # NoCategory
    THEN [d EXCEPT !.category = normalize_category(d.category)] ELSE d

\* The whole chain, in the order reconcile_user applies it.
Guarded(d, offered, m, duplicate) ==
    normalize_auto_log_category(
        apply_category_hint(
            apply_duplicate_guard(
                apply_guard(d, offered, m), duplicate), m))
=============================================================================
