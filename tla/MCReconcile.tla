---------------------------- MODULE MCReconcile -----------------------------
(***************************************************************************)
(* Small instances of Reconcile for TLC.  The texts stand for real ones:   *)
(* "foods" is a spelling that folds to the label Food, "Groceries" folds   *)
(* to no label; "cafe " is a merchant stored with a blank around it.       *)
(***************************************************************************)
EXTENDS Reconcile, TLC

OneCategory   == {"Food"}
TwoCategories == {"Food", "Other"}
FewTexts      == {"Food", "Groceries"}
Spellings     == {"Food", "Other", "foods"}

Fold == [x \in {"Food", "Other", "foods", "Groceries", NoCategory} |->
            CASE x \in {"Food", "foods"} -> "food"
              [] x = "Other"             -> "other"
              [] x = "Groceries"         -> "grocerie"
              [] x = NoCategory          -> ""]

Shops     == {"cafe"}
ShopsPlus == {"cafe", "cafe ", " "}

Stored  == [m \in ShopsPlus |-> m]
Lookup  == [m \in ShopsPlus |-> IF m = " " THEN "" ELSE "cafe"]
Normal  == [m \in ShopsPlus |-> IF m = " " THEN NoKey ELSE "cafe"]
ShopKey == {"cafe"}

Sms(shop, amount, date) ==
    [source |-> "sms", merchant |-> shop, amount |-> amount, date |-> date,
     hint |-> NoCategory]

Photo(shop, amount, date, caption) ==
    [Sms(shop, amount, date) EXCEPT !.source = "photo", !.hint = caption]

Report(amount, date, c) == [amount |-> amount, date |-> date, category |-> c]

\* One charge that comes again and again.
SameSms    == {Sms("cafe", 100, 1)}
SmsAndBare == {Sms("cafe", 100, 1), Sms(NoMerchant, 100, 1)}
NearReport == {Report(105, 2, "Food")}

\* Charges and reports on both sides of every window.
Varied == {Sms("cafe", 100, 1), Sms("cafe ", 100, 4),
           Photo("cafe", 100, 1, NoCategory), Photo(" ", 99, 1, NoCategory),
           Photo("cafe", 100, 3, "Other")}
VariedReports == {Report(105, 3, "Food")}

Symmetry == Permutations(Passes) \cup Permutations(Taps)
=============================================================================
