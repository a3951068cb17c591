------------------------------- MODULE MCAudit -------------------------------
(***************************************************************************)
(* Small instances of MonthlyAudit for TLC.  The numbers of rows are small, *)
(* so the thresholds are too: any row at the median is an outlier, and a   *)
(* shortlist holds one.  The one income may be overspent beyond any rate   *)
(* that its column holds.                                                  *)
(***************************************************************************)
EXTENDS MonthlyAudit

Labels == {"Food", "Savings"}

Buy(u, c, amount, m) == [owner |-> u, category |-> c, amount |-> amount, month |-> m]
Paid(u, amount, m)   == [owner |-> u, amount |-> amount, month |-> m]

Audit_Purchases == {Buy("u1", "Food", 3200, 1), Buy("u1", "Food", 400, 2),
                    Buy("u1", "Savings", 30000, 1),
                    Buy("u2", "Uncategorized", 400, 1)}
Audit_Deposits  == {Paid("u1", 3, 1)}
Audit_Users     == {"u1", "u2"}

Symmetry == Permutations(Audits) \cup Permutations(Entries)

Rate_Purchases == {Buy("u1", "Food", 1200, 1)}
Rate_Deposits  == {Paid("u1", 1, 1)}
Rate_Users     == {"u1"}
=============================================================================
