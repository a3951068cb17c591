---------------------------- MODULE Announcement ----------------------------
(***************************************************************************)
(* What the periodic messages promise: a thing worth telling is claimed    *)
(* first and told after that, and never told twice.  A claimed one may     *)
(* never be told, if what claimed it dies.                                 *)
(***************************************************************************)
EXTENDS Naturals

CONSTANT Items

VARIABLES
    claimed,    \* the items with a row in the marker table
    told        \* how often each item was told

Init == /\ claimed = {}
        /\ told = [i \in Items |-> 0]

Claim(i) == /\ i \notin claimed
            /\ claimed' = claimed \cup {i}
            /\ UNCHANGED told

Tell(i) == /\ i \in claimed
           /\ told[i] = 0
           /\ told' = [told EXCEPT ![i] = 1]
           /\ UNCHANGED claimed

Next == \E i \in Items : Claim(i) \/ Tell(i)

Spec == Init /\ [][Next]_<<claimed, told>>
=============================================================================
