---------------------------- MODULE SpendLedger -----------------------------
(***************************************************************************)
(* What the ledger promises, without passes, questions or taps: a bank     *)
(* transaction arrives, is settled once, and is then backed by exactly one *)
(* expense, which backs nothing else.                                      *)
(***************************************************************************)
CONSTANTS Txns, Entries

VARIABLES
    status,     \* of each transaction
    backing     \* the expenses linked to each transaction

Init == /\ status = [t \in Txns |-> "absent"]
        /\ backing = [t \in Txns |-> {}]

Arrive(t) == /\ status[t] = "absent"
             /\ status' = [status EXCEPT ![t] = "pending"]
             /\ UNCHANGED backing

Settle(t, e) == /\ status[t] = "pending"
                /\ \A u \in Txns : e \notin backing[u]
                /\ status' = [status EXCEPT ![t] = "processed"]
                /\ backing' = [backing EXCEPT ![t] = {e}]

Next == \E t \in Txns : Arrive(t) \/ \E e \in Entries : Settle(t, e)

Spec == Init /\ [][Next]_<<status, backing>>
=============================================================================
