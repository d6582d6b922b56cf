--------------------------- MODULE TransactionOrder ---------------------------
(***************************************************************************)
(* What the update engine promises its users, without queues, planner or   *)
(* clusters: transactions are created in the order of their IDs, submitted *)
(* in any order, and ended one at a time in the order they were created.   *)
(***************************************************************************)
EXTENDS Integers

CONSTANT MaxTransactions  \* bound on the number of transactions

Transactions == 0 .. (MaxTransactions - 1)

VARIABLES
    created,  \* number of transactions created
    status    \* what the user of each transaction sees

Create ==
    /\ created < MaxTransactions
    /\ created' = created + 1
    /\ status' = [status EXCEPT ![created] = "open"]

Submit(t) ==
    /\ status[t] = "open"
    /\ status' = [status EXCEPT ![t] = "submitted"]
    /\ UNCHANGED created

\* The oldest transaction that is not over ends, if it is submitted.
End(t) ==
    /\ status[t] = "submitted"
    /\ \A s \in 0 .. (t - 1) : status[s] = "done"
    /\ status' = [status EXCEPT ![t] = "done"]
    /\ UNCHANGED created

Init ==
    /\ created = 0
    /\ status = [t \in Transactions |-> "none"]

Next ==
    \/ Create
    \/ \E t \in Transactions : Submit(t) \/ End(t)

\* Safety alone, and with the promise that the oldest transaction ends.
OrderSpec == Init /\ [][Next]_<<created, status>>

FairOrderSpec ==
    OrderSpec /\ WF_<<created, status>>(\E t \in Transactions : End(t))

=============================================================================
