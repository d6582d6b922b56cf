------------------------------- MODULE Engine -------------------------------
(***************************************************************************)
(* The update engine of PRF: users' threads, the Executor's thread and its *)
(* pool, the PlannerManager's thread and its planner thread, connected by  *)
(* the two message queues.  One action of a thread at a time.              *)
(***************************************************************************)
EXTENDS Planner, Executor

vars == <<executor_messages, planner_messages, plannerVars, executorVars>>

Init ==
    /\ executor_messages = <<>>
    /\ planner_messages = <<>>
    /\ PlannerInit
    /\ ExecutorInit

\* Every transaction the bound allows is over and every thread waits for a
\* message: the process goes on, but nothing more happens.
AllDone == \A t \in Transactions : status[t] = "done"

Rest ==
    /\ AllDone
    /\ executor_messages = <<>>
    /\ planner_messages = <<>>
    /\ manager = Idle
    /\ planner = Stopped
    /\ UNCHANGED vars

Next ==
    \/ UserStep /\ UNCHANGED plannerVars
    \/ ExecutorStep /\ UNCHANGED plannerVars
    \/ WorkerStep /\ UNCHANGED plannerVars
    \/ ManagerStep /\ UNCHANGED executorVars
    \/ PlannerStep /\ UNCHANGED executorVars
    \/ Rest

Spec == Init /\ [][Next]_vars

\* Every thread of the library runs; nothing is assumed of the users' threads,
\* which may keep a transaction open for ever.
Fairness ==
    /\ WF_vars(ExecutorStep /\ UNCHANGED plannerVars)
    /\ WF_vars(WorkerStep /\ UNCHANGED plannerVars)
    /\ WF_vars(ManagerStep /\ UNCHANGED executorVars)
    /\ WF_vars(PlannerStep /\ UNCHANGED executorVars)

FairSpec == Spec /\ Fairness

-----------------------------------------------------------------------------
\* The type of every variable (executor.hpp:98-114, planner.hpp:19-46 and
\* 119-132, transaction.hpp:68-122).
TypeOK ==
    /\ executor_messages \in Seq(ExecutorMessage)
    /\ planner_messages \in Seq(PlannerMessage)
    /\ transaction_states \in Seq(TransactionState)
    /\ manager \in [pc : {"idle"}]
                   \cup [pc : {"joining"}, message : UpdateMessage \cup FinishMessage]
    /\ stop_planning_needed \in BOOLEAN
    /\ planner \in [pc : {"stopped"}]
                   \cup [pc : {"visiting"}, i : Nat \ {0}, target : 0 .. NoRank,
                         used : SUBSET Clusters]
                   \cup [pc : {"assigning"}, i : Nat \ {0}, target : 0 .. NoRank,
                         used : SUBSET Clusters, todo : SUBSET Clusters]
    /\ next_transaction_id \in 0 .. MaxTransactions
    /\ status \in [Transactions -> Statuses]
    /\ targets \in [Transactions -> SUBSET Clusters]
    /\ transactions \in SUBSET Transactions
    /\ transaction_updatings \in [Transactions -> SUBSET Clusters]
    /\ pool \in Seq(Transactions \X Clusters)
    /\ task \in [Transactions -> [Clusters -> TaskPcs]]
    /\ uncopied \in [Transactions -> SUBSET Clusters]
    /\ futures \in [Transactions -> [Clusters -> SUBSET Clusters]]
    /\ before_update_hooks_buffers \in [Transactions -> SUBSET LoopClusters]
    /\ before_update_hooks \in [LoopClusters -> Transactions \cup {NoTransaction}]
    /\ loop_values \in [LoopClusters -> [Transactions -> Transactions \cup {NoTransaction}]]

-----------------------------------------------------------------------------
(* Safety.                                                                 *)

\* Cluster c is to be updated in transaction t and the results of that update
\* are not yet merged into t.
Pending(t, c) == c \in targets[t] /\ task[t][c] \notin {"registered", "finished"}

\* Cluster c took what it has to update in transaction t: what is added to it
\* from then on is lost.
Begun(t, c) == task[t][c] \in {"executing", "registered", "finished"}

Submitted(t) == status[t] \in {"submitted", "done"}

\* Transactions end in the order they were created in, so their listeners are
\* called in that order, whatever their clusters (document.md:186-209; the
\* planner proposes only the front, planner.cpp:238-244, 323-327).
InOrder ==
    \A s, t \in Transactions : s < t /\ status[t] = "done" => status[s] = "done"

\* When a transaction ends every cluster it had to update has been updated and
\* no task refers to it: its user is about to delete it (transaction.cpp:107-113)
\* while tasks hold a raw pointer to it (executor.cpp:94-98).
EndsComplete ==
    \A t \in Transactions : status[t] = "done" =>
        \A c \in Clusters : task[t][c] = IF c \in targets[t] THEN "finished" ELSE "idle"

\* When a transaction ends every value registered for update in it has been
\* handed to an update of its cluster: no update is lost.
NoLostUpdate ==
    \A t \in Transactions : status[t] = "done" => uncopied[t] = {}

\* Within a transaction a cluster is updated after all its parents: no parent
\* is or becomes pending once it began, so an update reads no value of a graph
\* that is only half updated.
ParentsFirst ==
    \A t \in Transactions : \A e \in Edges : Begun(t, e[2]) => ~Pending(t, e[1])

\* A transaction that began to update a cluster overtook no older one there:
\* every older transaction is submitted and is past that cluster and its
\* parents (used_clusters and target_rank, planner.cpp:271-322).
NoOvertaking ==
    \A s, t \in Transactions : s < t =>
        \A c \in Clusters : Begun(t, c) =>
            /\ Submitted(s)
            /\ ~Pending(s, c)
            /\ \A e \in Edges : e[2] = c => ~Pending(s, e[1])

\* No handler is ever about to take one of its warning branches.  The message the
\* PlannerManager has in hand agrees with the deque (planner.cpp:73-76, 82-88,
\* 104-110, 116-121, 141-157), and a proposal to update a cluster is for a
\* transaction the Executor still has (executor.cpp:78-82): one that is late can
\* only be a repetition.
NoWarning ==
    /\ manager # Idle =>
         LET m == manager.message
         IN  /\ Holds(transaction_states, m.id)
             /\ LET s == transaction_states[m.id - FrontId + 1]
                IN  /\ m.type = "Update" =>
                         /\ m.now \subseteq s.future \cup m.future
                         /\ m.finish \subseteq s.now
                    /\ m.type = "Finish" => m.id = FrontId /\ s.initialized
    /\ \A i \in 1 .. Len(executor_messages) :
         executor_messages[i].type = "StartUpdate" =>
             /\ executor_messages[i].id \in transactions
             /\ executor_messages[i].cluster \in targets[executor_messages[i].id]

\* The deque holds consecutive IDs, which is what makes random access by ID
\* right (planner.cpp:93-96), and target_ranks counts the clusters of future
\* and now by rank: simple_planner finds no cluster to assign, and stops for
\* good, when its smallest key has none (planner.cpp:248-258).
StatesConsistent ==
    \A i \in 1 .. Len(transaction_states) :
        LET s == transaction_states[i]
        IN  /\ s.transaction_id = FrontId + i - 1
            /\ s.future \cap s.now = {}
            /\ \A r \in Ranks :
                 s.target_ranks[r] = Cardinality(OfRank(s.future \cup s.now, r))

\* The planner knows of all the work of a transaction it has the initial
\* targets of: a pending cluster is in its deque, or on its way there in a
\* report, or will be reported by a task that is in the deque itself.
Reporting(t, c) ==
    \/ \E d \in Clusters : c \in futures[t][d]
    \/ \E i \in 1 .. Len(planner_messages) :
         /\ planner_messages[i].type = "Update"
         /\ planner_messages[i].id = t
         /\ c \in planner_messages[i].future
    \/ /\ manager # Idle
       /\ manager.message.type = "Update"
       /\ manager.message.id = t
       /\ c \in manager.message.future

PlannerKnows ==
    \A i \in 1 .. Len(transaction_states) :
        LET s == transaction_states[i]
        IN  s.initialized =>
              \A c \in Clusters :
                  Pending(s.transaction_id, c) =>
                      c \in s.future \cup s.now \/ Reporting(s.transaction_id, c)

\* A cluster is put into the pool at most once per transaction, however often
\* the planner proposes it (executor.cpp:83-87).
UpdatedOnce ==
    [][\A t \in Transactions, c \in Clusters :
          Len(pool') > Len(pool) /\ pool'[Len(pool')] = <<t, c>> => task[t][c] = "idle"]_vars

-----------------------------------------------------------------------------
(* Why transactions end in order: the inductive invariant behind InOrder.  *)

InDeque(s) == \E k \in 1 .. Len(transaction_states) :
                 transaction_states[k].transaction_id = s

\* What is older than a proposal to finalize is over.
FinalizeReady ==
    \A i \in 1 .. Len(executor_messages) : executor_messages[i].type = "Finalize" =>
        \A s \in 0 .. (executor_messages[i].id - 1) : status[s] = "done"

\* What is older than the front of the deque is over.
FrontOldest ==
    transaction_states # <<>> => \A s \in 0 .. (FrontId - 1) : status[s] = "done"

\* The deque holds consecutive IDs.
ConsecutiveIds ==
    \A i \in 1 .. Len(transaction_states) :
        transaction_states[i].transaction_id = FrontId + i - 1

\* A transaction the PlannerManager is told to drop is over.
FinishEnded ==
    /\ \A i \in 1 .. Len(planner_messages) :
         planner_messages[i].type = "Finish" => status[planner_messages[i].id] = "done"
    /\ manager.pc = "joining" /\ manager.message.type = "Finish" =>
         status[manager.message.id] = "done"

\* The PlannerManager hears of a transaction after it heard of every older one.
StartsInOrder ==
    \A i \in 1 .. Len(planner_messages) : planner_messages[i].type = "Start" =>
        \A s \in 0 .. (planner_messages[i].id - 1) :
            \/ status[s] = "done"
            \/ InDeque(s)
            \/ \E j \in 1 .. (i - 1) : planner_messages[j] = Start(s)

Announced(s) ==
    \/ status[s] = "done"
    \/ InDeque(s)
    \/ \E j \in 1 .. Len(planner_messages) : planner_messages[j] = Start(s)

\* So does the Executor.
RegistersInOrder ==
    \A i \in 1 .. Len(executor_messages) : executor_messages[i].type = "Register" =>
        \A s \in 0 .. (executor_messages[i].id - 1) :
            \/ Announced(s)
            \/ \E j \in 1 .. (i - 1) : executor_messages[j] = Register(s)

\* No transaction is forgotten between its creation and its end.
NoneForgotten ==
    \A s \in 0 .. (next_transaction_id - 1) :
        \/ Announced(s)
        \/ \E j \in 1 .. Len(executor_messages) : executor_messages[j] = Register(s)

\* The Executor holds a transaction from the one Execute message its user
\* sends until it ends.
HeldWhileSubmitted ==
    /\ \A t \in transactions : status[t] = "submitted"
    /\ \A t \in Transactions : t >= next_transaction_id => status[t] = "none"
    /\ \A i \in 1 .. Len(executor_messages) : executor_messages[i].type = "Execute" =>
         /\ status[executor_messages[i].id] = "submitted"
         /\ executor_messages[i].id \notin transactions
         /\ \A j \in 1 .. Len(executor_messages) :
              executor_messages[j] = executor_messages[i] => j = i

\* A planner thread in the middle of a transaction state finds it in place.
PlannerInDeque ==
    planner.pc = "assigning" => planner.i <= Len(transaction_states)

\* InOrder with all that keeps it: what the queues, the deque and the planner
\* hold agrees with the transactions that are over.
OrderInv ==
    /\ TypeOK
    /\ InOrder
    /\ FinalizeReady
    /\ FrontOldest
    /\ ConsecutiveIds
    /\ FinishEnded
    /\ StartsInOrder
    /\ RegistersInOrder
    /\ NoneForgotten
    /\ HeldWhileSubmitted
    /\ PlannerInDeque

-----------------------------------------------------------------------------
(* GlobalCellLoop.                                                         *)

\* The value of looper l that transaction t samples: the last one at or before
\* its ID (cell.hpp:271-281).
Sampled(l, t) ==
    LET keys == {k \in 0 .. t : loop_values[l][k] # NoTransaction}
    IN  IF keys = {} THEN NoTransaction
        ELSE loop_values[l][CHOOSE k \in keys : \A j \in keys : j <= k]

\* What a transaction samples from a looper does not change while it is being
\* updated (document.md:226).
LoopSampleStable ==
    [][\A t \in Transactions, l \in LoopClusters :
          t \in transactions => Sampled(l, t)' = Sampled(l, t)]_vars

\* A transaction samples from a looper only values of older transactions that
\* are over, and younger keys hold values of younger transactions
\* (document.md:223-225).
LoopValuesOrdered ==
    \A l \in LoopClusters, k \in Transactions :
        loop_values[l][k] # NoTransaction =>
            /\ loop_values[l][k] < k
            /\ status[loop_values[l][k]] = "done"
            /\ \A j \in 0 .. (k - 1) : loop_values[l][j] < loop_values[l][k]

-----------------------------------------------------------------------------
(* Liveness.                                                               *)

\* The engine implements the order it promises, and a submitted transaction
\* ends once every older one is submitted: what is younger, open or not, cannot
\* hold it back (transaction.cpp:107-113, document.md:186-209).
Promise ==
    INSTANCE TransactionOrder WITH created <- next_transaction_id

OrderKept == Promise!OrderSpec
Completion == Promise!FairOrderSpec

=============================================================================
