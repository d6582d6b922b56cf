------------------------------ MODULE Executor ------------------------------
(***************************************************************************)
(* The Executor's thread, its thread pool, and the transactions they work  *)
(* on (executor.cpp, transaction.cpp, thread_pool.cpp).                    *)
(*                                                                         *)
(* A user's thread opens a transaction, sends to sinks, submits it and     *)
(* waits.  The Executor takes one message at a time.  A request to update  *)
(* a cluster of a transaction becomes a task of the pool; the worker that  *)
(* takes it reports to the planner before and after the update, and merges *)
(* what the update triggered into the transaction under its mutex.         *)
(***************************************************************************)
EXTENDS Messages

CONSTANTS
    Sources,  \* clusters a send outside of any update can make updatable
    Workers   \* number of threads of the pool

ASSUME ExecutorAssumption ==
    /\ Sources \subseteq Clusters
    /\ Workers \in Nat \ {0}

VARIABLES
    next_transaction_id,          \* the IDs below it are taken
    status,                       \* how far the user and the waiter of each transaction are
    targets,                      \* keys of each targets_outside_current_cluster
    uncopied,                     \* those of them with values no sub-transaction copied
    transactions,                 \* keys of Executor::transactions
    transaction_updatings,        \* clusters the Executor accepted, by transaction
    pool,                         \* the tasks waiting in the pool's queue
    task,                         \* how far the task of each transaction and cluster is
    futures,                      \* the clusters a task still has to report as future
    before_update_hooks_buffers,  \* loopers updated, by transaction
    before_update_hooks,          \* for a looper, the transaction its last hook is from
    loop_values                   \* values of the loopers: key ID -> writing transaction

userVars == <<next_transaction_id, status>>
taskVars == <<targets, uncopied, pool, task, futures>>
acceptedVars == <<transactions, transaction_updatings>>
hookVars == <<before_update_hooks_buffers, before_update_hooks, loop_values>>
executorVars == <<userVars, taskVars, acceptedVars, hookVars>>

Statuses == {"none", "open", "submitted", "done"}
TaskPcs == {"idle", "queued", "taken", "reported", "executing", "registered", "finished"}

\* The tasks a worker of the pool is busy with.
Running ==
    {tc \in Transactions \X Clusters :
        task[tc[1]][tc[2]] \in {"taken", "reported", "executing", "registered"}}

-----------------------------------------------------------------------------
(* The user's threads.                                                     *)

\* InnerTransaction's constructor: IDs and Register messages come in the same
\* order, because both are taken under new_transaction_mutex.
Begin ==
    /\ next_transaction_id < MaxTransactions
    /\ next_transaction_id' = next_transaction_id + 1
    /\ status' = [status EXCEPT ![next_transaction_id] = "open"]
    /\ PushExecutor(Register(next_transaction_id))
    /\ UNCHANGED <<planner_messages, taskVars, acceptedVars, hookVars>>

\* The sends of an open transaction, then its destructor or get_join_handler.
Submit(t) ==
    /\ status[t] = "open"
    /\ status' = [status EXCEPT ![t] = "submitted"]
    /\ \E sent \in SUBSET Sources :
         /\ targets' = [targets EXCEPT ![t] = sent]
         /\ uncopied' = [uncopied EXCEPT ![t] = sent]
    /\ PushExecutor(Execute(t))
    /\ UNCHANGED <<planner_messages, next_transaction_id, pool, task, futures,
                   acceptedVars, hookVars>>

-----------------------------------------------------------------------------
(* Executor::start_loop, one action per kind of message.                   *)

Receive(type) ==
    /\ executor_messages # <<>>
    /\ Head(executor_messages).type = type
    /\ executor_messages' = Tail(executor_messages)

\* Mutants of HandleRegister: the hooks stay queued, and they write under the key
\* of the transaction they come from.
HandleRegisterKeepsHooks ==
    /\ Receive("Register")
    /\ LET t == Head(executor_messages).id
       IN  /\ loop_values' =
                [l \in LoopClusters |->
                   IF before_update_hooks[l] = NoTransaction
                     THEN loop_values[l]
                     ELSE [loop_values[l] EXCEPT ![t] = before_update_hooks[l]]]
           /\ PushPlanner(Start(t))
    /\ UNCHANGED <<userVars, taskVars, acceptedVars, before_update_hooks_buffers,
                   before_update_hooks>>

HandleRegisterWritesBack ==
    /\ Receive("Register")
    /\ loop_values' =
         [l \in LoopClusters |->
            IF before_update_hooks[l] = NoTransaction
              THEN loop_values[l]
              ELSE [loop_values[l] EXCEPT ![before_update_hooks[l]] = before_update_hooks[l]]]
    /\ PushPlanner(Start(Head(executor_messages).id))
    /\ before_update_hooks' = [l \in LoopClusters |-> NoTransaction]
    /\ UNCHANGED <<userVars, taskVars, acceptedVars, before_update_hooks_buffers>>

\* invoke_before_update_hooks: the hooks run in the order they were queued in,
\* so for every looper the last one decides the value stored under the key t.
HandleRegister ==
    /\ Receive("Register")
    /\ LET t == Head(executor_messages).id
       IN  /\ loop_values' =
                [l \in LoopClusters |->
                   IF before_update_hooks[l] = NoTransaction
                     THEN loop_values[l]
                     ELSE [loop_values[l] EXCEPT ![t] = before_update_hooks[l]]]
           /\ PushPlanner(Start(t))
    /\ before_update_hooks' = [l \in LoopClusters |-> NoTransaction]
    /\ UNCHANGED <<userVars, taskVars, acceptedVars, before_update_hooks_buffers>>

HandleExecute ==
    /\ Receive("Execute")
    /\ LET t == Head(executor_messages).id
       IN  /\ transactions' = transactions \cup {t}
           /\ PushPlanner(Update(t, {}, targets[t], {}))
    /\ UNCHANGED <<userVars, taskVars, transaction_updatings, hookVars>>

\* Mutant of Acceptable: a proposal is accepted however often it comes.
AcceptableAgain(m) == m.id \in transactions

\* A proposal for a transaction that is not registered, or for a cluster that
\* was accepted before, is dropped.
Acceptable(m) ==
    /\ m.id \in transactions
    /\ m.cluster \notin transaction_updatings[m.id]

HandleStartUpdate ==
    /\ Receive("StartUpdate")
    /\ LET m == Head(executor_messages)
       IN  IF Acceptable(m)
             THEN /\ transaction_updatings' =
                       [transaction_updatings EXCEPT ![m.id] = @ \cup {m.cluster}]
                  /\ task' = [task EXCEPT ![m.id][m.cluster] = "queued"]
                  /\ pool' = Append(pool, <<m.id, m.cluster>>)
             ELSE UNCHANGED <<transaction_updatings, task, pool>>
    /\ UNCHANGED <<planner_messages, userVars, targets, uncopied, futures, transactions, hookVars>>

\* The transaction ends: its listeners run, its user is woken, the Executor
\* forgets it, its hooks become due and the planner is told.  Only the first
\* proposal to finalize a transaction finds it.
HandleFinalize ==
    /\ Receive("Finalize")
    /\ LET t == Head(executor_messages).id
       IN  IF t \in transactions
             THEN /\ status' = [status EXCEPT ![t] = "done"]
                  /\ transactions' = transactions \ {t}
                  /\ transaction_updatings' = [transaction_updatings EXCEPT ![t] = {}]
                  /\ before_update_hooks' =
                       [l \in LoopClusters |->
                          IF l \in before_update_hooks_buffers[t]
                            THEN t ELSE before_update_hooks[l]]
                  /\ before_update_hooks_buffers' =
                       [before_update_hooks_buffers EXCEPT ![t] = {}]
                  /\ PushPlanner(Finish(t))
             ELSE UNCHANGED <<planner_messages, status, acceptedVars,
                              before_update_hooks, before_update_hooks_buffers>>
    /\ UNCHANGED <<next_transaction_id, taskVars, loop_values>>

-----------------------------------------------------------------------------
(* The pool's workers: the task of cluster c of transaction t.             *)

SetTask(t, c, pc) == task' = [task EXCEPT ![t][c] = pc]

\* ThreadPool: a free worker pops the oldest task.
TakeTask ==
    /\ pool # <<>>
    /\ Cardinality(Running) < Workers
    /\ SetTask(Head(pool)[1], Head(pool)[2], "taken")
    /\ pool' = Tail(pool)
    /\ UNCHANGED <<executor_messages, planner_messages, userVars, targets, uncopied,
                   futures, acceptedVars, hookVars>>

ReportNow(t, c) ==
    /\ task[t][c] = "taken"
    /\ SetTask(t, c, "reported")
    /\ PushPlanner(Update(t, {c}, {}, {}))
    /\ UNCHANGED <<executor_messages, userVars, targets, uncopied, pool, futures,
                   acceptedVars, hookVars>>

\* generate_sub_transaction copies, under the transaction's mutex, what is to
\* be updated in c; operator[] of the map makes c a key.
GenerateSubTransaction(t, c) ==
    /\ task[t][c] = "reported"
    /\ SetTask(t, c, "executing")
    /\ targets' = [targets EXCEPT ![t] = @ \cup {c}]
    /\ uncopied' = [uncopied EXCEPT ![t] = @ \ {c}]
    /\ UNCHANGED <<executor_messages, planner_messages, userVars, pool, futures,
                   acceptedVars, hookVars>>

\* execute and register_execution_result: the update triggered the clusters
\* result; those that are no key of the transaction yet are its new futures.
\* A looper that was updated leaves a hook.
RegisterExecutionResult(t, c) ==
    /\ task[t][c] = "executing"
    /\ SetTask(t, c, "registered")
    /\ \E result \in SUBSET Triggered(c) :
         /\ futures' = [futures EXCEPT ![t][c] = result \ targets[t]]
         /\ targets' = [targets EXCEPT ![t] = @ \cup result]
         /\ uncopied' = [uncopied EXCEPT ![t] = @ \cup result]
    /\ \E looped \in SUBSET (LoopClusters \cap {c}) :
         before_update_hooks_buffers' =
           [before_update_hooks_buffers EXCEPT ![t] = @ \cup looped]
    /\ UNCHANGED <<executor_messages, planner_messages, userVars, pool,
                   acceptedVars, before_update_hooks, loop_values>>

\* Mutant of ReportFinish: the new futures are not reported.
ReportFinishOnly(t, c) ==
    /\ task[t][c] = "registered"
    /\ SetTask(t, c, "finished")
    /\ PushPlanner(Update(t, {}, {}, {c}))
    /\ futures' = [futures EXCEPT ![t][c] = {}]
    /\ UNCHANGED <<executor_messages, userVars, targets, uncopied, pool,
                   acceptedVars, hookVars>>

ReportFinish(t, c) ==
    /\ task[t][c] = "registered"
    /\ SetTask(t, c, "finished")
    /\ PushPlanner(Update(t, {}, futures[t][c], {c}))
    /\ futures' = [futures EXCEPT ![t][c] = {}]
    /\ UNCHANGED <<executor_messages, userVars, targets, uncopied, pool,
                   acceptedVars, hookVars>>

-----------------------------------------------------------------------------
ExecutorInit ==
    /\ next_transaction_id = 0
    /\ status = [t \in Transactions |-> "none"]
    /\ targets = [t \in Transactions |-> {}]
    /\ uncopied = [t \in Transactions |-> {}]
    /\ transactions = {}
    /\ transaction_updatings = [t \in Transactions |-> {}]
    /\ pool = <<>>
    /\ task = [t \in Transactions |-> [c \in Clusters |-> "idle"]]
    /\ futures = [t \in Transactions |-> [c \in Clusters |-> {}]]
    /\ before_update_hooks_buffers = [t \in Transactions |-> {}]
    /\ before_update_hooks = [l \in LoopClusters |-> NoTransaction]
    /\ loop_values = [l \in LoopClusters |-> [t \in Transactions |-> NoTransaction]]

ExecutorStep == HandleRegister \/ HandleExecute \/ HandleStartUpdate \/ HandleFinalize

UserStep == Begin \/ \E t \in Transactions : Submit(t)

TaskStep(t, c) ==
    \/ ReportNow(t, c)
    \/ GenerateSubTransaction(t, c)
    \/ RegisterExecutionResult(t, c)
    \/ ReportFinish(t, c)

WorkerStep == TakeTask \/ \E t \in Transactions, c \in Clusters : TaskStep(t, c)

=============================================================================
