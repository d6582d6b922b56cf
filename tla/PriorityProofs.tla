--------------------------- MODULE PriorityProofs ---------------------------
(***************************************************************************)
(* Older transactions first, and within a transaction parents first: how   *)
(* far the planners keep both, and that no update is lost.  The results    *)
(* hold for graphs whose ranks agree with the edges (RankOrder) and, for   *)
(* what rank_based_planner does inside a transaction, whose IDs do.        *)
(***************************************************************************)
EXTENDS ReportProofs

\* Cluster d still has something to do in s: it may trigger others.
Active(s, d) == d \in targets[s] /\ task[s][d] # "finished"

\* The planner has, or had, the initial targets of s.
Reached(s) == Initialized(s) \/ status[s] = "done"

\* The update of c was proposed for t.
Chosen(t, c) == Waiting(StartUpdate(t, c)) \/ task[t][c] # "idle"

\* Cluster c depends on d: it is in whatever contains what d feeds and, with
\* a cluster, what that one feeds.
DependsOn(c, d) ==
    \A S \in SUBSET Clusters :
        Feeds(d) \subseteq S /\ (\A e \in S : Feeds(e) \subseteq S) => c \in S

\* Reports of foreign results: every report but the first on a transaction comes
\* from a task, and its future is among what the finished cluster triggers.
Untriggered ==
    {m \in UpdateMessage :
        /\ ~Initial(m)
        /\ m.future # {}
        /\ ~\E e \in m.finish : m.future \subseteq Triggered(e)}

\* What a task triggered is in its futures, then in its last report.
ResultsTriggered ==
    /\ \A t \in Transactions, e \in Clusters : futures[t][e] \subseteq Triggered(e)
    /\ ~Has(Pipe, Untriggered)

\* A planner thread that is at p assigns no cluster above d to a younger transaction,
\* nor d itself.
Bars(p, d) ==
    \/ p.target < Rank[d]
    \/ p.target = Rank[d] /\ d \in p.used

\* It bars what is left of the transactions it has visited, and of the one it is
\* at, but for the clusters it has not considered.
PlannerBars ==
    planner.pc # "stopped" =>
        /\ \A k \in 1 .. (planner.i - 1) :
             /\ k <= Len(transaction_states)
             /\ transaction_states[k].initialized
             /\ \A d \in transaction_states[k].future \cup transaction_states[k].now :
                  Bars(planner, d)
        /\ planner.pc = "assigning" =>
             /\ UseParallelExecution
             /\ \A d \in (transaction_states[planner.i].future \ planner.todo)
                           \cup transaction_states[planner.i].now :
                  Bars(planner, d)

\* No older transaction has work left at c, or at a cluster of smaller rank.
Passed(t, c) ==
    \A s \in 0 .. (t - 1) :
        /\ Reached(s)
        /\ \A d \in Clusters : Active(s, d) => Rank[c] <= Rank[d] /\ d # c

OlderPassed == \A t \in Transactions, c \in Clusters : Chosen(t, c) => Passed(t, c)

\* Nothing that c depends on has work left in t.
Fed(t, c) == \A d \in Clusters : Active(t, d) => ~DependsOn(c, d)

ParentsFinished == \A t \in Transactions, c \in Clusters : Chosen(t, c) => Fed(t, c)

\* Values that no sub-transaction copied wait for the task of their cluster.
UncopiedWaits ==
    \A t \in Transactions : \A c \in uncopied[t] :
        c \in targets[t] /\ task[t][c] \in {"idle", "queued", "taken", "reported"}

-----------------------------------------------------------------------------
(* What a step does to a cluster of a transaction.                         *)

\* A finished task stays so; a task is made of a proposal; a target comes from
\* the user while the transaction is open, or from the result of an update; a
\* proposal comes from the planner thread; and what is over stays so.
LEMMA Moves ==
    ASSUME OrderInv, LifeInv, ReportInv, [Next]_vars, NEW t \in Transactions, NEW c \in Clusters
    PROVE  /\ task[t][c] = "finished" => task'[t][c] = "finished"
           /\ task'[t][c] # "idle" => Chosen(t, c)
           /\ c \in targets'[t] => \/ c \in targets[t]
                                   \/ status[t] = "open"
                                   \/ \E e \in Clusters :
                                        task[t][e] = "executing" /\ c \in Triggered(e)
           /\ Waiting(StartUpdate(t, c))' =>
                \/ Waiting(StartUpdate(t, c))
                \/ /\ PlannerStep /\ UNCHANGED executorVars
                   /\ executor_messages' = Append(executor_messages, StartUpdate(t, c))
           /\ status[t] = "done" => status'[t] = "done"
  <1> DEFINE Goal ==
        /\ task[t][c] = "finished" => task'[t][c] = "finished"
        /\ task'[t][c] # "idle" => Chosen(t, c)
        /\ c \in targets'[t] => \/ c \in targets[t]
                                \/ status[t] = "open"
                                \/ \E e \in Clusters :
                                     task[t][e] = "executing" /\ c \in Triggered(e)
        /\ Waiting(StartUpdate(t, c))' =>
             \/ Waiting(StartUpdate(t, c))
             \/ /\ PlannerStep /\ UNCHANGED executorVars
                /\ executor_messages' = Append(executor_messages, StartUpdate(t, c))
        /\ status[t] = "done" => status'[t] = "done"
  <1>1. TypeOK
    BY DEF OrderInv
  <1>2. ASSUME UNCHANGED <<task, targets, status>>,
               Waiting(StartUpdate(t, c))' => Waiting(StartUpdate(t, c))
        PROVE  Goal
    BY <1>2 DEF Chosen
  <1>3. CASE Begin
    <2>1. executor_messages' = Append(executor_messages, Register(next_transaction_id))
      BY <1>3 DEF Begin, PushExecutor
    <2>2. Waiting(StartUpdate(t, c))' => Waiting(StartUpdate(t, c))
      BY <1>1, <2>1, WaitingPush, ProposalsDiffer DEF Register, StartUpdate
    <2>3. UNCHANGED <<task, targets>>
      BY <1>3 DEF Begin, taskVars
    <2>4. status[t] = "done" => status'[t] = "done"
      <3>1. next_transaction_id \in Transactions
        BY <1>1, <1>3, BoundAssumption DEF Begin, TypeOK, Transactions
      <3>2. status[next_transaction_id] = "none"
        BY <3>1, BoundAssumption DEF OrderInv, HeldWhileSubmitted, Transactions
      <3> QED
        BY <1>1, <1>3, <3>1, <3>2 DEF Begin, TypeOK
    <2> QED
      BY <2>2, <2>3, <2>4 DEF Chosen
  <1>4. ASSUME NEW u \in Transactions, Submit(u)
        PROVE  Goal
    <2>1. executor_messages' = Append(executor_messages, Execute(u))
      BY <1>4 DEF Submit, PushExecutor
    <2>2. Waiting(StartUpdate(t, c))' => Waiting(StartUpdate(t, c))
      BY <1>1, <2>1, WaitingPush, UsersDiffer
    <2>3. /\ task' = task
          /\ status[u] = "open" /\ status' = [status EXCEPT ![u] = "submitted"]
          /\ \E sent : targets' = [targets EXCEPT ![u] = sent]
      BY <1>4 DEF Submit
    <2>4. c \in targets'[t] => c \in targets[t] \/ status[t] = "open"
      BY <1>1, <2>3 DEF TypeOK
    <2>5. status[t] = "done" => status'[t] = "done"
      BY <1>1, <2>3 DEF TypeOK
    <2> QED
      BY <2>2, <2>3, <2>4, <2>5 DEF Chosen
  <1>5. CASE HandleRegister \/ HandleExecute
    <2>1. Receive("Register") \/ Receive("Execute")
      BY <1>5 DEF HandleRegister, HandleExecute
    <2>2. Waiting(StartUpdate(t, c))' => Waiting(StartUpdate(t, c))
      BY <1>1, <2>1, ExecutorHead
    <2>3. UNCHANGED <<task, targets, status>>
      BY <1>5 DEF HandleRegister, HandleExecute, taskVars, userVars
    <2> QED
      BY <1>2, <2>2, <2>3
  <1>6. CASE HandleStartUpdate
    <2>1. /\ UNCHANGED <<status, targets>>
          /\ \A x : Waiting(x)' => Waiting(x)
          /\ \/ task' = task
             \/ \E u \in transactions : \E d \in Clusters \ transaction_updatings[u] :
                  /\ Waiting(StartUpdate(u, d))
                  /\ task' = [task EXCEPT ![u] = [task[u] EXCEPT ![d] = "queued"]]
      BY <1>1, <1>6, StartUpdateStep
    <2>2. CASE task' = task
      BY <1>2, <2>1, <2>2
    <2>3. ASSUME NEW u \in transactions, NEW d \in Clusters \ transaction_updatings[u],
                 Waiting(StartUpdate(u, d)),
                 task' = [task EXCEPT ![u] = [task[u] EXCEPT ![d] = "queued"]]
          PROVE  Goal
      <3>1. u \in Transactions /\ status[u] # "done"
        BY <1>1 DEF OrderInv, HeldWhileSubmitted, TypeOK
      <3>2. task[u][d] = "idle"
        BY <3>1 DEF LifeInv, Accepted
      <3>3. task'[t][c] = IF t = u /\ c = d THEN "queued" ELSE task[t][c]
        BY <1>1, <2>3, <3>1 DEF TypeOK
      <3>4. task[t][c] = "finished" => task'[t][c] = "finished"
        BY <3>2, <3>3
      <3>5. task'[t][c] # "idle" => Chosen(t, c)
        BY <2>3, <3>3 DEF Chosen
      <3> QED
        BY <2>1, <3>4, <3>5
    <2> QED
      BY <2>1, <2>2, <2>3
  <1>7. CASE HandleFinalize
    <2>1. /\ UNCHANGED <<task, targets>>
          /\ \A x : Waiting(x)' => Waiting(x)
          /\ status' = status \/ \E u : status' = [status EXCEPT ![u] = "done"]
      BY <1>1, <1>7, FinalizeStep
    <2>2. status[t] = "done" => status'[t] = "done"
      BY <1>1, <2>1 DEF TypeOK
    <2> QED
      BY <2>1, <2>2 DEF Chosen
  <1>8. CASE TakeTask
    <2>1. PICK u \in Transactions, d \in Clusters :
            task[u][d] = "queued" /\ SetTask(u, d, "taken")
      BY <1>1, <1>8, TakeStep DEF LifeInv
    <2>2. task'[t][c] = IF t = u /\ c = d THEN "taken" ELSE task[t][c]
      BY <1>1, <2>1, OneTask
    <2>3. UNCHANGED <<targets, status, executor_messages>>
      BY <1>8 DEF TakeTask, userVars
    <2> QED
      BY <2>1, <2>2, <2>3, SameWaiting DEF Chosen
  <1>9. ASSUME NEW u \in Transactions, NEW d \in Clusters, TaskStep(u, d),
               UNCHANGED plannerVars
        PROVE  Goal
    <2>1. /\ UNCHANGED <<executor_messages, status>>
          /\ \E pc \in TaskPcs \ {"idle", "queued"} :
               task[u][d] \notin {"idle", "queued"} /\ SetTask(u, d, pc)
      BY <1>1, <1>9, TaskSteps
    <2>2. PICK pc \in TaskPcs : task[u][d] \notin {"idle", "queued"} /\ SetTask(u, d, pc)
      BY <2>1
    <2>3. task'[t][c] = IF t = u /\ c = d THEN pc ELSE task[t][c]
      BY <1>1, <2>2, OneTask
    <2>4. task[u][d] # "finished"
      BY <1>9 DEF TaskStep, ReportNow, GenerateSubTransaction, RegisterExecutionResult,
         ReportFinish
    <2>5. c \in targets'[t] => \/ c \in targets[t]
                               \/ \E e \in Clusters :
                                    task[t][e] = "executing" /\ c \in Triggered(e)
      <3>1. CASE ReportNow(u, d) \/ ReportFinish(u, d)
        BY <3>1 DEF ReportNow, ReportFinish
      <3>2. CASE GenerateSubTransaction(u, d)
        <4>1. task[u][d] = "reported"
              /\ targets' = [targets EXCEPT ![u] = targets[u] \cup {d}]
          BY <3>2 DEF GenerateSubTransaction
        <4>2. d \in targets[u]
          BY <4>1, TaskKnown
        <4> QED
          BY <1>1, <4>1, <4>2 DEF TypeOK
      <3>3. CASE RegisterExecutionResult(u, d)
        <4>1. PICK result \in SUBSET Triggered(d) :
                targets' = [targets EXCEPT ![u] = targets[u] \cup result]
          BY <3>3 DEF RegisterExecutionResult
        <4>2. task[u][d] = "executing"
          BY <3>3 DEF RegisterExecutionResult
        <4>3. targets'[t] = IF t = u THEN targets[u] \cup result ELSE targets[t]
          BY <1>1, <4>1 DEF TypeOK
        <4> QED
          BY <4>2, <4>3
      <3> QED
        BY <1>9, <3>1, <3>2, <3>3 DEF TaskStep
    <2> QED
      BY <2>1, <2>2, <2>3, <2>4, <2>5, SameWaiting DEF Chosen
  <1>10. CASE ManagerStep /\ UNCHANGED executorVars
    <2>1. UNCHANGED <<task, targets, status, executor_messages>>
      BY <1>10 DEF ManagerStep, ManagerStart, ManagerStop, ManagerRefresh, executorVars, taskVars,
         userVars
    <2> QED
      BY <1>2, <2>1, SameWaiting
  <1>11. CASE PlannerStep /\ UNCHANGED executorVars
    <2>1. UNCHANGED <<task, targets, status>>
      BY <1>11 DEF executorVars, taskVars, userVars
    <2>2. \/ executor_messages' = executor_messages
          \/ \E m : executor_messages' = Append(executor_messages, m)
      BY <1>11, PlannerPushes DEF LifeInv
    <2>3. CASE executor_messages' = executor_messages
      BY <1>2, <2>1, <2>3, SameWaiting
    <2>4. ASSUME NEW m, executor_messages' = Append(executor_messages, m)
          PROVE  Goal
      <3>1. Waiting(StartUpdate(t, c))' => Waiting(StartUpdate(t, c)) \/ m = StartUpdate(t, c)
        BY <1>1, <2>4, WaitingPush
      <3> QED
        BY <1>11, <2>1, <2>4, <3>1 DEF Chosen
    <2> QED
      BY <2>2, <2>3, <2>4
  <1>12. CASE UNCHANGED vars
    <2>1. UNCHANGED <<task, targets, status, executor_messages>>
      BY <1>12 DEF vars, executorVars, taskVars, userVars
    <2> QED
      BY <1>2, <2>1, SameWaiting
  <1> QED
    BY <1>3, <1>4, <1>5, <1>6, <1>7, <1>8, <1>9, <1>10, <1>11, <1>12
       DEF Next, Rest, UserStep, ExecutorStep, WorkerStep


-----------------------------------------------------------------------------
(* The order of the graph.                                                 *)

\* What a cluster feeds depends on it, and so does what depends on that.
LEMMA Dependence ==
    ASSUME NEW c \in Clusters, NEW d \in Clusters
    PROVE  /\ c \in Feeds(d) => DependsOn(c, d)
           /\ \A e \in Clusters : d \in Feeds(e) /\ DependsOn(c, d) => DependsOn(c, e)
  <1>1. c \in Feeds(d) => DependsOn(c, d)
    BY DEF DependsOn
  <1>2. ASSUME NEW e \in Clusters, d \in Feeds(e), DependsOn(c, d)
        PROVE  DependsOn(c, e)
    <2> SUFFICES ASSUME NEW S \in SUBSET Clusters, Feeds(e) \subseteq S,
                        \A x \in S : Feeds(x) \subseteq S
                 PROVE  c \in S
      BY DEF DependsOn
    <2>1. Feeds(d) \subseteq S
      BY <1>2
    <2> QED
      BY <1>2, <2>1 DEF DependsOn
  <1> QED
    BY <1>1, <1>2

\* Ranks and IDs that grow along every edge grow along every path.
LEMMA DependsAbove ==
    ASSUME NEW c \in Clusters, NEW d \in Clusters, DependsOn(c, d)
    PROVE  /\ RankOrder => Rank[d] < Rank[c]
           /\ IdOrder => d < c
  <1>1. ASSUME RankOrder PROVE Rank[d] < Rank[c]
    <2> DEFINE S == {x \in Clusters : Rank[d] < Rank[x]}
    <2>1. S \in SUBSET Clusters
      OBVIOUS
    <2>2. \A x \in Clusters : Feeds(x) \subseteq Clusters
      BY DEF Feeds, Triggered
    <2>3. Feeds(d) \subseteq S
      BY <1>1, <2>2 DEF RankOrder
    <2>4. ASSUME NEW x \in S, NEW y \in Feeds(x)
          PROVE  y \in S
      <3>1. x \in Clusters /\ y \in Clusters /\ Rank[x] < Rank[y]
        BY <1>1, <2>2 DEF RankOrder
      <3>2. Rank[d] \in Nat /\ Rank[x] \in Nat /\ Rank[y] \in Nat
        BY <3>1, RankAssumption
      <3> QED
        BY <3>1, <3>2
    <2>5. \A x \in S : Feeds(x) \subseteq S
      BY <2>4
    <2> HIDE DEF S
    <2>6. c \in S
      BY <2>1, <2>3, <2>5 DEF DependsOn
    <2> QED
      BY <2>6 DEF S
  <1>2. ASSUME IdOrder PROVE d < c
    <2> DEFINE S == {x \in Clusters : d < x}
    <2>1. S \in SUBSET Clusters
      OBVIOUS
    <2>2. \A x \in Clusters : Feeds(x) \subseteq Clusters
      BY DEF Feeds, Triggered
    <2>3. Feeds(d) \subseteq S
      BY <1>2, <2>2 DEF IdOrder
    <2>4. ASSUME NEW x \in S, NEW y \in Feeds(x)
          PROVE  y \in S
      <3>1. x \in Clusters /\ y \in Clusters /\ x < y
        BY <1>2, <2>2 DEF IdOrder
      <3>2. d \in Nat /\ x \in Nat /\ y \in Nat
        BY <3>1, ClustersAssumption
      <3> QED
        BY <3>1, <3>2
    <2>5. \A x \in S : Feeds(x) \subseteq S
      BY <2>4
    <2> HIDE DEF S
    <2>6. c \in S
      BY <2>1, <2>3, <2>5 DEF DependsOn
    <2> QED
      BY <2>6 DEF S
  <1> QED
    BY <1>1, <1>2

-----------------------------------------------------------------------------
(* What stays: a transaction that was reached gets new work only from work  *)
(* it has.                                                                 *)

\* A cluster that becomes active in a submitted transaction was triggered by one
\* that is active.
LEMMA ActiveStep ==
    ASSUME OrderInv, LifeInv, ReportInv, [Next]_vars,
           NEW s \in Transactions, status[s] # "open", NEW d \in Clusters, Active(s, d)'
    PROVE  Active(s, d) \/ \E e \in Clusters : Active(s, e) /\ d \in Triggered(e)
  <1>1. task[s][d] # "finished"
    BY Moves DEF Active
  <1>2. \/ d \in targets[s]
        \/ \E e \in Clusters : task[s][e] = "executing" /\ d \in Triggered(e)
    BY Moves DEF Active
  <1>3. \A e \in Clusters : task[s][e] = "executing" => Active(s, e)
    BY TaskKnown DEF Active
  <1> QED
    BY <1>1, <1>2, <1>3 DEF Active

\* Only the PlannerManager's handlers change the deque, or start the planner thread.
LEMMA DequeSteps ==
    ASSUME OrderInv, LifeInv, [Next]_vars
    PROVE  \/ ManagerStart
           \/ ManagerRefresh
           \/ /\ transaction_states' = transaction_states
              /\ PlannerStep \/ planner' = planner
  <1>1. CASE UserStep /\ UNCHANGED plannerVars
    BY <1>1 DEF plannerVars
  <1>2. CASE ExecutorStep /\ UNCHANGED plannerVars
    BY <1>2 DEF plannerVars
  <1>3. CASE WorkerStep /\ UNCHANGED plannerVars
    BY <1>3 DEF plannerVars
  <1>4. CASE ManagerStep /\ UNCHANGED executorVars
    BY <1>4 DEF ManagerStep, ManagerStop
  <1>5. CASE PlannerStep /\ UNCHANGED executorVars
    BY <1>5, PlannerPushes DEF LifeInv
  <1>6. CASE UNCHANGED vars
    BY <1>6 DEF vars, plannerVars
  <1> QED
    BY <1>1, <1>2, <1>3, <1>4, <1>5, <1>6 DEF Next, Rest

\* An initialized transaction stays so until it is over.
LEMMA ReachedStep ==
    ASSUME OrderInv, OrderInv', LifeInv, ReportInv, [Next]_vars, NEW c \in Clusters,
           NEW s \in Transactions, Reached(s)
    PROVE  Reached(s)' /\ status[s] # "open"
  <1>1. /\ TypeOK /\ Deque(transaction_states) /\ Deque(transaction_states')
    BY Deques DEF OrderInv
  <1>2. status[s] # "open"
    BY InitializedHeld DEF Reached, OrderInv, HeldWhileSubmitted
  <1>3. status[s] = "done" => status'[s] = "done"
    BY Moves
  <1>4. Initialized(s) => Initialized(s)' \/ status[s] = "done"
    <2>1. CASE ManagerStart
      <3>1. PICK t \in Transactions :
              transaction_states' = Append(transaction_states, NewTransactionState(t))
        BY <2>1, StartStep
      <3> QED
        BY <1>1, <3>1, DequePush
    <2>2. CASE ManagerRefresh
      <3>1. PICK m \in PlannerMessage : m = Head(Pipe)
        BY <1>1, <2>2, PipePop
      <3>2. ~ManagerStart
        BY <2>2 DEF ManagerStart, ManagerRefresh, Idle
      <3>3. /\ m.type # "Start"
            /\ transaction_states' = HandleMessage(transaction_states, m)
        BY <1>1, <2>2, <3>1, <3>2, PipePop
      <3>4. CASE m.type = "Update"
        <4>1. transaction_states' = HandleUpdate(transaction_states, m)
          BY <3>3, <3>4 DEF HandleMessage
        <4> QED
          BY <1>1, <3>4, <4>1, DequeUpdate
      <3>5. CASE m.type = "Finish"
        <4>1. /\ m.id \in Transactions
              /\ Ending(m.id)
              /\ transaction_states # <<>>
              /\ m.id = FrontId
              /\ transaction_states' = Tail(transaction_states)
          BY <2>2, <3>1, <3>5, FinishStep
        <4>2. status[m.id] = "done"
          BY <4>1 DEF LifeInv, Lifetimes, Lifetime
        <4>3. s # FrontId => (Initialized(s)' <=> Initialized(s))
          BY <1>1, <4>1, DequePop
        <4> QED
          BY <4>1, <4>2, <4>3
      <3> QED
        BY <3>3, <3>4, <3>5, MessageFields
    <2>3. CASE transaction_states' = transaction_states
      BY <2>3, SameDequeViews
    <2> QED
      BY <2>1, <2>2, <2>3, DequeSteps
  <1> QED
    BY <1>2, <1>3, <1>4 DEF Reached

\* What no older transaction has left to do it does not get.
LEMMA PassedStep ==
    ASSUME RankOrder, OrderInv, OrderInv', LifeInv, ReportInv, [Next]_vars,
           NEW t \in Transactions, NEW c \in Clusters, Passed(t, c)
    PROVE  Passed(t, c)'
  <1> SUFFICES ASSUME NEW s \in 0 .. (t - 1)
               PROVE  /\ Reached(s)'
                      /\ \A d \in Clusters : Active(s, d)' => Rank[c] <= Rank[d] /\ d # c
    BY DEF Passed
  <1>1. s \in Transactions
    BY OlderTransactions
  <1>2. Reached(s)' /\ status[s] # "open"
    BY <1>1, ReachedStep DEF Passed
  <1>3. ASSUME NEW d \in Clusters, Active(s, d)'
        PROVE  Rank[c] <= Rank[d] /\ d # c
    <2>1. CASE Active(s, d)
      BY <2>1 DEF Passed
    <2>2. ASSUME NEW e \in Clusters, Active(s, e), d \in Triggered(e)
          PROVE  Rank[c] <= Rank[d] /\ d # c
      <3>1. Rank[c] <= Rank[e]
        BY <2>2 DEF Passed
      <3>2. Rank[e] < Rank[d]
        BY <2>2 DEF RankOrder, Feeds
      <3>3. Rank[c] \in Nat /\ Rank[d] \in Nat /\ Rank[e] \in Nat
        BY RankAssumption
      <3> QED
        BY <3>1, <3>2, <3>3
    <2> QED
      BY <1>1, <1>2, <1>3, <2>1, <2>2, ActiveStep
  <1> QED
    BY <1>2, <1>3

\* What no cluster of a transaction that c depends on has left to do it does
\* not get either.
LEMMA FedStep ==
    ASSUME OrderInv, LifeInv, ReportInv, [Next]_vars,
           NEW t \in Transactions, status[t] # "open", NEW c \in Clusters, Fed(t, c)
    PROVE  Fed(t, c)'
  <1> SUFFICES ASSUME NEW d \in Clusters, Active(t, d)'
               PROVE  ~DependsOn(c, d)
    BY DEF Fed, DependsOn
  <1>1. CASE Active(t, d)
    BY <1>1 DEF Fed
  <1>2. ASSUME NEW e \in Clusters, Active(t, e), d \in Triggered(e)
        PROVE  ~DependsOn(c, d)
    <2>1. ~DependsOn(c, e)
      BY <1>2 DEF Fed
    <2> QED
      BY <1>2, <2>1, Dependence DEF Feeds
  <1> QED
    BY <1>1, <1>2, ActiveStep


-----------------------------------------------------------------------------
(* Results are triggered, and the planner is told of them with their cause. *)

\* A push of a message that reports no foreign result keeps it.
LEMMA TriggeredPush ==
    ASSUME TypeOK, ResultsTriggered, NEW m \in PlannerMessage, m \notin Untriggered,
           Pipe' = Append(Pipe, m),
           \A t \in Transactions, e \in Clusters : futures'[t][e] \subseteq Triggered(e)
    PROVE  ResultsTriggered'
  <1>1. Has(Pipe, Untriggered)' <=> Has(Pipe, Untriggered) \/ m \in Untriggered
    BY PipeType, HasPush DEF Untriggered, Triggered, Initial
  <1> QED
    BY <1>1 DEF ResultsTriggered, Triggered

\* The result of a task is in its futures until its last report.
LEMMA TaskTriggered ==
    ASSUME TypeOK, ResultsTriggered, NEW t \in Transactions, NEW c \in Clusters,
           TaskStep(t, c), UNCHANGED plannerVars
    PROVE  ResultsTriggered'
  <1> USE DEF plannerVars
  <1>1. futures[t][c] \in SUBSET Clusters /\ futures[t][c] \subseteq Triggered(c)
    BY DEF TypeOK, ResultsTriggered
  <1>2. {c} \in SUBSET Clusters /\ {} \in SUBSET Clusters
    OBVIOUS
  <1>3. CASE ReportNow(t, c)
    <2> DEFINE m == Update(t, {c}, {}, {})
    <2>1. m \in PlannerMessage /\ m \notin Untriggered
      BY <1>2, MessageTypes DEF Update, Untriggered
    <2>2. Pipe' = Append(Pipe, m)
      BY <1>3, <2>1, PipePush DEF ReportNow
    <2>3. futures' = futures
      BY <1>3 DEF ReportNow
    <2> HIDE DEF m
    <2> QED
      BY <2>1, <2>2, <2>3, TriggeredPush DEF ResultsTriggered
  <1>4. CASE GenerateSubTransaction(t, c)
    BY <1>4 DEF GenerateSubTransaction, ResultsTriggered, Pipe
  <1>5. CASE RegisterExecutionResult(t, c)
    <2>1. PICK result \in SUBSET Triggered(c) :
            futures' = [futures EXCEPT ![t] = [futures[t] EXCEPT ![c] = result \ targets[t]]]
      BY <1>5 DEF RegisterExecutionResult
    <2>2. \A u \in Transactions, d \in Clusters :
            futures'[u][d] = IF u = t /\ d = c THEN result \ targets[t] ELSE futures[u][d]
      BY <2>1 DEF TypeOK
    <2>3. Pipe' = Pipe
      BY <1>5 DEF RegisterExecutionResult, Pipe
    <2> QED
      BY <2>2, <2>3 DEF ResultsTriggered
  <1>6. CASE ReportFinish(t, c)
    <2> DEFINE m == Update(t, {}, futures[t][c], {c})
    <2>1. m \in PlannerMessage
      BY <1>1, <1>2, MessageTypes
    <2>2. m \notin Untriggered
      BY <1>1 DEF Update, Untriggered
    <2>3. Pipe' = Append(Pipe, m)
      BY <1>6, <2>1, PipePush DEF ReportFinish
    <2>4. futures' = [futures EXCEPT ![t] = [futures[t] EXCEPT ![c] = {}]]
      BY <1>6 DEF ReportFinish
    <2>5. \A u \in Transactions, d \in Clusters : futures'[u][d] \subseteq Triggered(d)
      BY <2>4 DEF TypeOK, ResultsTriggered
    <2> HIDE DEF m
    <2> QED
      BY <2>1, <2>2, <2>3, <2>5, TriggeredPush
  <1> QED
    BY <1>3, <1>4, <1>5, <1>6 DEF TaskStep

\* Every step keeps it.
LEMMA TriggeredStep ==
    ASSUME OrderInv, LifeInv, ResultsTriggered, [Next]_vars
    PROVE  ResultsTriggered'
  <1>1. TypeOK
    BY DEF OrderInv
  <1>2. ASSUME futures' = futures, Pipe' = Pipe
        PROVE  ResultsTriggered'
    BY <1>2 DEF ResultsTriggered
  <1>3. ASSUME futures' = futures, NEW m \in PlannerMessage, m \notin Untriggered,
               PushPlanner(m), manager' = manager
        PROVE  ResultsTriggered'
    <2>1. Pipe' = Append(Pipe, m)
      BY <1>1, <1>3, PipePush
    <2> QED
      BY <1>1, <1>3, <2>1, TriggeredPush DEF ResultsTriggered
  <1>4. CASE UserStep /\ UNCHANGED plannerVars
    BY <1>2, <1>4 DEF UserStep, Begin, Submit, taskVars, plannerVars, Pipe
  <1>5. CASE ExecutorStep /\ UNCHANGED plannerVars
    <2>1. manager' = manager
      BY <1>5 DEF plannerVars
    <2>2. CASE HandleRegister
      <3>1. PICK h \in ExecutorMessage : h = Head(executor_messages) /\ h.type = "Register"
        BY <1>1, <2>2, ExecutorHead DEF HandleRegister
      <3>2. h.id \in Transactions
        BY <3>1 DEF ExecutorMessage, RegisterMessage, ExecuteMessage, StartUpdateMessage,
           FinalizeMessage
      <3>3. Start(h.id) \in PlannerMessage /\ Start(h.id) \notin Untriggered
        BY <3>2, MessageTypes DEF Start, Untriggered, UpdateMessage
      <3>4. PushPlanner(Start(h.id)) /\ futures' = futures
        BY <2>2, <3>1 DEF HandleRegister, taskVars
      <3> QED
        BY <1>3, <2>1, <3>3, <3>4
    <2>3. CASE HandleExecute
      <3>1. PICK h \in ExecutorMessage : h = Head(executor_messages) /\ h.type = "Execute"
        BY <1>1, <2>3, ExecutorHead DEF HandleExecute
      <3>2. PICK t \in Transactions : t = h.id
        BY <3>1 DEF ExecutorMessage, RegisterMessage, ExecuteMessage, StartUpdateMessage,
           FinalizeMessage
      <3>3. targets[t] \in SUBSET Clusters /\ {} \in SUBSET Clusters
        BY <1>1 DEF TypeOK
      <3>4. Update(t, {}, targets[t], {}) \in PlannerMessage
        BY <3>3, MessageTypes
      <3>5. Update(t, {}, targets[t], {}) \notin Untriggered
        BY DEF Update, Untriggered, Initial
      <3>6. PushPlanner(Update(t, {}, targets[t], {})) /\ futures' = futures
        BY <2>3, <3>1, <3>2 DEF HandleExecute, taskVars
      <3> QED
        BY <1>3, <2>1, <3>4, <3>5, <3>6
    <2>4. CASE HandleStartUpdate
      BY <1>2, <2>1, <2>4 DEF HandleStartUpdate, Pipe
    <2>5. CASE HandleFinalize
      <3>1. /\ futures' = futures
            /\ \/ planner_messages' = planner_messages
               \/ \E t \in Transactions : PushPlanner(Finish(t))
        BY <1>1, <2>5, FinalizeStep DEF TypeOK
      <3>2. \A t \in Transactions : Finish(t) \in PlannerMessage /\ Finish(t) \notin Untriggered
        BY MessageTypes DEF Finish, Untriggered, UpdateMessage
      <3>3. planner_messages' = planner_messages => Pipe' = Pipe
        BY <2>1 DEF Pipe
      <3> QED
        BY <1>2, <1>3, <2>1, <3>1, <3>2, <3>3
    <2> QED
      BY <1>5, <2>2, <2>3, <2>4, <2>5 DEF ExecutorStep
  <1>6. CASE WorkerStep /\ UNCHANGED plannerVars
    <2>1. CASE TakeTask
      BY <1>2, <1>6, <2>1 DEF TakeTask, plannerVars, Pipe
    <2> QED
      BY <1>1, <1>6, <2>1, TaskTriggered DEF WorkerStep
  <1>7. CASE ManagerStep /\ UNCHANGED executorVars
    <2>1. futures' = futures
      BY <1>7 DEF executorVars, taskVars
    <2>2. CASE ManagerStop
      BY <1>1, <1>2, <2>1, <2>2, PipeStop
    <2>3. CASE ManagerStart \/ ManagerRefresh
      <3>1. Pipe # <<>> /\ Pipe' = Tail(Pipe)
        BY <1>1, <2>3, PipePop
      <3>2. \A S : Has(Pipe', S) => Has(Pipe, S)
        BY <1>1, <3>1, PipeType, HasPop
      <3> QED
        BY <2>1, <3>2 DEF ResultsTriggered, Triggered, Untriggered, Initial
    <2> QED
      BY <1>7, <2>2, <2>3 DEF ManagerStep
  <1>8. CASE PlannerStep /\ UNCHANGED executorVars
    BY <1>2, <1>8, PlannerPushes DEF LifeInv, executorVars, taskVars, Pipe
  <1>9. CASE UNCHANGED vars
    BY <1>2, <1>9 DEF vars, plannerVars, executorVars, taskVars, Pipe
  <1> QED
    BY <1>4, <1>5, <1>6, <1>7, <1>8, <1>9 DEF Next, Rest

\* What an initialized transaction has left to do is in the deque, or was triggered
\* by what is.
LEMMA Upstream ==
    ASSUME OrderInv, LifeInv, ReportInv, ResultsTriggered,
           NEW s \in Transactions, Initialized(s), NEW d \in Clusters, Active(s, d)
    PROVE  \/ HasFuture(s, d) \/ HasNow(s, d)
           \/ \E e \in Clusters :
                (HasFuture(s, e) \/ HasNow(s, e)) /\ d \in Triggered(e)
  <1>1. Life(s, d) /\ ~Waiting(Execute(s))
    BY InitializedHeld DEF ReportInv, Lives
  <1>2. \/ HasFuture(s, d) \/ HasNow(s, d) \/ FutureSent(s, d)
        \/ \E e \in Clusters : d \in futures[s][e]
    BY <1>1 DEF Active, Life, Unreported
  <1>3. ASSUME NEW e \in Clusters, d \in futures[s][e]
        PROVE  (HasFuture(s, e) \/ HasNow(s, e)) /\ d \in Triggered(e)
    <2>1. d \in Triggered(e)
      BY <1>3 DEF ResultsTriggered
    <2>2. task[s][e] = "registered"
      BY <1>3 DEF ReportInv, FuturesApart
    <2> QED
      BY <2>1, <2>2, TaskKnown DEF Active
  <1>4. ASSUME FutureSent(s, d)
        PROVE  \E e \in Clusters :
                 (HasFuture(s, e) \/ HasNow(s, e)) /\ d \in Triggered(e)
    <2>1. PICK i \in 1 .. Len(Pipe) : Pipe[i] \in UpdatesOf(s) /\ d \in Pipe[i].future
      BY <1>4 DEF FutureSent, Has
    <2>2. PICK m \in UpdateMessage : m = Pipe[i] /\ m.id = s /\ d \in m.future
      BY <2>1 DEF UpdatesOf
    <2>3. ~Initial(m)
      <3>1. ~InitialSent(s)
        BY DEF LifeInv, Lifetimes, Lifetime
      <3> QED
        BY <2>1, <2>2, <3>1 DEF InitialSent, Has
    <2>4. m \notin Untriggered
      BY <2>2 DEF ResultsTriggered, Has
    <2>5. PICK e \in m.finish : m.future \subseteq Triggered(e)
      BY <2>2, <2>3, <2>4 DEF Untriggered
    <2>6. e \in Clusters
      BY <2>5 DEF UpdateMessage
    <2>7. FinishSent(s, e)
      BY <2>1, <2>2, <2>5 DEF FinishSent, Has
    <2>8. HasFuture(s, e) \/ HasNow(s, e)
      BY <2>6, <2>7 DEF ReportInv, Lives, Life
    <2> QED
      BY <2>2, <2>5, <2>6, <2>8
  <1> QED
    BY <1>2, <1>3, <1>4


-----------------------------------------------------------------------------
(* The planner's pass.                                                     *)

\* What the planner bars it goes on to bar, as its target falls.
LEMMA BarsMore ==
    ASSUME NEW p \in PlannerPcs, NEW q \in PlannerPcs, p.pc # "stopped", q.pc # "stopped",
           q.target <= p.target, q.target = p.target => p.used \subseteq q.used,
           NEW d \in Clusters, Bars(p, d)
    PROVE  Bars(q, d)
  <1>1. p.target \in Nat /\ q.target \in Nat /\ Rank[d] \in Nat
    BY PlannerTypes, PlannerAssumption, RankAssumption
  <1> QED
    BY <1>1 DEF Bars

\* The planner thread's steps.
LEMMA PlannerBarsStep ==
    ASSUME OrderInv, OrderInv', LifeInv, PlannerBars, PlannerStep
    PROVE  PlannerBars'
  <1> DEFINE states == transaction_states
  <1>1. TypeOK /\ TypeOK' /\ states' = states /\ states \in Seq(TransactionState)
    BY PlannerPushes DEF OrderInv, LifeInv, TypeOK
  <1>2. planner \in PlannerPcs /\ planner' \in PlannerPcs
    BY <1>1 DEF TypeOK, PlannerPcs
  <1>3. \A k \in 1 .. Len(states) : states[k].future \subseteq Clusters
                                    /\ states[k].now \subseteq Clusters
    <2>1. \A k \in 1 .. Len(states) : states[k] \in TransactionState
      BY <1>1
    <2> HIDE DEF states
    <2> QED
      BY <2>1 DEF TransactionState
  <1>4. ASSUME planner.pc # "stopped", planner'.pc # "stopped", planner'.i = planner.i,
               planner'.target <= planner.target,
               planner'.target = planner.target => planner.used \subseteq planner'.used
        PROVE  \A k \in 1 .. (planner'.i - 1) :
                 /\ k <= Len(states)
                 /\ states[k].initialized
                 /\ \A d \in states[k].future \cup states[k].now : Bars(planner', d)
    <2> SUFFICES ASSUME NEW k \in 1 .. (planner.i - 1)
                 PROVE  /\ k <= Len(states)
                        /\ states[k].initialized
                        /\ \A d \in states[k].future \cup states[k].now : Bars(planner', d)
      BY <1>4
    <2>1. /\ k <= Len(states)
          /\ states[k].initialized
          /\ \A d \in states[k].future \cup states[k].now : Bars(planner, d)
      BY <1>4 DEF PlannerBars
    <2>2. planner.i \in Nat
      BY <1>2, <1>4, PlannerTypes
    <2>3. k \in 1 .. Len(states)
      BY <1>1, <2>1, <2>2
    <2> QED
      BY <1>2, <1>3, <1>4, <2>1, <2>3, BarsMore
  <1>5. CASE planner' = Stopped
    BY <1>5 DEF PlannerBars, Stopped
  <1>6. CASE RankVisit
    <2> DEFINE s == states[planner.i]
               lower == {r \in Ranks : r < planner.target /\ OfRank(s.now, r) # {}}
    <2>1. /\ UseParallelExecution /\ planner.pc = "visiting" /\ CanVisit
          /\ planner.i \in 1 .. Len(states)
      BY <1>1, <1>2, <1>6, PlannerTypes DEF RankVisit, CanVisit
    <2>2. PICK target \in lower \cup {planner.target} :
            /\ \A r \in lower : target <= r
            /\ planner' = Assigning(planner.i, target,
                            (IF target = planner.target THEN planner.used ELSE {})
                              \cup OfRank(s.now, target),
                            s.future)
      BY <1>6 DEF RankVisit
    <2>3. /\ planner'.pc = "assigning" /\ planner'.i = planner.i /\ planner'.target = target
          /\ planner'.used = (IF target = planner.target THEN planner.used ELSE {})
                               \cup OfRank(s.now, target)
          /\ planner'.todo = s.future
      BY <2>2 DEF Assigning
    <2>4. planner.target \in Nat /\ target \in Nat /\ target <= planner.target
      <3>1. planner.target \in Nat
        BY <1>2, <2>1, PlannerTypes, PlannerAssumption
      <3>2. \A r \in Ranks : r \in Nat
        BY RankAssumption DEF Ranks
      <3> QED
        BY <3>1, <3>2
    <2>5. ASSUME NEW d \in s.now
          PROVE  Bars(planner', d)
      <3>1. d \in Clusters /\ Rank[d] \in Nat /\ Rank[d] \in Ranks
        BY <1>3, <2>1, RankAssumption DEF Ranks
      <3>2. d \in OfRank(s.now, Rank[d])
        BY DEF OfRank
      <3>3. target <= Rank[d]
        BY <2>2, <2>4, <3>1, <3>2
      <3>4. target = Rank[d] => d \in planner'.used
        BY <2>3, <3>2
      <3> QED
        BY <2>3, <2>4, <3>1, <3>3, <3>4 DEF Bars
    <2>6. \A k \in 1 .. (planner'.i - 1) :
            /\ k <= Len(states)
            /\ states[k].initialized
            /\ \A d \in states[k].future \cup states[k].now : Bars(planner', d)
      <3>1. planner'.target = planner.target => planner.used \subseteq planner'.used
        BY <2>3
      <3> QED
        BY <1>4, <2>1, <2>3, <2>4, <3>1
    <2>7. \A d \in (s.future \ planner'.todo) \cup s.now : Bars(planner', d)
      BY <2>3, <2>5
    <2> QED
      BY <1>1, <2>1, <2>3, <2>6, <2>7 DEF PlannerBars
  <1>7. CASE RankAssign
    <2>1. PICK c \in Clusters :
            /\ IsNext(c)
            /\ Rank[c] <= planner.target
            /\ planner' = Assigning(planner.i, Rank[c],
                                    (IF Rank[c] < planner.target THEN {} ELSE planner.used)
                                      \cup {c},
                                    planner.todo \ {c})
      BY <1>7 DEF RankAssign
    <2>2. /\ planner.pc = "assigning" /\ planner.i \in 1 .. Len(states)
          /\ planner.todo \subseteq states[planner.i].future
      BY <1>7 DEF RankAssign, LifeInv, PlannerAssigns
    <2>3. /\ planner'.pc = "assigning" /\ planner'.i = planner.i /\ planner'.target = Rank[c]
          /\ planner'.used = (IF Rank[c] < planner.target THEN {} ELSE planner.used) \cup {c}
          /\ planner'.todo = planner.todo \ {c}
      BY <2>1 DEF Assigning
    <2>4. planner.target \in Nat /\ Rank[c] \in Nat
      BY <1>2, <2>2, PlannerTypes, PlannerAssumption, RankAssumption
    <2>5. /\ planner'.target <= planner.target
          /\ planner'.target = planner.target => planner.used \subseteq planner'.used
      <3>1. CASE Rank[c] < planner.target
        BY <2>3, <2>4, <3>1
      <3>2. CASE Rank[c] = planner.target
        BY <2>3, <2>4, <3>2
      <3> QED
        BY <2>1, <2>4, <3>1, <3>2
    <2>6. \A k \in 1 .. (planner'.i - 1) :
            /\ k <= Len(states)
            /\ states[k].initialized
            /\ \A d \in states[k].future \cup states[k].now : Bars(planner', d)
      BY <1>4, <2>2, <2>3, <2>5
    <2>7. ASSUME NEW d \in (states[planner.i].future \ planner'.todo) \cup states[planner.i].now
          PROVE  Bars(planner', d)
      <3>1. CASE d = c
        BY <2>3, <3>1 DEF Bars
      <3>2. CASE d # c
        <4>1. Bars(planner, d)
          BY <2>2, <2>3, <2>7, <3>2 DEF PlannerBars
        <4>2. d \in Clusters
          BY <1>3, <2>2
        <4> QED
          BY <1>2, <2>2, <2>3, <2>5, <4>1, <4>2, BarsMore
      <3> QED
        BY <3>1, <3>2
    <2>8. UseParallelExecution
      BY <2>2 DEF PlannerBars
    <2> QED
      BY <1>1, <2>3, <2>6, <2>7, <2>8 DEF PlannerBars
  <1>8. CASE RankSkip
    <2>1. PICK c \in Clusters :
            /\ IsNext(c)
            /\ Bars(planner, c)
            /\ planner' = [planner EXCEPT !.todo = planner.todo \ {c}]
      BY <1>8 DEF RankSkip, Bars
    <2>2. planner.pc = "assigning" /\ planner.i \in 1 .. Len(states)
      BY <1>8 DEF RankSkip, LifeInv, PlannerAssigns
    <2>3. planner \in [pc : {"assigning"}, i : Nat \ {0}, target : 0 .. NoRank,
                       used : SUBSET Clusters, todo : SUBSET Clusters]
      BY <1>1, <2>2 DEF TypeOK
    <2>4. /\ planner'.pc = "assigning" /\ planner'.i = planner.i
          /\ planner'.target = planner.target /\ planner'.used = planner.used
          /\ planner'.todo = planner.todo \ {c}
      BY <2>1, <2>3
    <2>5. planner.target \in Nat
      BY <2>3, PlannerAssumption
    <2>6. \A k \in 1 .. (planner'.i - 1) :
            /\ k <= Len(states)
            /\ states[k].initialized
            /\ \A d \in states[k].future \cup states[k].now : Bars(planner', d)
      BY <1>4, <2>2, <2>4, <2>5
    <2>7. \A d : Bars(planner, d) => Bars(planner', d)
      BY <2>4 DEF Bars
    <2>8. \A d \in (states[planner.i].future \ planner'.todo) \cup states[planner.i].now :
            Bars(planner', d)
      BY <2>1, <2>2, <2>4, <2>7 DEF PlannerBars
    <2>9. UseParallelExecution
      BY <2>2 DEF PlannerBars
    <2> QED
      BY <1>1, <2>4, <2>6, <2>8, <2>9 DEF PlannerBars
  <1>9. CASE RankNext
    <2>1. /\ planner.pc = "assigning" /\ planner.i \in 1 .. Len(states)
          /\ states[planner.i].initialized
      BY <1>9 DEF RankNext, LifeInv, PlannerAssigns
    <2>2. planner.todo = {} /\ planner' = Visiting(planner.i + 1, planner.target, planner.used)
      BY <1>9 DEF RankNext
    <2>3. /\ planner'.pc = "visiting" /\ planner'.i = planner.i + 1
          /\ planner'.target = planner.target /\ planner'.used = planner.used
      BY <2>2 DEF Visiting
    <2>4. \A d : Bars(planner, d) => Bars(planner', d)
      BY <2>3 DEF Bars
    <2>5. ASSUME NEW k \in 1 .. (planner'.i - 1)
          PROVE  /\ k <= Len(states)
                 /\ states[k].initialized
                 /\ \A d \in states[k].future \cup states[k].now : Bars(planner', d)
      <3>1. k \in 1 .. (planner.i - 1) \/ k = planner.i
        BY <1>1, <2>1, <2>3
      <3>2. CASE k \in 1 .. (planner.i - 1)
        BY <2>1, <2>4, <3>2 DEF PlannerBars
      <3>3. CASE k = planner.i
        BY <1>1, <2>1, <2>2, <2>4, <3>3 DEF PlannerBars
      <3> QED
        BY <3>1, <3>2, <3>3
    <2> QED
      BY <1>1, <2>3, <2>5 DEF PlannerBars
  <1> QED
    BY <1>5, <1>6, <1>7, <1>8, <1>9
       DEF PlannerStep, SimpleFinalize, SimpleAssign, SimpleReturn, RankReturn

\* So does every other step: while the planner thread runs the deque only grows.
LEMMA BarsStep ==
    ASSUME OrderInv, OrderInv', LifeInv, PlannerBars, [Next]_vars
    PROVE  PlannerBars'
  <1>1. TypeOK /\ transaction_states \in Seq(TransactionState)
    BY DEF OrderInv, TypeOK
  <1>2. CASE ManagerStart
    <2>1. planner' = planner
          /\ \E s : transaction_states' = Append(transaction_states, s)
      BY <1>2, StartStep
    <2>2. /\ Len(transaction_states) \in Nat
          /\ Len(transaction_states') = Len(transaction_states) + 1
          /\ \A k \in 1 .. Len(transaction_states) :
               transaction_states'[k] = transaction_states[k]
      BY <1>1, <2>1
    <2>3. planner.pc = "assigning" => planner.i \in 1 .. Len(transaction_states)
      BY DEF LifeInv, PlannerAssigns
    <2>4. planner.pc # "stopped" => planner.i \in Nat
      BY <1>1, PlannerTypes DEF TypeOK, PlannerPcs
    <2>5. planner.pc # "stopped" =>
            \A k \in 1 .. (planner.i - 1) : k \in 1 .. Len(transaction_states)
                                            /\ k <= Len(transaction_states')
      BY <2>2, <2>4 DEF PlannerBars
    <2> QED
      BY <2>1, <2>2, <2>3, <2>5 DEF PlannerBars
  <1>3. CASE ManagerRefresh
    <2>1. planner' = Visiting(1, NoRank, {})
      BY <1>3 DEF ManagerRefresh, StartPlanning
    <2>2. planner'.pc = "visiting" /\ planner'.i = 1
      BY <2>1 DEF Visiting
    <2> QED
      BY <2>2 DEF PlannerBars
  <1>4. CASE transaction_states' = transaction_states /\ planner' = planner
    BY <1>4 DEF PlannerBars
  <1> QED
    BY <1>2, <1>3, <1>4, DequeSteps, PlannerBarsStep


-----------------------------------------------------------------------------
(* What the planner thread proposes.                                       *)

\* A transaction that is over has nothing left to do.
LEMMA OverIdle ==
    ASSUME ReportInv, NEW s \in Transactions, status[s] = "done"
    PROVE  \A d \in Clusters : ~Active(s, d)
  BY DEF ReportInv, ClosedOver, Over, Active

\* A cluster of the k-th transaction overtakes no older one, if none of the states
\* before the k-th has a cluster of smaller rank, or that cluster.
LEMMA PassedFrom ==
    ASSUME RankOrder, OrderInv, LifeInv, ReportInv, ResultsTriggered,
           NEW k \in 1 .. Len(transaction_states), NEW c \in Clusters,
           \A j \in 1 .. (k - 1) :
             /\ transaction_states[j].initialized
             /\ \A d \in transaction_states[j].future \cup transaction_states[j].now :
                  Rank[c] <= Rank[d] /\ d # c
    PROVE  Passed(transaction_states[k].transaction_id, c)
  <1> DEFINE states == transaction_states
  <1>1. /\ TypeOK /\ Deque(states) /\ states \in Seq(TransactionState) /\ Len(states) \in Nat
        /\ states # <<>> /\ 1 \in 1 .. Len(states)
    BY Deques DEF OrderInv, TypeOK, ConsecutiveIds, FrontId, Deque
  <1>2. /\ \A j \in 1 .. Len(states) : states[j].transaction_id = FrontId + j - 1
        /\ FrontId \in Transactions /\ FrontId \in Nat
    <2>1. states[1].transaction_id \in Transactions
      BY <1>1, ViewsAt
    <2> QED
      BY <1>1, <2>1, OlderTransactions DEF Deque, FrontId
  <1> SUFFICES ASSUME NEW s \in 0 .. (states[k].transaction_id - 1)
               PROVE  /\ Reached(s)
                      /\ \A d \in Clusters : Active(s, d) => Rank[c] <= Rank[d] /\ d # c
    BY DEF Passed
  <1>3. s \in Transactions
    BY <1>1, ViewsAt, OlderTransactions
  <1>4. CASE s < FrontId
    <2>1. status[s] = "done"
      BY <1>1, <1>2, <1>4 DEF OrderInv, FrontOldest
    <2> QED
      BY <1>3, <2>1, OverIdle DEF Reached
  <1>5. CASE FrontId <= s
    <2>1. s - FrontId + 1 \in 1 .. (k - 1) /\ s - FrontId + 1 \in 1 .. Len(states)
      BY <1>1, <1>2, <1>5
    <2>2. PICK j \in 1 .. (k - 1) : j = s - FrontId + 1
      BY <2>1
    <2>3. j \in 1 .. Len(states) /\ states[j].transaction_id = s
      <3>1. j \in 1 .. Len(states)
        BY <2>1, <2>2
      <3>2. states[j].transaction_id = FrontId + j - 1
        BY <1>2, <3>1
      <3>3. FrontId \in Nat /\ s \in Nat
        BY <1>2, <1>3, OlderTransactions
      <3>4. FrontId + j - 1 = s
        BY <2>2, <3>3
      <3> QED
        BY <3>1, <3>2, <3>4
    <2>4. /\ Initialized(s) <=> states[j].initialized
          /\ \A d : /\ HasFuture(s, d) <=> d \in states[j].future
                    /\ HasNow(s, d) <=> d \in states[j].now
      BY <1>1, <2>3, ViewsAt
    <2>5. Initialized(s)
      BY <2>2, <2>4
    <2>6. \A d : HasFuture(s, d) \/ HasNow(s, d) => Rank[c] <= Rank[d] /\ d # c
      BY <2>2, <2>4
    <2>7. ASSUME NEW d \in Clusters, Active(s, d)
          PROVE  Rank[c] <= Rank[d] /\ d # c
      <3>1. CASE HasFuture(s, d) \/ HasNow(s, d)
        BY <2>6, <3>1
      <3>2. ASSUME NEW e \in Clusters, HasFuture(s, e) \/ HasNow(s, e), d \in Triggered(e)
            PROVE  Rank[c] <= Rank[d] /\ d # c
        <4>1. Rank[c] <= Rank[e] /\ Rank[e] < Rank[d]
          BY <2>6, <3>2 DEF RankOrder, Feeds
        <4>2. Rank[c] \in Nat /\ Rank[d] \in Nat /\ Rank[e] \in Nat
          BY RankAssumption
        <4> QED
          BY <4>1, <4>2
      <3> QED
        BY <1>3, <2>5, <2>7, <3>1, <3>2, Upstream
    <2> QED
      BY <2>5, <2>7 DEF Reached
  <1> QED
    BY <1>2, <1>3, <1>4, <1>5, OlderTransactions

\* No cluster that c depends on has anything left to do, if none is in the state.
LEMMA FedFrom ==
    ASSUME OrderInv, LifeInv, ReportInv, ResultsTriggered,
           NEW k \in 1 .. Len(transaction_states), transaction_states[k].initialized,
           NEW c \in Clusters,
           \A d \in transaction_states[k].future \cup transaction_states[k].now :
             ~DependsOn(c, d)
    PROVE  Fed(transaction_states[k].transaction_id, c)
  <1> DEFINE t == transaction_states[k].transaction_id
  <1>1. Deque(transaction_states)
    BY DEF OrderInv, TypeOK, ConsecutiveIds, FrontId, Deque
  <1>2. /\ t \in Transactions /\ Initialized(t)
        /\ \A d : HasFuture(t, d) \/ HasNow(t, d) => ~DependsOn(c, d)
    BY <1>1, ViewsAt
  <1> SUFFICES ASSUME NEW d \in Clusters, Active(t, d)
               PROVE  ~DependsOn(c, d)
    BY DEF Fed
  <1> HIDE DEF t
  <1>3. CASE HasFuture(t, d) \/ HasNow(t, d)
    BY <1>2, <1>3
  <1>4. ASSUME NEW e \in Clusters, HasFuture(t, e) \/ HasNow(t, e), d \in Triggered(e)
        PROVE  ~DependsOn(c, d)
    BY <1>2, <1>4, Dependence DEF Feeds
  <1> QED
    BY <1>2, <1>3, <1>4, Upstream

\* What is pushed can be told from what is not.
LEMMA Appended ==
    ASSUME NEW M, NEW q \in Seq(M), NEW a, NEW b
    PROVE  Append(q, a) # q /\ (Append(q, a) = Append(q, b) => a = b)
  <1>1. /\ Len(q) \in Nat
        /\ Len(Append(q, a)) = Len(q) + 1
        /\ Append(q, a)[Len(q) + 1] = a
        /\ Append(q, b)[Len(q) + 1] = b
    OBVIOUS
  <1> QED
    BY <1>1

\* simple_planner proposes a cluster of smallest rank of the oldest transaction,
\* while that one is updating none.
LEMMA SimpleChoice ==
    ASSUME RankOrder, OrderInv, LifeInv, ReportInv, CountsExact, ResultsTriggered,
           SimpleMayPlan, NEW c \in Clusters, Least(transaction_states[1], c)
    PROVE  Passed(FrontId, c) /\ Fed(FrontId, c)
  <1> DEFINE s == transaction_states[1]
  <1>1. /\ transaction_states \in Seq(TransactionState) /\ 1 \in 1 .. Len(transaction_states)
        /\ s \in TransactionState /\ s.initialized /\ s.now = {}
    BY DEF OrderInv, TypeOK, SimpleMayPlan
  <1>2. Passed(FrontId, c)
    <2>1. \A j \in 1 .. (1 - 1) :
            /\ transaction_states[j].initialized
            /\ \A d \in transaction_states[j].future \cup transaction_states[j].now :
                 Rank[c] <= Rank[d] /\ d # c
      OBVIOUS
    <2> QED
      BY <1>1, <2>1, PassedFrom DEF FrontId
  <1>3. ASSUME NEW d \in s.future, DependsOn(c, d)
        PROVE  FALSE
    <2>1. d \in Clusters /\ Rank[d] \in Ranks /\ Rank[d] \in Nat
      BY <1>1, RankAssumption DEF TransactionState, Ranks
    <2>2. Rank[d] < Rank[c]
      BY <1>3, <2>1, DependsAbove
    <2>3. s.target_ranks[Rank[d]] = 0
      BY <2>1, <2>2 DEF Least
    <2>4. Cardinality(OfRank(s.future \cup s.now, Rank[d])) = 0
      BY <1>1, <2>1, <2>3 DEF CountsExact, Counted
    <2>5. OfRank(s.future \cup s.now, Rank[d]) \in SUBSET Clusters
      BY <1>1 DEF OfRank, TransactionState
    <2>6. OfRank(s.future \cup s.now, Rank[d]) = {}
      BY <2>4, <2>5, ClustersAssumption, FS_Subset, FS_EmptySet
    <2> QED
      BY <2>6 DEF OfRank
  <1>4. Fed(FrontId, c)
    <2>1. \A d \in s.future \cup s.now : ~DependsOn(c, d)
      BY <1>1, <1>3
    <2> QED
      BY <1>1, <2>1, FedFrom DEF FrontId
  <1> QED
    BY <1>2, <1>4

\* rank_based_planner proposes a cluster that the older transactions do not bar, and
\* for IDs that follow the edges none its own transaction has work before.
LEMMA RankChoice ==
    ASSUME RankOrder, OrderInv, LifeInv, ReportInv, ResultsTriggered, PlannerBars,
           planner.pc = "assigning", NEW c \in Clusters, IsNext(c),
           Rank[c] <= planner.target, Rank[c] < planner.target \/ c \notin planner.used
    PROVE  LET t == transaction_states[planner.i].transaction_id
           IN  Passed(t, c) /\ (IdOrder => Fed(t, c))
  <1> DEFINE states == transaction_states
  <1>1. /\ states \in Seq(TransactionState)
        /\ planner.i \in 1 .. Len(states) /\ states[planner.i].initialized
        /\ planner.target \in Nat /\ Rank[c] \in Nat
        /\ planner.todo \subseteq Clusters
    BY PlannerTypes, PlannerAssumption, RankAssumption
       DEF OrderInv, TypeOK, PlannerPcs, LifeInv, PlannerAssigns
  <1>2. \A k \in 1 .. Len(states) : states[k].future \cup states[k].now \subseteq Clusters
    <2>1. \A k \in 1 .. Len(states) : states[k] \in TransactionState
      BY <1>1
    <2> HIDE DEF states
    <2> QED
      BY <2>1 DEF TransactionState
  <1>3. ASSUME NEW d \in Clusters, Bars(planner, d)
        PROVE  Rank[c] <= Rank[d] /\ d # c
    <2>1. Rank[d] \in Nat
      BY RankAssumption
    <2> QED
      BY <1>1, <1>3, <2>1 DEF Bars
  <1>4. Passed(states[planner.i].transaction_id, c)
    <2>1. ASSUME NEW j \in 1 .. (planner.i - 1)
          PROVE  /\ states[j].initialized
                 /\ \A d \in states[j].future \cup states[j].now : Rank[c] <= Rank[d] /\ d # c
      <3>1. j \in 1 .. Len(states)
        BY <1>1
      <3> QED
        BY <1>2, <1>3, <3>1 DEF PlannerBars
    <2> QED
      BY <1>1, <2>1, PassedFrom
  <1>5. ASSUME IdOrder, NEW d \in states[planner.i].future \cup states[planner.i].now,
               DependsOn(c, d)
        PROVE  FALSE
    <2>1. d \in Clusters /\ Rank[d] < Rank[c] /\ d < c
      BY <1>1, <1>2, <1>5, DependsAbove
    <2>2. Rank[d] \in Nat /\ d \in Nat /\ c \in Nat
      BY <2>1, RankAssumption, ClustersAssumption
    <2>3. CASE d \in planner.todo
      BY <2>1, <2>2, <2>3 DEF IsNext
    <2>4. CASE d \notin planner.todo
      <3>1. Bars(planner, d)
        BY <1>5, <2>4 DEF PlannerBars
      <3> QED
        BY <1>1, <1>3, <2>1, <2>2, <3>1
    <2> QED
      BY <2>3, <2>4
  <1>6. IdOrder => Fed(states[planner.i].transaction_id, c)
    BY <1>1, <1>5, FedFrom
  <1> QED
    BY <1>4, <1>6

\* Whatever cluster the planner thread proposes.
LEMMA Choice ==
    ASSUME RankOrder, OrderInv, LifeInv, ReportInv, CountsExact, ResultsTriggered, PlannerBars,
           PlannerStep, NEW t \in Transactions, NEW c \in Clusters,
           executor_messages' = Append(executor_messages, StartUpdate(t, c))
    PROVE  Passed(t, c) /\ ((UseParallelExecution => IdOrder) => Fed(t, c))
  <1>1. executor_messages \in Seq(ExecutorMessage)
    BY DEF OrderInv, TypeOK
  <1>2. executor_messages' # executor_messages
    BY <1>1, Appended
  <1>3. \A m : executor_messages' = Append(executor_messages, m) => m = StartUpdate(t, c)
    BY <1>1, Appended
  <1>4. \A u : Finalize(u) # StartUpdate(t, c)
    BY DEF Finalize, StartUpdate
  <1>5. CASE SimpleFinalize
    BY <1>3, <1>4, <1>5 DEF SimpleFinalize, PushExecutor
  <1>6. CASE SimpleAssign
    <2>1. PICK d \in Clusters : /\ Least(transaction_states[1], d)
                                /\ StartUpdate(FrontId, d) = StartUpdate(t, c)
      BY <1>3, <1>6 DEF SimpleAssign, PushExecutor
    <2>2. FrontId = t /\ d = c
      BY <2>1, ProposalsDiffer
    <2> QED
      BY <1>6, <2>1, <2>2, SimpleChoice DEF SimpleAssign
  <1>7. CASE RankAssign
    <2>1. PICK d \in Clusters :
            /\ IsNext(d)
            /\ Rank[d] <= planner.target
            /\ Rank[d] < planner.target \/ d \notin planner.used
            /\ StartUpdate(transaction_states[planner.i].transaction_id, d) = StartUpdate(t, c)
      BY <1>3, <1>7 DEF RankAssign, PushExecutor
    <2>2. transaction_states[planner.i].transaction_id = t /\ d = c
      BY <2>1, ProposalsDiffer
    <2>3. planner.pc = "assigning" /\ UseParallelExecution
      BY <1>7 DEF RankAssign, PlannerBars
    <2> QED
      BY <2>1, <2>2, <2>3, RankChoice
  <1>8. CASE RankNext
    <2>1. \/ executor_messages' = executor_messages
          \/ \E u : executor_messages' = Append(executor_messages, Finalize(u))
      BY <1>8 DEF RankNext, PushExecutor
    <2> QED
      BY <1>2, <1>3, <1>4, <2>1
  <1>9. CASE SimpleReturn \/ RankReturn \/ RankVisit \/ RankSkip
    BY <1>2, <1>9 DEF SimpleReturn, RankReturn, RankVisit, RankSkip
  <1> QED
    BY <1>5, <1>6, <1>7, <1>8, <1>9 DEF PlannerStep


-----------------------------------------------------------------------------
(* The invariants.                                                         *)

\* What lets no transaction get ahead of an older one: the planner's bars, and
\* that what is triggered comes later in the graph.
PriorityInv ==
    /\ ResultsTriggered
    /\ PlannerBars
    /\ OlderPassed

\* Every transaction with a chosen cluster, or one that is about to be chosen,
\* has been submitted.
LEMMA ChosenOpen ==
    ASSUME OrderInv, OrderInv', LifeInv, ReportInv, [Next]_vars,
           NEW t \in Transactions, NEW c \in Clusters, Chosen(t, c)'
    PROVE  /\ status[t] # "open"
           /\ \/ Chosen(t, c)
              \/ /\ PlannerStep
                 /\ executor_messages' = Append(executor_messages, StartUpdate(t, c))
  <1>1. \/ Chosen(t, c)
        \/ /\ PlannerStep
           /\ executor_messages' = Append(executor_messages, StartUpdate(t, c))
    BY Moves DEF Chosen
  <1>2. CASE Chosen(t, c)
    <2>1. Reached(t)
      BY <1>2 DEF Chosen, LifeInv, Lifetimes, Lifetime, Proposed, Reached
    <2> QED
      BY <1>1, <2>1, ReachedStep
  <1>3. CASE PlannerStep /\ executor_messages' = Append(executor_messages, StartUpdate(t, c))
    <2>1. executor_messages \in Seq(ExecutorMessage)
      BY DEF OrderInv, TypeOK
    <2>2. /\ executor_messages' # executor_messages
          /\ \A m : executor_messages' = Append(executor_messages, m) => m = StartUpdate(t, c)
      BY <1>3, <2>1, Appended
    <2>3. Planned(StartUpdate(t, c))
      BY <1>3, <2>2, PlannerPushes DEF LifeInv
    <2>4. Initialized(t)
      BY <2>3, ProposalsDiffer DEF Planned
    <2> QED
      BY <1>1, <2>4, ReachedStep DEF Reached
  <1> QED
    BY <1>1, <1>2, <1>3

\* Every step keeps the order of the transactions.
LEMMA PriorityStep ==
    ASSUME RankOrder, OrderInv, OrderInv', LifeInv, ReportInv, CountsExact, PriorityInv,
           [Next]_vars
    PROVE  PriorityInv'
  <1>1. ResultsTriggered'
    BY TriggeredStep DEF PriorityInv
  <1>2. PlannerBars'
    BY BarsStep DEF PriorityInv
  <1>3. ASSUME NEW t \in Transactions, NEW c \in Clusters, Chosen(t, c)'
        PROVE  Passed(t, c)'
    <2>1. CASE Chosen(t, c)
      BY <2>1, PassedStep DEF PriorityInv, OlderPassed
    <2>2. CASE /\ PlannerStep
               /\ executor_messages' = Append(executor_messages, StartUpdate(t, c))
      <3>1. Passed(t, c)
        BY <2>2, Choice DEF PriorityInv
      <3> QED
        BY <3>1, PassedStep
    <2> QED
      BY <1>3, <2>1, <2>2, ChosenOpen
  <1> QED
    BY <1>1, <1>2, <1>3 DEF PriorityInv, OlderPassed

\* At the start nothing is chosen.
LEMMA PriorityInit == Init => PriorityInv /\ ParentsFinished /\ UncopiedWaits
  <1> SUFFICES ASSUME Init PROVE PriorityInv /\ ParentsFinished /\ UncopiedWaits
    OBVIOUS
  <1> USE DEF Init, PlannerInit, ExecutorInit
  <1>1. Pipe = <<>> /\ \A S : ~Has(<<>>, S)
    BY DEF Pipe, Idle, Has
  <1>2. ResultsTriggered
    BY <1>1 DEF ResultsTriggered
  <1>3. PlannerBars
    BY DEF PlannerBars, Stopped
  <1>4. \A t \in Transactions, c \in Clusters : ~Chosen(t, c)
    BY <1>1 DEF Chosen, Waiting
  <1> QED
    BY <1>2, <1>3, <1>4 DEF PriorityInv, OlderPassed, ParentsFinished, UncopiedWaits

\* No transaction gets ahead of an older one.
LEMMA PriorityCorrect ==
    ASSUME RankOrder
    PROVE  Spec => [](OrderInv /\ LifeInv /\ ReportInv /\ CountsExact /\ PriorityInv)
  <1>1. OrderInv /\ OrderInv' /\ LifeInv /\ ReportInv /\ CountsExact /\ PriorityInv
          /\ [Next]_vars => PriorityInv'
    BY PriorityStep
  <1> QED
    BY <1>1, CountsCorrect, PriorityInit, PTL DEF Spec

\* A transaction that began to update a cluster overtook no older one there, if
\* ranks grow along the edges (used_clusters and target_rank, planner.cpp:271-322).
THEOREM OlderFirst ==
    ASSUME RankOrder
    PROVE  Spec => []NoOvertaking
  <1>1. OrderInv /\ LifeInv /\ ReportInv /\ PriorityInv => NoOvertaking
    <2> SUFFICES ASSUME OrderInv, LifeInv, ReportInv, PriorityInv,
                        NEW s \in Transactions, NEW t \in Transactions, s < t,
                        NEW c \in Clusters, Begun(t, c)
                 PROVE  /\ Submitted(s)
                        /\ ~Pending(s, c)
                        /\ \A e \in Edges : e[2] = c => ~Pending(s, e[1])
      BY DEF NoOvertaking
    <2>1. Passed(t, c)
      BY DEF Begun, Chosen, PriorityInv, OlderPassed
    <2>2. s \in 0 .. (t - 1)
      BY OlderTransactions
    <2>3. /\ Reached(s)
          /\ \A d \in Clusters : Active(s, d) => Rank[c] <= Rank[d] /\ d # c
      BY <2>1, <2>2 DEF Passed
    <2>4. Submitted(s)
      BY <2>3, InitializedHeld DEF Reached, Submitted, OrderInv, HeldWhileSubmitted
    <2>5. \A d : Pending(s, d) => Active(s, d)
      BY DEF Pending, Active
    <2>6. ASSUME NEW e \in Edges, e[2] = c
          PROVE  ~Pending(s, e[1])
      <3>1. e[1] \in Clusters /\ c \in Feeds(e[1])
        BY <2>6, GraphAssumption DEF Feeds
      <3>2. Rank[e[1]] < Rank[c] /\ Rank[e[1]] \in Nat /\ Rank[c] \in Nat
        BY <3>1, RankAssumption DEF RankOrder
      <3> QED
        BY <2>3, <2>5, <3>1, <3>2
    <2> QED
      BY <2>3, <2>4, <2>5, <2>6
  <1> QED
    BY <1>1, PriorityCorrect, PTL

\* Every step keeps the order of the clusters of a transaction.
LEMMA ParentsStep ==
    ASSUME RankOrder, UseParallelExecution => IdOrder,
           OrderInv, OrderInv', LifeInv, ReportInv, CountsExact, PriorityInv,
           ParentsFinished, [Next]_vars
    PROVE  ParentsFinished'
  <1> SUFFICES ASSUME NEW t \in Transactions, NEW c \in Clusters, Chosen(t, c)'
               PROVE  Fed(t, c)'
    BY DEF ParentsFinished
  <1>1. CASE Chosen(t, c)
    BY <1>1, FedStep, ChosenOpen DEF ParentsFinished
  <1>2. CASE /\ PlannerStep
             /\ executor_messages' = Append(executor_messages, StartUpdate(t, c))
    <2>1. Fed(t, c)
      BY <1>2, Choice DEF PriorityInv
    <2> QED
      BY <2>1, FedStep, ChosenOpen
  <1> QED
    BY <1>1, <1>2, ChosenOpen

\* A step of a task copies its cluster, or adds values that have not been copied,
\* to clusters that wait.
LEMMA TaskUncopied ==
    ASSUME OrderInv, LifeInv, ReportInv, ParentsFinished, UncopiedWaits,
           NEW u \in Transactions, NEW d \in Clusters, TaskStep(u, d), UNCHANGED plannerVars
    PROVE  UncopiedWaits'
  <1> DEFINE Early == {"idle", "queued", "taken", "reported"}
  <1>1. TypeOK
    BY DEF OrderInv
  <1> SUFFICES ASSUME NEW t \in Transactions, NEW c \in uncopied'[t]
               PROVE  c \in targets'[t] /\ task'[t][c] \in Early
    BY DEF UncopiedWaits
  <1>2. \A x \in uncopied[t] : x \in Clusters /\ x \in targets[t] /\ task[t][x] \in Early
    BY <1>1 DEF UncopiedWaits, TypeOK
  <1>3. CASE ReportNow(u, d)
    <2>1. SetTask(u, d, "reported") /\ UNCHANGED <<targets, uncopied>>
      BY <1>3 DEF ReportNow
    <2>2. \A x \in Clusters :
            task'[t][x] = IF t = u /\ x = d THEN "reported" ELSE task[t][x]
      BY <1>1, <2>1, OneTask
    <2> QED
      BY <1>2, <2>1, <2>2
  <1>4. CASE GenerateSubTransaction(u, d)
    <2>1. /\ SetTask(u, d, "executing")
          /\ targets' = [targets EXCEPT ![u] = targets[u] \cup {d}]
          /\ uncopied' = [uncopied EXCEPT ![u] = uncopied[u] \ {d}]
      BY <1>4 DEF GenerateSubTransaction
    <2>2. \A x \in Clusters :
            task'[t][x] = IF t = u /\ x = d THEN "executing" ELSE task[t][x]
      BY <1>1, <2>1, OneTask
    <2>3. /\ targets[t] \subseteq targets'[t]
          /\ uncopied'[t] = IF t = u THEN uncopied[u] \ {d} ELSE uncopied[t]
      BY <1>1, <2>1 DEF TypeOK
    <2> QED
      BY <1>2, <2>2, <2>3
  <1>5. CASE RegisterExecutionResult(u, d)
    <2>1. PICK result \in SUBSET Triggered(d) :
            /\ targets' = [targets EXCEPT ![u] = targets[u] \cup result]
            /\ uncopied' = [uncopied EXCEPT ![u] = uncopied[u] \cup result]
      BY <1>5 DEF RegisterExecutionResult
    <2>2. task[u][d] = "executing" /\ SetTask(u, d, "registered")
      BY <1>5 DEF RegisterExecutionResult
    <2>3. \A x \in Clusters :
            task'[t][x] = IF t = u /\ x = d THEN "registered" ELSE task[t][x]
      BY <1>1, <2>2, OneTask
    <2>4. /\ targets'[t] = IF t = u THEN targets[u] \cup result ELSE targets[t]
          /\ uncopied'[t] = IF t = u THEN uncopied[u] \cup result ELSE uncopied[t]
      BY <1>1, <2>1 DEF TypeOK
    <2>5. CASE c \in uncopied[t]
      BY <1>2, <2>2, <2>3, <2>4, <2>5
    <2>6. CASE c \notin uncopied[t]
      <3>1. t = u /\ c \in result /\ c \in Triggered(d)
        BY <2>1, <2>4, <2>6
      <3>2. c \in Clusters /\ c # d /\ DependsOn(c, d)
        BY <3>1, Dependence DEF Triggered, Feeds
      <3>3. Active(u, d)
        BY <2>2, TaskKnown DEF Active
      <3>4. ~Chosen(u, c)
        BY <3>2, <3>3 DEF ParentsFinished, Fed
      <3>5. task[t][c] = "idle"
        BY <3>1, <3>4 DEF Chosen
      <3> QED
        BY <2>3, <2>4, <3>1, <3>2, <3>5
    <2> QED
      BY <2>5, <2>6
  <1>6. CASE ReportFinish(u, d)
    <2>1. /\ task[u][d] = "registered" /\ SetTask(u, d, "finished")
          /\ UNCHANGED <<targets, uncopied>>
      BY <1>6 DEF ReportFinish
    <2>2. \A x \in Clusters :
            task'[t][x] = IF t = u /\ x = d THEN "finished" ELSE task[t][x]
      BY <1>1, <2>1, OneTask
    <2> QED
      BY <1>2, <2>1, <2>2
  <1> QED
    BY <1>3, <1>4, <1>5, <1>6 DEF TaskStep

\* Values wait for the update of their cluster.
LEMMA UncopiedStep ==
    ASSUME OrderInv, LifeInv, ReportInv, ParentsFinished, UncopiedWaits, [Next]_vars
    PROVE  UncopiedWaits'
  <1> DEFINE Early == {"idle", "queued", "taken", "reported"}
  <1>1. TypeOK
    BY DEF OrderInv
  <1>2. ASSUME UNCHANGED <<targets, uncopied, task>>
        PROVE  UncopiedWaits'
    BY <1>2 DEF UncopiedWaits
  <1>3. ASSUME UNCHANGED <<targets, uncopied>>,
               NEW u \in Transactions, NEW d \in Clusters, NEW pc \in Early, SetTask(u, d, pc)
        PROVE  UncopiedWaits'
    <2>1. \A t \in Transactions, x \in Clusters :
            task'[t][x] = IF t = u /\ x = d THEN pc ELSE task[t][x]
      BY <1>1, <1>3, OneTask
    <2>2. \A t \in Transactions : uncopied[t] \subseteq Clusters
      BY <1>1 DEF TypeOK
    <2> QED
      BY <1>3, <2>1, <2>2 DEF UncopiedWaits
  <1>4. CASE Begin
    BY <1>2, <1>4 DEF Begin, taskVars
  <1>5. ASSUME NEW u \in Transactions, Submit(u)
        PROVE  UncopiedWaits'
    <2>1. PICK sent \in SUBSET Sources :
            /\ targets' = [targets EXCEPT ![u] = sent]
            /\ uncopied' = [uncopied EXCEPT ![u] = sent]
      BY <1>5 DEF Submit
    <2>2. status[u] = "open" /\ task' = task
      BY <1>5 DEF Submit
    <2>3. \A c \in Clusters : task[u][c] = "idle"
      BY <2>2, TaskHeld
    <2>4. sent \subseteq Clusters
      BY <2>1, ExecutorAssumption
    <2>5. \A t \in Transactions :
            /\ targets'[t] = IF t = u THEN sent ELSE targets[t]
            /\ uncopied'[t] = IF t = u THEN sent ELSE uncopied[t]
      BY <1>1, <2>1 DEF TypeOK
    <2> QED
      BY <2>2, <2>3, <2>4, <2>5 DEF UncopiedWaits
  <1>6. CASE ExecutorStep /\ UNCHANGED plannerVars
    <2>1. CASE HandleStartUpdate
      <3>1. UNCHANGED <<targets, uncopied>>
        BY <2>1 DEF HandleStartUpdate
      <3>2. \/ task' = task
            \/ \E u \in transactions : \E d \in Clusters :
                 task' = [task EXCEPT ![u] = [task[u] EXCEPT ![d] = "queued"]]
        BY <1>1, <2>1, StartUpdateStep
      <3>3. ASSUME NEW u \in transactions, NEW d \in Clusters,
                   task' = [task EXCEPT ![u] = [task[u] EXCEPT ![d] = "queued"]]
            PROVE  u \in Transactions /\ SetTask(u, d, "queued")
        BY <1>1, <3>3 DEF TypeOK, SetTask
      <3> QED
        BY <1>2, <1>3, <3>1, <3>2, <3>3
    <2>2. CASE HandleRegister \/ HandleExecute \/ HandleFinalize
      BY <1>2, <2>2 DEF HandleRegister, HandleExecute, HandleFinalize, taskVars
    <2> QED
      BY <1>6, <2>1, <2>2 DEF ExecutorStep
  <1>7. CASE TakeTask
    <2>1. \E u \in Transactions, d \in Clusters : SetTask(u, d, "taken")
      BY <1>1, <1>7, TakeStep DEF LifeInv
    <2>2. UNCHANGED <<targets, uncopied>>
      BY <1>7 DEF TakeTask
    <2> QED
      BY <1>3, <2>1, <2>2
  <1>8. CASE WorkerStep /\ UNCHANGED plannerVars
    BY <1>7, <1>8, TaskUncopied DEF WorkerStep
  <1>9. CASE (ManagerStep \/ PlannerStep) /\ UNCHANGED executorVars
    BY <1>2, <1>9 DEF executorVars, taskVars
  <1>10. CASE UNCHANGED vars
    BY <1>2, <1>10 DEF vars, executorVars, taskVars
  <1> QED
    BY <1>4, <1>5, <1>6, <1>8, <1>9, <1>10 DEF Next, Rest, UserStep

\* No cluster is chosen before what it depends on, and no value is forgotten.
LEMMA ParentsCorrect ==
    ASSUME RankOrder, UseParallelExecution => IdOrder
    PROVE  Spec => [](OrderInv /\ ReportInv /\ ParentsFinished /\ UncopiedWaits)
  <1>1. OrderInv /\ OrderInv' /\ LifeInv /\ ReportInv /\ CountsExact /\ PriorityInv
          /\ ParentsFinished /\ [Next]_vars => ParentsFinished'
    BY ParentsStep
  <1>2. OrderInv /\ LifeInv /\ ReportInv /\ ParentsFinished /\ UncopiedWaits /\ [Next]_vars
          => UncopiedWaits'
    BY UncopiedStep
  <1> QED
    BY <1>1, <1>2, PriorityCorrect, PriorityInit, PTL DEF Spec

\* Within a transaction a cluster is updated after all its parents, if ranks grow
\* along the edges and, where rank_based_planner walks future by ID
\* (planner.cpp:303), IDs do.
THEOREM ParentsUpdatedFirst ==
    ASSUME RankOrder, UseParallelExecution => IdOrder
    PROVE  Spec => []ParentsFirst
  <1>1. ParentsFinished => ParentsFirst
    <2> SUFFICES ASSUME ParentsFinished, NEW t \in Transactions, NEW e \in Edges, Begun(t, e[2])
                 PROVE  ~Pending(t, e[1])
      BY DEF ParentsFirst
    <2>1. e[1] \in Clusters /\ e[2] \in Clusters /\ e[2] \in Feeds(e[1])
      BY GraphAssumption DEF Feeds
    <2>2. Fed(t, e[2])
      BY <2>1 DEF Begun, Chosen, ParentsFinished
    <2> QED
      BY <2>1, <2>2, Dependence DEF Fed, Pending, Active
  <1> QED
    BY <1>1, ParentsCorrect, PTL

\* No update is lost, on the same conditions: what a result adds to a cluster comes
\* before that cluster takes what it has to update (transaction.cpp:108-125).
THEOREM NoneLost ==
    ASSUME RankOrder, UseParallelExecution => IdOrder
    PROVE  Spec => []NoLostUpdate
  <1>1. OrderInv /\ ReportInv /\ UncopiedWaits => NoLostUpdate
    <2> SUFFICES ASSUME OrderInv, ReportInv, UncopiedWaits,
                        NEW t \in Transactions, status[t] = "done", NEW c \in uncopied[t]
                 PROVE  FALSE
      BY DEF NoLostUpdate
    <2>1. c \in Clusters /\ c \in targets[t]
            /\ task[t][c] \in {"idle", "queued", "taken", "reported"}
      BY DEF OrderInv, TypeOK, UncopiedWaits
    <2> QED
      BY <2>1 DEF ReportInv, ClosedOver, Over
  <1> QED
    BY <1>1, ParentsCorrect, PTL

=============================================================================
