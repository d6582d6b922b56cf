----------------------------- MODULE OrderProofs -----------------------------
(***************************************************************************)
(* Theorems about Engine: every variable keeps its type; transactions end  *)
(* in the order they were created in, so that the engine implements        *)
(* TransactionOrder; and a transaction samples from the looper of a        *)
(* GlobalCellLoop only what older transactions left there, and always the  *)
(* same.                                                                   *)
(***************************************************************************)
EXTENDS Engine, FiniteSetTheorems, SequenceTheorems, TLAPS, WellFoundedInduction

-----------------------------------------------------------------------------
(* Messages and queues are well typed.                                     *)

\* The messages the threads build are messages of the queues
\* (executor.hpp:80-82, planner.hpp:90-92).
LEMMA MessageTypes ==
    /\ \A t \in Transactions :
         /\ Register(t) \in ExecutorMessage
         /\ Execute(t) \in ExecutorMessage
         /\ Finalize(t) \in ExecutorMessage
         /\ Start(t) \in PlannerMessage
         /\ Finish(t) \in PlannerMessage
    /\ \A t \in Transactions, c \in Clusters : StartUpdate(t, c) \in ExecutorMessage
    /\ \A t \in Transactions, now, future, finish \in SUBSET Clusters :
         Update(t, now, future, finish) \in PlannerMessage
  BY DEF Register, Execute, Finalize, Start, Finish, StartUpdate, Update,
         ExecutorMessage, PlannerMessage, RegisterMessage, ExecuteMessage,
         FinalizeMessage, StartUpdateMessage, StartMessage, UpdateMessage, FinishMessage

\* What the type of a message says of its fields.
LEMMA MessageFields ==
    /\ \A m \in ExecutorMessage :
         /\ m.id \in Transactions
         /\ m.type \in {"Register", "Execute", "StartUpdate", "Finalize"}
         /\ m.type = "StartUpdate" => m.cluster \in Clusters
         /\ m.type = "Register" => m = Register(m.id)
         /\ m.type = "Execute" => m = Execute(m.id)
    /\ \A m \in PlannerMessage :
         /\ m.id \in Transactions
         /\ m.type \in {"Start", "Update", "Finish"}
         /\ m.type = "Start" => m = Start(m.id)
         /\ m.type = "Update" =>
              /\ m.now \in SUBSET Clusters
              /\ m.future \in SUBSET Clusters
              /\ m.finish \in SUBSET Clusters
  BY DEF ExecutorMessage, PlannerMessage, RegisterMessage, ExecuteMessage,
         FinalizeMessage, StartUpdateMessage, StartMessage, UpdateMessage, FinishMessage,
         Register, Execute, Start

\* Popping the head of a queue and pushing at its end.
LEMMA PopTypes ==
    ASSUME NEW S, NEW q \in Seq(S), q # <<>>
    PROVE  /\ Len(q) \in Nat \ {0}
           /\ Head(q) = q[1]
           /\ Head(q) \in S
           /\ Tail(q) \in Seq(S)
           /\ Len(Tail(q)) = Len(q) - 1
           /\ \A i \in 1 .. Len(Tail(q)) : Tail(q)[i] = q[i + 1]
  OBVIOUS

\* What the push at the end of a queue leaves (concurrent_queue.hpp:28-32).
LEMMA PushTypes ==
    ASSUME NEW S, NEW q \in Seq(S), NEW m \in S
    PROVE  /\ Append(q, m) \in Seq(S)
           /\ Len(q) \in Nat
           /\ Len(Append(q, m)) = Len(q) + 1
           /\ \A i \in 1 .. Len(q) : Append(q, m)[i] = q[i]
           /\ Append(q, m)[Len(q) + 1] = m
  OBVIOUS

-----------------------------------------------------------------------------
(* The handlers of the PlannerManager on a well-typed deque.               *)

\* handleStartMessage appends states with the IDs that follow the last one, up
\* to the ID of the message, or the one state of that ID to an empty deque.
LEMMA HandleStartDeque ==
    ASSUME NEW states \in Seq(TransactionState), NEW t \in Transactions
    PROVE  /\ HandleStart(states, t) \in Seq(TransactionState)
           /\ states = <<>> =>
                /\ Len(HandleStart(states, t)) = 1
                /\ HandleStart(states, t)[1].transaction_id = t
           /\ states # <<>> =>
                LET last == states[Len(states)].transaction_id
                    more == IF last < t THEN t - last ELSE 0
                IN  /\ Len(HandleStart(states, t)) = Len(states) + more
                    /\ \A k \in 1 .. Len(states) : HandleStart(states, t)[k] = states[k]
                    /\ \A k \in 1 .. more :
                         HandleStart(states, t)[Len(states) + k].transaction_id = last + k
  <1>1. \A u \in Transactions : NewTransactionState(u) \in TransactionState
    BY DEF NewTransactionState, TransactionState
  <1>2. CASE states = <<>>
    BY <1>1, <1>2 DEF HandleStart, NewTransactionState
  <1>3. CASE states # <<>>
    <2> DEFINE last == states[Len(states)].transaction_id
               more == IF last < t THEN t - last ELSE 0
               added == [k \in 1 .. (t - last) |-> NewTransactionState(last + k)]
    <2>1. last \in Transactions /\ last \in Nat /\ t \in Nat
      <3>1. states[Len(states)] \in TransactionState
        BY <1>3
      <3>2. \A s \in TransactionState : s.transaction_id \in Transactions
        BY DEF TransactionState
      <3> QED
        BY <3>1, <3>2, BoundAssumption DEF Transactions
    <2>2. more \in Nat /\ 1 .. (t - last) = 1 .. more
      BY <2>1
    <2>3. \A k \in 1 .. more : last + k \in Transactions
      BY <2>1, BoundAssumption DEF Transactions
    <2>4. added \in Seq(TransactionState) /\ Len(added) = more
      <3>1. added = [k \in 1 .. more |-> NewTransactionState(last + k)]
        BY <2>2
      <3>2. added \in [1 .. more -> TransactionState]
        BY <3>1, <2>3, <1>1
      <3>3. \A f \in [1 .. more -> TransactionState] :
              f \in Seq(TransactionState) /\ Len(f) = more
        BY <2>2
      <3> QED
        BY <3>2, <3>3
    <2>5. \A k \in 1 .. more : added[k].transaction_id = last + k
      BY <2>2 DEF NewTransactionState
    <2>6. HandleStart(states, t) = states \o added
      BY <1>3 DEF HandleStart
    <2> HIDE DEF last, more, added
    <2>7. /\ states \o added \in Seq(TransactionState)
          /\ Len(states \o added) = Len(states) + more
          /\ \A k \in 1 .. Len(states) : (states \o added)[k] = states[k]
          /\ \A k \in 1 .. more : (states \o added)[Len(states) + k] = added[k]
      BY <2>2, <2>4
    <2> QED
      BY <1>3, <2>5, <2>6, <2>7 DEF last, more
  <1> QED
    BY <1>2, <1>3

\* The state handleUpdateMessage leaves is one, of the same transaction.
LEMMA ApplyUpdateType ==
    ASSUME NEW s \in TransactionState,
           NEW m, m.now \in SUBSET Clusters, m.future \in SUBSET Clusters,
           m.finish \in SUBSET Clusters
    PROVE  /\ ApplyUpdate(s, m) \in TransactionState
           /\ ApplyUpdate(s, m).transaction_id = s.transaction_id
  <1> DEFINE added == m.future \ s.future
             finished == m.finish \cap (s.now \cup m.now)
             ranks == [r \in Ranks |-> s.target_ranks[r]
                          + Cardinality(OfRank(added, r)) - Cardinality(OfRank(finished, r))]
  <1>1. \A S \in SUBSET Clusters : \A r \in Ranks : Cardinality(OfRank(S, r)) \in Nat
    BY ClustersAssumption, FS_Subset, FS_CardinalityType DEF OfRank
  <1>2. added \in SUBSET Clusters /\ finished \in SUBSET Clusters
    OBVIOUS
  <1>3. ranks \in [Ranks -> Int]
    <2>1. \A r \in Ranks : s.target_ranks[r] \in Int
      BY DEF TransactionState
    <2> QED
      BY <1>1, <1>2, <2>1
  <1>4. ApplyUpdate(s, m) =
          [s EXCEPT !.initialized = TRUE,
                    !.future = (s.future \cup m.future) \ m.now,
                    !.now = (s.now \cup m.now) \ m.finish,
                    !.target_ranks = ranks]
    BY DEF ApplyUpdate
  <1> HIDE DEF ranks
  <1> QED
    BY <1>3, <1>4 DEF TransactionState

\* Handling a message keeps a deque of transaction states; an Update keeps its
\* IDs, a Finish removes at most the front.
LEMMA HandleUpdateDeque ==
    ASSUME NEW states \in Seq(TransactionState),
           NEW m \in PlannerMessage, m.type = "Update"
    PROVE  /\ HandleUpdate(states, m) \in Seq(TransactionState)
           /\ Len(HandleUpdate(states, m)) = Len(states)
           /\ \A k \in 1 .. Len(states) :
                HandleUpdate(states, m)[k].transaction_id = states[k].transaction_id
  <1>1. CASE ~Holds(states, m.id)
    BY <1>1 DEF HandleUpdate
  <1>2. CASE Holds(states, m.id)
    <2> DEFINE idx == m.id - states[1].transaction_id + 1
               new == ApplyUpdate(states[idx], m)
    <2>1. HandleUpdate(states, m) = [states EXCEPT ![idx] = new]
      BY <1>2 DEF HandleUpdate
    <2>2. idx \in 1 .. Len(states) =>
            new \in TransactionState /\ new.transaction_id = states[idx].transaction_id
      BY MessageFields, ApplyUpdateType
    <2> HIDE DEF idx, new
    <2>3. CASE idx \in 1 .. Len(states)
      BY <2>1, <2>2, <2>3, ExceptSeq
    <2>4. CASE idx \notin 1 .. Len(states)
      <3>1. states = [k \in 1 .. Len(states) |-> states[k]]
        OBVIOUS
      <3>2. [states EXCEPT ![idx] = new] = states
        BY <2>4, <3>1
      <3> QED
        BY <2>1, <3>2
    <2> QED
      BY <2>3, <2>4
  <1> QED
    BY <1>1, <1>2

\* A message the PlannerManager handles leaves a deque of states (planner.cpp:15-34).
LEMMA HandleMessageType ==
    ASSUME NEW states \in Seq(TransactionState), NEW m \in PlannerMessage
    PROVE  HandleMessage(states, m) \in Seq(TransactionState)
  <1>1. m.id \in Transactions /\ m.type \in {"Start", "Update", "Finish"}
    BY MessageFields
  <1>2. CASE m.type = "Start"
    BY <1>1, <1>2, HandleStartDeque DEF HandleMessage
  <1>3. CASE m.type = "Update"
    BY <1>3, HandleUpdateDeque DEF HandleMessage
  <1>4. CASE m.type = "Finish"
    <2>1. HandleMessage(states, m) = HandleFinish(states, m.id)
      BY <1>4 DEF HandleMessage
    <2>2. states # <<>> => Tail(states) \in Seq(TransactionState)
      OBVIOUS
    <2> QED
      BY <2>1, <2>2 DEF HandleFinish
  <1> QED
    BY <1>1, <1>2, <1>3, <1>4

-----------------------------------------------------------------------------
(* Types.                                                                  *)

PlannerPcs ==
    [pc : {"stopped"}]
    \cup [pc : {"visiting"}, i : Nat \ {0}, target : 0 .. NoRank, used : SUBSET Clusters]
    \cup [pc : {"assigning"}, i : Nat \ {0}, target : 0 .. NoRank,
          used : SUBSET Clusters, todo : SUBSET Clusters]

\* The planner thread's program points and local variables.
LEMMA PlannerTypes ==
    /\ Stopped \in PlannerPcs
    /\ \A i \in Nat \ {0}, target \in 0 .. NoRank, used \in SUBSET Clusters :
         Visiting(i, target, used) \in PlannerPcs
    /\ \A i \in Nat \ {0}, target \in 0 .. NoRank, used, todo \in SUBSET Clusters :
         Assigning(i, target, used, todo) \in PlannerPcs
    /\ \A p \in PlannerPcs :
         /\ p.pc # "stopped" => /\ p.i \in Nat \ {0}
                                /\ p.target \in 0 .. NoRank
                                /\ p.used \in SUBSET Clusters
         /\ p.pc = "assigning" =>
              /\ p.todo \in SUBSET Clusters
              /\ \A S \in SUBSET Clusters : [p EXCEPT !.todo = S] \in PlannerPcs
  <1>1. NoRank \in Nat
    BY PlannerAssumption
  <1> QED
    BY <1>1 DEF PlannerPcs, Stopped, Visiting, Assigning

\* Every variable has its type before the first step.
LEMMA InitTypeOK == Init => TypeOK
  <1> SUFFICES ASSUME Init PROVE TypeOK
    OBVIOUS
  <1> USE DEF Init, PlannerInit, ExecutorInit
  <1>1. /\ executor_messages \in Seq(ExecutorMessage)
        /\ planner_messages \in Seq(PlannerMessage)
        /\ transaction_states \in Seq(TransactionState)
        /\ pool \in Seq(Transactions \X Clusters)
    OBVIOUS
  <1>2. manager \in [pc : {"idle"}] /\ planner \in [pc : {"stopped"}]
    BY DEF Idle, Stopped
  <1>3. next_transaction_id \in 0 .. MaxTransactions
    BY BoundAssumption
  <1>4. status \in [Transactions -> Statuses] /\ task \in [Transactions -> [Clusters -> TaskPcs]]
    BY DEF Statuses, TaskPcs
  <1> QED
    BY <1>1, <1>2, <1>3, <1>4 DEF TypeOK

\* The users' steps: Begin and Submit.
LEMMA UserTypeOK ==
    ASSUME TypeOK, UserStep, UNCHANGED plannerVars
    PROVE  TypeOK'
  <1> USE DEF TypeOK, plannerVars, taskVars, acceptedVars, hookVars
  <1>1. CASE Begin
    <2>1. next_transaction_id \in Transactions /\ next_transaction_id' \in 0 .. MaxTransactions
      BY <1>1, BoundAssumption DEF Begin, Transactions
    <2>2. executor_messages' \in Seq(ExecutorMessage)
      BY <1>1, <2>1, MessageTypes DEF Begin, PushExecutor
    <2>3. status' \in [Transactions -> Statuses]
      BY <1>1 DEF Begin, Statuses
    <2> QED
      BY <1>1, <2>1, <2>2, <2>3 DEF Begin
  <1>2. ASSUME NEW t \in Transactions, Submit(t) PROVE TypeOK'
    <2>1. executor_messages' \in Seq(ExecutorMessage)
      BY <1>2, MessageTypes DEF Submit, PushExecutor
    <2>2. status' \in [Transactions -> Statuses]
      BY <1>2 DEF Submit, Statuses
    <2>3. targets' \in [Transactions -> SUBSET Clusters]
          /\ uncopied' \in [Transactions -> SUBSET Clusters]
      BY <1>2, ExecutorAssumption DEF Submit
    <2> QED
      BY <1>2, <2>1, <2>2, <2>3 DEF Submit
  <1> QED
    BY <1>1, <1>2 DEF UserStep

\* The Executor's thread, one message at a time.
LEMMA ExecutorTypeOK ==
    ASSUME TypeOK, ExecutorStep, UNCHANGED plannerVars
    PROVE  TypeOK'
  <1> USE DEF TypeOK, plannerVars, userVars, taskVars, acceptedVars, hookVars, Receive
  <1> DEFINE m == Head(executor_messages)
  <1>1. /\ executor_messages # <<>>
        /\ m \in ExecutorMessage
        /\ executor_messages' \in Seq(ExecutorMessage)
    <2>1. executor_messages # <<>> /\ executor_messages' = Tail(executor_messages)
      BY DEF ExecutorStep, HandleRegister, HandleExecute, HandleStartUpdate, HandleFinalize
    <2> QED
      BY <2>1
  <1>2. m.id \in Transactions /\ (m.type = "StartUpdate" => m.cluster \in Clusters)
    BY <1>1, MessageFields
  <1>3. CASE HandleRegister
    <2>1. planner_messages' \in Seq(PlannerMessage)
      BY <1>2, <1>3, MessageTypes DEF HandleRegister, PushPlanner
    <2>2. loop_values' \in [LoopClusters -> [Transactions -> Transactions \cup {NoTransaction}]]
      BY <1>2, <1>3 DEF HandleRegister
    <2>3. before_update_hooks' \in [LoopClusters -> Transactions \cup {NoTransaction}]
      BY <1>3 DEF HandleRegister
    <2> QED
      BY <1>1, <1>3, <2>1, <2>2, <2>3 DEF HandleRegister
  <1>4. CASE HandleExecute
    <2>1. planner_messages' \in Seq(PlannerMessage)
      <3>1. Update(m.id, {}, targets[m.id], {}) \in PlannerMessage
        BY <1>2, MessageTypes
      <3> QED
        BY <1>4, <3>1 DEF HandleExecute, PushPlanner
    <2>2. transactions' \in SUBSET Transactions
      BY <1>2, <1>4 DEF HandleExecute
    <2> QED
      BY <1>1, <1>4, <2>1, <2>2 DEF HandleExecute
  <1>5. CASE HandleStartUpdate
    <2>1. m.type = "StartUpdate"
      BY <1>5 DEF HandleStartUpdate
    <2>2. CASE Acceptable(m)
      <3>0. /\ transaction_updatings' =
                 [transaction_updatings EXCEPT
                    ![m.id] = transaction_updatings[m.id] \cup {m.cluster}]
            /\ task' = [task EXCEPT ![m.id] = [task[m.id] EXCEPT ![m.cluster] = "queued"]]
            /\ pool' = Append(pool, <<m.id, m.cluster>>)
        BY <1>5, <2>2 DEF HandleStartUpdate
      <3> HIDE DEF m
      <3>1. transaction_updatings' \in [Transactions -> SUBSET Clusters]
        BY <1>2, <2>1, <3>0
      <3>2. task' \in [Transactions -> [Clusters -> TaskPcs]]
        BY <1>2, <2>1, <3>0 DEF TaskPcs
      <3>3. pool' \in Seq(Transactions \X Clusters)
        BY <1>2, <2>1, <3>0
      <3> QED
        BY <1>1, <1>5, <3>1, <3>2, <3>3 DEF HandleStartUpdate
    <2>3. CASE ~Acceptable(m)
      BY <1>1, <1>5, <2>3 DEF HandleStartUpdate
    <2> QED
      BY <2>2, <2>3
  <1>6. CASE HandleFinalize
    <2>1. CASE m.id \in transactions
      <3>1. planner_messages' \in Seq(PlannerMessage)
        <4>1. planner_messages' = Append(planner_messages, Finish(m.id))
          BY <1>6, <2>1 DEF HandleFinalize, PushPlanner
        <4>2. Finish(m.id) \in PlannerMessage
          BY <1>2, MessageTypes
        <4> QED
          BY <4>1, <4>2
      <3>2. status' \in [Transactions -> Statuses]
        BY <1>6, <2>1 DEF HandleFinalize, Statuses
      <3>3. /\ transactions' \in SUBSET Transactions
            /\ transaction_updatings' \in [Transactions -> SUBSET Clusters]
            /\ before_update_hooks_buffers' \in [Transactions -> SUBSET LoopClusters]
        BY <1>6, <2>1 DEF HandleFinalize
      <3>4. before_update_hooks' \in [LoopClusters -> Transactions \cup {NoTransaction}]
        <4>1. before_update_hooks' =
                [l \in LoopClusters |-> IF l \in before_update_hooks_buffers[m.id]
                                          THEN m.id ELSE before_update_hooks[l]]
          BY <1>6, <2>1 DEF HandleFinalize
        <4> HIDE DEF m
        <4> QED
          BY <1>2, <4>1
      <3> QED
        BY <1>1, <1>6, <3>1, <3>2, <3>3, <3>4 DEF HandleFinalize
    <2>2. CASE m.id \notin transactions
      BY <1>1, <1>6, <2>2 DEF HandleFinalize
    <2> QED
      BY <2>1, <2>2
  <1> QED
    BY <1>3, <1>4, <1>5, <1>6 DEF ExecutorStep

\* The workers of the pool.
LEMMA WorkerTypeOK ==
    ASSUME TypeOK, WorkerStep, UNCHANGED plannerVars
    PROVE  TypeOK'
  <1> USE DEF TypeOK, plannerVars, userVars, acceptedVars, hookVars, SetTask
  <1>1. CASE TakeTask
    <2>1. Head(pool) \in Transactions \X Clusters /\ pool' \in Seq(Transactions \X Clusters)
      BY <1>1 DEF TakeTask
    <2>2. task' \in [Transactions -> [Clusters -> TaskPcs]]
      BY <1>1, <2>1 DEF TakeTask, TaskPcs
    <2> QED
      BY <1>1, <2>1, <2>2 DEF TakeTask
  <1>2. ASSUME NEW t \in Transactions, NEW c \in Clusters, TaskStep(t, c)
        PROVE  TypeOK'
    <2>1. CASE ReportNow(t, c)
      <3>1. planner_messages' \in Seq(PlannerMessage)
        <4>1. Update(t, {c}, {}, {}) \in PlannerMessage
          BY MessageTypes
        <4> QED
          BY <2>1, <4>1 DEF ReportNow, PushPlanner
      <3>2. task' \in [Transactions -> [Clusters -> TaskPcs]]
        BY <2>1 DEF ReportNow, TaskPcs
      <3> QED
        BY <2>1, <3>1, <3>2 DEF ReportNow
    <2>2. CASE GenerateSubTransaction(t, c)
      <3>1. task' \in [Transactions -> [Clusters -> TaskPcs]]
        BY <2>2 DEF GenerateSubTransaction, TaskPcs
      <3>2. targets' \in [Transactions -> SUBSET Clusters]
            /\ uncopied' \in [Transactions -> SUBSET Clusters]
        BY <2>2 DEF GenerateSubTransaction
      <3> QED
        BY <2>2, <3>1, <3>2 DEF GenerateSubTransaction
    <2>3. CASE RegisterExecutionResult(t, c)
      <3>1. task' \in [Transactions -> [Clusters -> TaskPcs]]
        BY <2>3 DEF RegisterExecutionResult, TaskPcs
      <3>2. PICK result \in SUBSET Triggered(c) :
              /\ futures' = [futures EXCEPT ![t][c] = result \ targets[t]]
              /\ targets' = [targets EXCEPT ![t] = @ \cup result]
              /\ uncopied' = [uncopied EXCEPT ![t] = @ \cup result]
        BY <2>3 DEF RegisterExecutionResult
      <3>3. result \in SUBSET Clusters
        BY DEF Triggered
      <3>4. futures' \in [Transactions -> [Clusters -> SUBSET Clusters]]
        BY <3>2, <3>3
      <3>5. targets' \in [Transactions -> SUBSET Clusters]
            /\ uncopied' \in [Transactions -> SUBSET Clusters]
        BY <3>2, <3>3
      <3>6. before_update_hooks_buffers' \in [Transactions -> SUBSET LoopClusters]
        BY <2>3 DEF RegisterExecutionResult
      <3> QED
        BY <2>3, <3>1, <3>4, <3>5, <3>6 DEF RegisterExecutionResult
    <2>4. CASE ReportFinish(t, c)
      <3>1. planner_messages' \in Seq(PlannerMessage)
        <4>1. Update(t, {}, futures[t][c], {c}) \in PlannerMessage
          <5>1. futures[t][c] \in SUBSET Clusters
            OBVIOUS
          <5> HIDE DEF TypeOK
          <5> QED
            BY <5>1, MessageTypes
        <4> QED
          BY <2>4, <4>1 DEF ReportFinish, PushPlanner
      <3>2. task' \in [Transactions -> [Clusters -> TaskPcs]]
        BY <2>4 DEF ReportFinish, TaskPcs
      <3>3. futures' \in [Transactions -> [Clusters -> SUBSET Clusters]]
        BY <2>4 DEF ReportFinish
      <3> QED
        BY <2>4, <3>1, <3>2, <3>3 DEF ReportFinish
    <2> QED
      BY <1>2, <2>1, <2>2, <2>3, <2>4 DEF TaskStep
  <1> QED
    BY <1>1, <1>2 DEF WorkerStep

\* The PlannerManager's thread.
LEMMA ManagerTypeOK ==
    ASSUME TypeOK, ManagerStep, UNCHANGED executorVars
    PROVE  TypeOK'
  <1> USE DEF TypeOK, executorVars, userVars, taskVars, acceptedVars, hookVars
  <1>1. CASE ManagerStart
    <2>1. Head(planner_messages) \in PlannerMessage
          /\ planner_messages' \in Seq(PlannerMessage)
      BY <1>1 DEF ManagerStart
    <2>2. transaction_states' \in Seq(TransactionState)
      BY <1>1, <2>1, HandleMessageType DEF ManagerStart
    <2> QED
      BY <1>1, <2>1, <2>2 DEF ManagerStart
  <1>2. CASE ManagerStop
    <2>1. Head(planner_messages) \in PlannerMessage
          /\ planner_messages' \in Seq(PlannerMessage)
      BY <1>2 DEF ManagerStop
    <2>2. Head(planner_messages) \in UpdateMessage \cup FinishMessage
      BY <1>2, <2>1 DEF ManagerStop, NeedRefresh, PlannerMessage, StartMessage
    <2> QED
      BY <1>2, <2>1, <2>2 DEF ManagerStop, Joining
  <1>3. CASE ManagerRefresh
    <2>1. transaction_states' \in Seq(TransactionState)
      <3>1. manager.message \in PlannerMessage
        BY <1>3 DEF ManagerRefresh, PlannerMessage
      <3> QED
        BY <1>3, <3>1, HandleMessageType DEF ManagerRefresh
    <2>2. planner' \in PlannerPcs
      <3>1. NoRank \in 0 .. NoRank
        BY PlannerAssumption
      <3>2. Visiting(1, NoRank, {}) \in PlannerPcs
        BY <3>1 DEF Visiting, PlannerPcs
      <3> QED
        BY <1>3, <3>2 DEF ManagerRefresh, StartPlanning
    <2> QED
      BY <1>3, <2>1, <2>2 DEF ManagerRefresh, Idle, PlannerPcs
  <1> QED
    BY <1>1, <1>2, <1>3 DEF ManagerStep

\* The planner thread, with either planner.
LEMMA PlannerTypeOK ==
    ASSUME TypeOK, PlannerInDeque, PlannerStep, UNCHANGED executorVars
    PROVE  TypeOK'
  <1> USE DEF executorVars, userVars, taskVars, acceptedVars, hookVars
  <1> DEFINE unchanged == UNCHANGED <<planner_messages, transaction_states, manager,
                                      stop_planning_needed>>
  <1>1. SUFFICES /\ unchanged
                 /\ executor_messages' \in Seq(ExecutorMessage)
                 /\ planner' \in PlannerPcs
    BY DEF TypeOK, PlannerPcs
  <1>2. unchanged
    BY DEF PlannerStep, SimpleFinalize, SimpleAssign, SimpleReturn,
           RankReturn, RankVisit, RankAssign, RankSkip, RankNext
  <1>3. \A i \in 1 .. Len(transaction_states) :
          transaction_states[i].transaction_id \in Transactions
    <2>1. \A s \in TransactionState : s.transaction_id \in Transactions
      BY DEF TransactionState
    <2> QED
      BY <2>1 DEF TypeOK
  <1>4. /\ executor_messages \in Seq(ExecutorMessage)
        /\ planner \in PlannerPcs
        /\ transaction_states \in Seq(TransactionState)
    BY DEF TypeOK, PlannerPcs
  <1>5. CASE SimpleFinalize
    <2>1. Finalize(FrontId) \in ExecutorMessage
      BY <1>3, <1>4, <1>5, MessageTypes DEF SimpleFinalize, SimpleMayPlan, FrontId
    <2> QED
      BY <1>2, <1>4, <1>5, <2>1, PlannerTypes DEF SimpleFinalize, PushExecutor
  <1>6. CASE SimpleAssign
    <2>1. \A c \in Clusters : StartUpdate(FrontId, c) \in ExecutorMessage
      BY <1>3, <1>4, <1>6, MessageTypes DEF SimpleAssign, SimpleMayPlan, FrontId
    <2> QED
      BY <1>2, <1>4, <1>6, <2>1, PlannerTypes DEF SimpleAssign, PushExecutor
  <1>7. CASE SimpleReturn
    BY <1>2, <1>4, <1>7, PlannerTypes DEF SimpleReturn
  <1>8. CASE RankReturn
    BY <1>2, <1>4, <1>8, PlannerTypes DEF RankReturn
  <1>9. CASE RankVisit
    <2> DEFINE s == transaction_states[planner.i]
               lower == {r \in Ranks : r < planner.target /\ OfRank(s.now, r) # {}}
               kept(target) == (IF target = planner.target THEN planner.used ELSE {})
                                 \cup OfRank(s.now, target)
    <2>1. PICK target \in lower \cup {planner.target} :
            planner' = Assigning(planner.i, target, kept(target), s.future)
      BY <1>9 DEF RankVisit
    <2>2. /\ planner.i \in 1 .. Len(transaction_states)
          /\ planner.i \in Nat \ {0}
          /\ planner.target \in 0 .. NoRank
          /\ planner.used \in SUBSET Clusters
      BY <1>4, <1>9, PlannerTypes DEF RankVisit, CanVisit
    <2>3. s.now \in SUBSET Clusters /\ s.future \in SUBSET Clusters
      <3>1. s \in TransactionState
        BY <1>4, <2>2
      <3> QED
        BY <3>1 DEF TransactionState
    <2>4. target \in 0 .. NoRank
      BY <2>2, RankAssumption, PlannerAssumption DEF Ranks
    <2>5. kept(target) \in SUBSET Clusters
      BY <2>2, <2>3 DEF OfRank
    <2> HIDE DEF s, kept
    <2>6. planner' \in PlannerPcs
      BY <2>1, <2>2, <2>3, <2>4, <2>5, PlannerTypes
    <2> QED
      BY <1>2, <1>4, <1>9, <2>6 DEF RankVisit
  <1>10. CASE RankAssign
    <2> DEFINE t == transaction_states[planner.i].transaction_id
               used(c) == (IF Rank[c] < planner.target THEN {} ELSE planner.used) \cup {c}
    <2>1. PICK c \in Clusters :
            /\ executor_messages' = Append(executor_messages, StartUpdate(t, c))
            /\ planner' = Assigning(planner.i, Rank[c], used(c), planner.todo \ {c})
      BY <1>10 DEF RankAssign, PushExecutor
    <2>2. /\ planner.i \in 1 .. Len(transaction_states)
          /\ planner.i \in Nat \ {0}
          /\ planner.used \in SUBSET Clusters
          /\ planner.todo \in SUBSET Clusters
      BY <1>4, <1>10, PlannerTypes DEF RankAssign, PlannerInDeque
    <2>3. StartUpdate(t, c) \in ExecutorMessage
      BY <1>3, <2>2, MessageTypes
    <2>4. Rank[c] \in 0 .. NoRank
      BY RankAssumption, PlannerAssumption DEF Ranks
    <2>5. used(c) \in SUBSET Clusters /\ planner.todo \ {c} \in SUBSET Clusters
      BY <2>2
    <2> HIDE DEF t, used
    <2>6. planner' \in PlannerPcs
      BY <2>1, <2>2, <2>4, <2>5, PlannerTypes
    <2> QED
      BY <1>2, <1>4, <2>1, <2>3, <2>6
  <1>11. CASE RankSkip
    <2>1. PICK c \in Clusters : planner' = [planner EXCEPT !.todo = planner.todo \ {c}]
      BY <1>11 DEF RankSkip
    <2>2. planner' \in PlannerPcs
      BY <1>4, <1>11, <2>1, PlannerTypes DEF RankSkip
    <2> QED
      BY <1>2, <1>4, <1>11, <2>2 DEF RankSkip
  <1>12. CASE RankNext
    <2>1. /\ planner.i \in 1 .. Len(transaction_states)
          /\ planner.i \in Nat \ {0}
          /\ planner.target \in 0 .. NoRank
          /\ planner.used \in SUBSET Clusters
      BY <1>4, <1>12, PlannerTypes DEF RankNext, PlannerInDeque
    <2>2. Finalize(transaction_states[planner.i].transaction_id) \in ExecutorMessage
      BY <1>3, <2>1, MessageTypes
    <2>3. executor_messages' \in Seq(ExecutorMessage)
      <3>1. \/ executor_messages' = executor_messages
            \/ executor_messages' =
                 Append(executor_messages, Finalize(transaction_states[planner.i].transaction_id))
        BY <1>12 DEF RankNext, PushExecutor
      <3> QED
        BY <1>4, <2>2, <3>1
    <2>4. planner.i + 1 \in Nat \ {0}
      BY <2>1
    <2>5. planner' \in PlannerPcs
      BY <1>12, <2>1, <2>4, PlannerTypes DEF RankNext
    <2> QED
      BY <1>2, <2>3, <2>5
  <1> QED
    BY <1>5, <1>6, <1>7, <1>8, <1>9, <1>10, <1>11, <1>12 DEF PlannerStep

\* The planner thread is never left pointing past the deque: the manager shrinks
\* the deque only after it joined the thread.
LEMMA PlannerInDequeKept ==
    ASSUME TypeOK, PlannerInDeque, [Next]_vars
    PROVE  PlannerInDeque'
  <1>1. CASE UNCHANGED <<planner, transaction_states>>
    BY <1>1 DEF PlannerInDeque
  <1>2. CASE ManagerStart
    <2> DEFINE m == Head(planner_messages)
    <2>1. m \in PlannerMessage /\ m.type = "Start"
      <3>1. m \in PlannerMessage
        BY <1>2 DEF ManagerStart, TypeOK
      <3> QED
        BY <1>2, <3>1, MessageFields DEF ManagerStart, NeedRefresh
    <2>2. transaction_states' = HandleStart(transaction_states, m.id)
      BY <1>2, <2>1 DEF ManagerStart, HandleMessage
    <2>3. m.id \in Transactions /\ transaction_states \in Seq(TransactionState)
      BY <2>1, MessageFields DEF TypeOK
    <2> HIDE DEF m
    <2>4. Len(transaction_states') >= Len(transaction_states)
      <3>1. CASE transaction_states = <<>>
        BY <2>2, <2>3, <3>1, HandleStartDeque
      <3>2. CASE transaction_states # <<>>
        <4> DEFINE last == transaction_states[Len(transaction_states)].transaction_id
                   more == IF last < m.id THEN m.id - last ELSE 0
        <4>1. last \in Nat /\ m.id \in Nat
          <5>1. \A s \in TransactionState : s.transaction_id \in Transactions
            BY DEF TransactionState
          <5> QED
            BY <2>3, <3>2, <5>1, BoundAssumption DEF Transactions
        <4>2. Len(transaction_states') = Len(transaction_states) + more
          BY <2>2, <2>3, <3>2, HandleStartDeque
        <4> QED
          BY <2>3, <4>1, <4>2
      <3> QED
        BY <3>1, <3>2
    <2> QED
      BY <1>2, <2>3, <2>4, PlannerTypes DEF ManagerStart, PlannerInDeque, TypeOK, PlannerPcs
  <1>3. CASE ManagerRefresh
    BY <1>3 DEF ManagerRefresh, StartPlanning, Visiting, PlannerInDeque
  <1>4. CASE PlannerStep
    <2>1. planner \in PlannerPcs /\ transaction_states' = transaction_states
      BY <1>4 DEF TypeOK, PlannerPcs, PlannerStep, SimpleFinalize, SimpleAssign, SimpleReturn,
                  RankReturn, RankVisit, RankAssign, RankSkip, RankNext
    <2>2. CASE SimpleFinalize \/ SimpleAssign \/ SimpleReturn \/ RankReturn \/ RankNext
      BY <2>2 DEF SimpleFinalize, SimpleAssign, SimpleReturn, RankReturn, RankNext,
                  Stopped, Visiting, PlannerInDeque
    <2>3. CASE RankVisit
      BY <2>1, <2>3 DEF RankVisit, CanVisit, Assigning, PlannerInDeque
    <2>4. CASE RankAssign
      BY <2>1, <2>4 DEF RankAssign, Assigning, PlannerInDeque
    <2>5. CASE RankSkip
      <3>1. planner'.pc = planner.pc /\ planner'.i = planner.i
        BY <2>1, <2>5, PlannerTypes DEF RankSkip, PlannerPcs
      <3> QED
        BY <2>1, <3>1 DEF PlannerInDeque
    <2> QED
      BY <1>4, <2>2, <2>3, <2>4, <2>5 DEF PlannerStep
  <1> QED
    <2>1. CASE Next
      BY <2>1, <1>1, <1>2, <1>3, <1>4
         DEF Next, ManagerStep, ManagerStop, Rest, plannerVars, vars
    <2>2. CASE UNCHANGED vars
      BY <2>2, <1>1 DEF vars, plannerVars
    <2> QED
      BY <2>1, <2>2

\* Every step keeps the types.
LEMMA NextTypeOK ==
    ASSUME TypeOK, PlannerInDeque, [Next]_vars
    PROVE  TypeOK'
  <1>1. CASE Next
    <2>1. CASE Rest
      BY <2>1 DEF Rest, vars, plannerVars, executorVars, userVars, taskVars,
                  acceptedVars, hookVars, TypeOK
    <2> QED
      BY <1>1, <2>1, UserTypeOK, ExecutorTypeOK, WorkerTypeOK, ManagerTypeOK, PlannerTypeOK
         DEF Next
  <1>2. CASE UNCHANGED vars
    BY <1>2 DEF vars, plannerVars, executorVars, userVars, taskVars,
                acceptedVars, hookVars, TypeOK
  <1> QED
    BY <1>1, <1>2

\* Every variable of the engine keeps its type, whatever the dependency graph,
\* the planner, the number of workers and the number of transactions
\* (executor.hpp:98-118, planner.hpp:114-138, transaction.hpp:68-122).
THEOREM TypeCorrect == Spec => []TypeOK
  <1>1. Init => TypeOK /\ PlannerInDeque
    BY InitTypeOK DEF Init, PlannerInit, PlannerInDeque, Stopped
  <1>2. TypeOK /\ PlannerInDeque /\ [Next]_vars => (TypeOK /\ PlannerInDeque)'
    BY NextTypeOK, PlannerInDequeKept
  <1> QED
    BY <1>1, <1>2, PTL DEF Spec

-----------------------------------------------------------------------------
(* The order of ends: what keeps each part of OrderInv.                    *)

DoneKept == \A s \in Transactions : status[s] = "done" => status'[s] = "done"
AnnouncedKept == \A s \in Transactions : Announced(s) => Announced(s)'

\* What a step can do to each queue, m being the message it pushes, if any.
ExecutorQueueStep(m) ==
    \/ executor_messages' = executor_messages
    \/ executor_messages # <<>> /\ executor_messages' = Tail(executor_messages)
    \/ m \in ExecutorMessage /\ executor_messages' = Append(executor_messages, m)

PlannerQueueStep(m) ==
    \/ planner_messages' = planner_messages
    \/ planner_messages # <<>> /\ planner_messages' = Tail(planner_messages)
    \/ m \in PlannerMessage /\ planner_messages' = Append(planner_messages, m)

PopsRegister(t) ==
    /\ executor_messages # <<>>
    /\ executor_messages' = Tail(executor_messages)
    /\ Head(executor_messages) = Register(t)

PopsStart(t) ==
    /\ planner_messages # <<>>
    /\ planner_messages' = Tail(planner_messages)
    /\ Head(planner_messages) = Start(t)

\* Transactions older than a transaction are transactions.
LEMMA OlderTransactions ==
    /\ \A t \in Transactions : t \in Nat /\ 0 .. (t - 1) \subseteq Transactions
    /\ \A s, t \in Transactions : t = s \/ t < s \/ s < t
    /\ 0 .. (MaxTransactions - 1) = Transactions
  BY BoundAssumption DEF Transactions

\* FinalizeReady survives a step that pushes no premature proposal.
LEMMA FinalizeReadyKept ==
    ASSUME TypeOK, FinalizeReady, DoneKept,
           NEW m, ExecutorQueueStep(m),
           executor_messages' = Append(executor_messages, m) /\ m.type = "Finalize" =>
             \A s \in 0 .. (m.id - 1) : status'[s] = "done"
    PROVE  FinalizeReady'
  <1>1. executor_messages \in Seq(ExecutorMessage)
    BY DEF TypeOK
  <1>2. SUFFICES ASSUME NEW i \in 1 .. Len(executor_messages'),
                        executor_messages'[i].type = "Finalize",
                        NEW s \in 0 .. (executor_messages'[i].id - 1)
                 PROVE  status'[s] = "done"
    BY DEF FinalizeReady
  <1>3. ASSUME NEW k \in 1 .. Len(executor_messages),
               executor_messages'[i] = executor_messages[k]
        PROVE  status'[s] = "done"
    <2>1. status[s] = "done"
      BY <1>2, <1>3 DEF FinalizeReady
    <2>2. executor_messages[k].id \in Transactions
      BY <1>1, MessageFields
    <2>3. s \in Transactions
      BY <1>3, <2>2, OlderTransactions
    <2> QED
      BY <2>1, <2>3 DEF DoneKept
  <1>4. CASE executor_messages' = executor_messages
    BY <1>3, <1>4
  <1>5. CASE executor_messages # <<>> /\ executor_messages' = Tail(executor_messages)
    BY <1>1, <1>3, <1>5
  <1>6. CASE m \in ExecutorMessage /\ executor_messages' = Append(executor_messages, m)
    <2>1. i \in 1 .. Len(executor_messages) \/ executor_messages'[i] = m
      BY <1>1, <1>6
    <2>2. i \in 1 .. Len(executor_messages) => executor_messages'[i] = executor_messages[i]
      BY <1>1, <1>6
    <2> QED
      BY <1>2, <1>3, <1>6, <2>1, <2>2
  <1> QED
    BY <1>4, <1>5, <1>6 DEF ExecutorQueueStep

\* RegistersInOrder survives a step that announces the Register message it pops
\* and pushes one only after those of all older transactions.
LEMMA RegistersInOrderKept ==
    ASSUME TypeOK, RegistersInOrder, AnnouncedKept,
           NEW m, ExecutorQueueStep(m),
           \A t \in Transactions : PopsRegister(t) => Announced(t)',
           executor_messages' = Append(executor_messages, m) /\ m.type = "Register" =>
             \A s \in 0 .. (m.id - 1) :
               \/ Announced(s)'
               \/ \E j \in 1 .. Len(executor_messages) : executor_messages[j] = Register(s)
    PROVE  RegistersInOrder'
  <1>1. executor_messages \in Seq(ExecutorMessage)
    BY DEF TypeOK
  <1>2. SUFFICES ASSUME NEW i \in 1 .. Len(executor_messages'),
                        executor_messages'[i].type = "Register",
                        NEW s \in 0 .. (executor_messages'[i].id - 1)
                 PROVE  \/ Announced(s)'
                        \/ \E j \in 1 .. (i - 1) : executor_messages'[j] = Register(s)
    BY DEF RegistersInOrder
  <1>3. ASSUME NEW k \in 1 .. Len(executor_messages),
               executor_messages'[i] = executor_messages[k]
        PROVE  \/ Announced(s)'
               \/ \E j \in 1 .. (k - 1) : executor_messages[j] = Register(s)
    <2>1. \/ Announced(s)
          \/ \E j \in 1 .. (k - 1) : executor_messages[j] = Register(s)
      BY <1>2, <1>3 DEF RegistersInOrder
    <2>2. executor_messages[k].id \in Transactions
      BY <1>1, MessageFields
    <2>3. s \in Transactions
      BY <1>3, <2>2, OlderTransactions
    <2> QED
      BY <2>1, <2>3 DEF AnnouncedKept
  <1>4. CASE executor_messages' = executor_messages
    BY <1>3, <1>4
  <1>5. CASE executor_messages # <<>> /\ executor_messages' = Tail(executor_messages)
    <2>1. /\ i + 1 \in 1 .. Len(executor_messages)
          /\ executor_messages'[i] = executor_messages[i + 1]
          /\ \A j \in 1 .. i : j # 1 => /\ j - 1 \in 1 .. (i - 1)
                                        /\ executor_messages'[j - 1] = executor_messages[j]
          /\ Head(executor_messages) = executor_messages[1]
      BY <1>1, <1>5
    <2>2. ASSUME NEW j \in 1 .. i, executor_messages[j] = Register(s)
          PROVE  \/ Announced(s)'
                 \/ \E l \in 1 .. (i - 1) : executor_messages'[l] = Register(s)
      <3>1. CASE j = 1
        <4>1. s \in Transactions
          <5>1. executor_messages'[i].id \in Transactions
            BY <1>1, <2>1, MessageFields
          <5> QED
            BY <5>1, OlderTransactions
        <4>2. Head(executor_messages) = Register(s)
          BY <2>1, <2>2, <3>1
        <4> QED
          BY <1>5, <4>1, <4>2 DEF PopsRegister
      <3>2. CASE j # 1
        BY <2>1, <2>2, <3>2
      <3> QED
        BY <3>1, <3>2
    <2>3. \/ Announced(s)'
          \/ \E j \in 1 .. ((i + 1) - 1) : executor_messages[j] = Register(s)
      BY <1>3, <2>1
    <2> QED
      BY <2>2, <2>3
  <1>6. CASE m \in ExecutorMessage /\ executor_messages' = Append(executor_messages, m)
    <2>1. /\ i \in 1 .. Len(executor_messages) \/ (i = Len(executor_messages) + 1)
          /\ executor_messages'[Len(executor_messages) + 1] = m
          /\ \A k \in 1 .. Len(executor_messages) :
               executor_messages'[k] = executor_messages[k]
          /\ Len(executor_messages) \in Nat
      BY <1>1, <1>6
    <2>2. CASE i \in 1 .. Len(executor_messages)
      <3>1. \/ Announced(s)'
            \/ \E j \in 1 .. (i - 1) : executor_messages[j] = Register(s)
        BY <1>3, <2>1, <2>2
      <3>2. \A j \in 1 .. (i - 1) : executor_messages'[j] = executor_messages[j]
        BY <2>1, <2>2
      <3> QED
        BY <3>1, <3>2
    <2>3. CASE i = Len(executor_messages) + 1
      <3>1. \/ Announced(s)'
            \/ \E j \in 1 .. Len(executor_messages) : executor_messages[j] = Register(s)
        BY <1>2, <1>6, <2>1, <2>3
      <3>2. i - 1 = Len(executor_messages)
        BY <2>1, <2>3
      <3> QED
        BY <2>1, <3>1, <3>2
    <2> QED
      BY <2>1, <2>2, <2>3
  <1> QED
    BY <1>4, <1>5, <1>6 DEF ExecutorQueueStep

\* So does NoneForgotten, when no transaction is created.
LEMMA NoneForgottenKept ==
    ASSUME TypeOK, NoneForgotten, AnnouncedKept,
           next_transaction_id' = next_transaction_id,
           NEW m, ExecutorQueueStep(m),
           \A t \in Transactions : PopsRegister(t) => Announced(t)'
    PROVE  NoneForgotten'
  <1>1. executor_messages \in Seq(ExecutorMessage) /\ next_transaction_id \in 0 .. MaxTransactions
    BY DEF TypeOK
  <1>2. SUFFICES ASSUME NEW s \in 0 .. (next_transaction_id - 1)
                 PROVE  \/ Announced(s)'
                        \/ \E j \in 1 .. Len(executor_messages') :
                             executor_messages'[j] = Register(s)
    BY DEF NoneForgotten
  <1>3. s \in Transactions
    BY <1>1, BoundAssumption DEF Transactions
  <1>4. \/ Announced(s)'
        \/ \E j \in 1 .. Len(executor_messages) : executor_messages[j] = Register(s)
    BY <1>3 DEF NoneForgotten, AnnouncedKept
  <1>5. ASSUME NEW j \in 1 .. Len(executor_messages), executor_messages[j] = Register(s)
        PROVE  \/ Announced(s)'
               \/ \E l \in 1 .. Len(executor_messages') : executor_messages'[l] = Register(s)
    <2>1. CASE executor_messages' = executor_messages
      BY <1>5, <2>1
    <2>2. CASE executor_messages # <<>> /\ executor_messages' = Tail(executor_messages)
      <3>1. CASE j = 1
        <4>1. Head(executor_messages) = Register(s)
          BY <1>1, <1>5, <2>2, <3>1
        <4> QED
          BY <1>3, <2>2, <4>1 DEF PopsRegister
      <3>2. CASE j # 1
        <4>1. j - 1 \in 1 .. Len(executor_messages')
              /\ executor_messages'[j - 1] = executor_messages[j]
          BY <1>1, <2>2, <3>2
        <4> QED
          BY <1>5, <4>1
      <3> QED
        BY <3>1, <3>2
    <2>3. CASE m \in ExecutorMessage /\ executor_messages' = Append(executor_messages, m)
      <3>1. j \in 1 .. Len(executor_messages') /\ executor_messages'[j] = executor_messages[j]
        BY <1>1, <2>3
      <3> QED
        BY <1>5, <3>1
    <2> QED
      BY <2>1, <2>2, <2>3 DEF ExecutorQueueStep
  <1> QED
    BY <1>4, <1>5

Settled(s) == status[s] = "done" \/ InDeque(s)
SettledKept == \A s \in Transactions : Settled(s) => Settled(s)'

\* StartsInOrder survives a step that settles the Start message it pops and
\* pushes one only after those of all older transactions.
LEMMA StartsInOrderKept ==
    ASSUME TypeOK, StartsInOrder, SettledKept,
           NEW m, PlannerQueueStep(m),
           \A t \in Transactions : PopsStart(t) => Settled(t)',
           planner_messages' = Append(planner_messages, m) /\ m.type = "Start" =>
             \A s \in 0 .. (m.id - 1) :
               \/ Settled(s)'
               \/ \E j \in 1 .. Len(planner_messages) : planner_messages[j] = Start(s)
    PROVE  StartsInOrder'
  <1>1. planner_messages \in Seq(PlannerMessage)
    BY DEF TypeOK
  <1>2. SUFFICES ASSUME NEW i \in 1 .. Len(planner_messages'),
                        planner_messages'[i].type = "Start",
                        NEW s \in 0 .. (planner_messages'[i].id - 1)
                 PROVE  \/ Settled(s)'
                        \/ \E j \in 1 .. (i - 1) : planner_messages'[j] = Start(s)
    BY DEF StartsInOrder, Settled
  <1>3. ASSUME NEW k \in 1 .. Len(planner_messages),
               planner_messages'[i] = planner_messages[k]
        PROVE  /\ s \in Transactions
               /\ \/ Settled(s)'
                  \/ \E j \in 1 .. (k - 1) : planner_messages[j] = Start(s)
    <2>1. \/ Settled(s)
          \/ \E j \in 1 .. (k - 1) : planner_messages[j] = Start(s)
      BY <1>2, <1>3 DEF StartsInOrder, Settled
    <2>2. planner_messages[k].id \in Transactions
      BY <1>1, MessageFields
    <2>3. s \in Transactions
      BY <1>3, <2>2, OlderTransactions
    <2> QED
      BY <2>1, <2>3 DEF SettledKept
  <1>4. CASE planner_messages' = planner_messages
    BY <1>3, <1>4
  <1>5. CASE planner_messages # <<>> /\ planner_messages' = Tail(planner_messages)
    <2>1. /\ i + 1 \in 1 .. Len(planner_messages)
          /\ planner_messages'[i] = planner_messages[i + 1]
          /\ \A j \in 1 .. i : j # 1 => /\ j - 1 \in 1 .. (i - 1)
                                        /\ planner_messages'[j - 1] = planner_messages[j]
          /\ Head(planner_messages) = planner_messages[1]
      BY <1>1, <1>5
    <2>2. /\ s \in Transactions
          /\ \/ Settled(s)'
             \/ \E j \in 1 .. ((i + 1) - 1) : planner_messages[j] = Start(s)
      BY <1>3, <2>1
    <2>3. ASSUME NEW j \in 1 .. i, planner_messages[j] = Start(s)
          PROVE  \/ Settled(s)'
                 \/ \E l \in 1 .. (i - 1) : planner_messages'[l] = Start(s)
      <3>1. CASE j = 1
        <4>1. Head(planner_messages) = Start(s)
          BY <2>1, <2>3, <3>1
        <4> QED
          BY <1>5, <2>2, <4>1 DEF PopsStart
      <3>2. CASE j # 1
        BY <2>1, <2>3, <3>2
      <3> QED
        BY <3>1, <3>2
    <2> QED
      BY <2>2, <2>3
  <1>6. CASE m \in PlannerMessage /\ planner_messages' = Append(planner_messages, m)
    <2>1. /\ i \in 1 .. Len(planner_messages) \/ i = Len(planner_messages) + 1
          /\ planner_messages'[Len(planner_messages) + 1] = m
          /\ \A k \in 1 .. Len(planner_messages) : planner_messages'[k] = planner_messages[k]
          /\ Len(planner_messages) \in Nat
      BY <1>1, <1>6
    <2>2. CASE i \in 1 .. Len(planner_messages)
      <3>1. \/ Settled(s)'
            \/ \E j \in 1 .. (i - 1) : planner_messages[j] = Start(s)
        BY <1>3, <2>1, <2>2
      <3>2. \A j \in 1 .. (i - 1) : planner_messages'[j] = planner_messages[j]
        BY <2>1, <2>2
      <3> QED
        BY <3>1, <3>2
    <2>3. CASE i = Len(planner_messages) + 1
      <3>1. \/ Settled(s)'
            \/ \E j \in 1 .. Len(planner_messages) : planner_messages[j] = Start(s)
        BY <1>2, <1>6, <2>1, <2>3
      <3>2. i - 1 = Len(planner_messages)
        BY <2>1, <2>3
      <3> QED
        BY <2>1, <3>1, <3>2
    <2> QED
      BY <2>1, <2>2, <2>3
  <1> QED
    BY <1>4, <1>5, <1>6 DEF PlannerQueueStep

\* What was announced stays so under the same conditions.
LEMMA AnnouncedStays ==
    ASSUME TypeOK, SettledKept,
           NEW m, PlannerQueueStep(m),
           \A t \in Transactions : PopsStart(t) => Settled(t)'
    PROVE  AnnouncedKept
  <1>1. planner_messages \in Seq(PlannerMessage)
    BY DEF TypeOK
  <1>2. SUFFICES ASSUME NEW s \in Transactions, Announced(s)
                 PROVE  \/ Settled(s)'
                        \/ \E j \in 1 .. Len(planner_messages') : planner_messages'[j] = Start(s)
    BY DEF AnnouncedKept, Announced, Settled
  <1>3. CASE Settled(s)
    BY <1>3 DEF SettledKept
  <1>4. ASSUME NEW j \in 1 .. Len(planner_messages), planner_messages[j] = Start(s)
        PROVE  \/ Settled(s)'
               \/ \E l \in 1 .. Len(planner_messages') : planner_messages'[l] = Start(s)
    <2>1. CASE planner_messages' = planner_messages
      BY <1>4, <2>1
    <2>2. CASE planner_messages # <<>> /\ planner_messages' = Tail(planner_messages)
      <3>1. CASE j = 1
        <4>1. Head(planner_messages) = Start(s)
          BY <1>1, <1>4, <2>2, <3>1
        <4> QED
          BY <2>2, <4>1 DEF PopsStart
      <3>2. CASE j # 1
        <4>1. j - 1 \in 1 .. Len(planner_messages')
              /\ planner_messages'[j - 1] = planner_messages[j]
          BY <1>1, <2>2, <3>2
        <4> QED
          BY <1>4, <4>1
      <3> QED
        BY <3>1, <3>2
    <2>3. CASE m \in PlannerMessage /\ planner_messages' = Append(planner_messages, m)
      <3>1. j \in 1 .. Len(planner_messages') /\ planner_messages'[j] = planner_messages[j]
        BY <1>1, <2>3
      <3> QED
        BY <1>4, <3>1
    <2> QED
      BY <2>1, <2>2, <2>3 DEF PlannerQueueStep
  <1> QED
    BY <1>2, <1>3, <1>4 DEF Announced, Settled

\* FinishEnded survives a step that pushes a Finish message only for a
\* transaction that is over, and hands the manager no other one.
LEMMA FinishEndedKept ==
    ASSUME TypeOK, FinishEnded, DoneKept,
           NEW m, PlannerQueueStep(m),
           planner_messages' = Append(planner_messages, m) /\ m.type = "Finish" =>
             status'[m.id] = "done",
           \/ manager' = manager
           \/ manager' = Idle
           \/ planner_messages # <<>> /\ manager' = Joining(Head(planner_messages))
    PROVE  FinishEnded'
  <1>1. planner_messages \in Seq(PlannerMessage)
    BY DEF TypeOK
  <1>2. \A k \in 1 .. Len(planner_messages) :
          planner_messages[k].type = "Finish" => status'[planner_messages[k].id] = "done"
    <2>1. \A k \in 1 .. Len(planner_messages) : planner_messages[k].id \in Transactions
      BY <1>1, MessageFields
    <2> QED
      BY <2>1 DEF FinishEnded, DoneKept
  <1>3. ASSUME NEW i \in 1 .. Len(planner_messages'), planner_messages'[i].type = "Finish"
        PROVE  status'[planner_messages'[i].id] = "done"
    <2>1. CASE planner_messages' = planner_messages
      BY <1>2, <1>3, <2>1
    <2>2. CASE planner_messages # <<>> /\ planner_messages' = Tail(planner_messages)
      <3>1. i + 1 \in 1 .. Len(planner_messages) /\ planner_messages'[i] = planner_messages[i + 1]
        BY <1>1, <2>2
      <3> QED
        BY <1>2, <1>3, <3>1
    <2>3. CASE m \in PlannerMessage /\ planner_messages' = Append(planner_messages, m)
      <3>1. \/ i \in 1 .. Len(planner_messages) /\ planner_messages'[i] = planner_messages[i]
            \/ planner_messages'[i] = m
        BY <1>1, <2>3
      <3> QED
        BY <1>2, <1>3, <2>3, <3>1
    <2> QED
      BY <2>1, <2>2, <2>3 DEF PlannerQueueStep
  <1>4. manager'.pc = "joining" /\ manager'.message.type = "Finish" =>
          status'[manager'.message.id] = "done"
    <2>1. CASE manager' = manager
      <3>1. manager.pc = "joining" => manager.message \in PlannerMessage
        BY DEF TypeOK, PlannerMessage
      <3>2. manager.pc = "joining" => manager.message.id \in Transactions
        BY <3>1, MessageFields
      <3> QED
        BY <2>1, <3>2 DEF FinishEnded, DoneKept
    <2>2. CASE manager' = Idle
      BY <2>2 DEF Idle
    <2>3. CASE planner_messages # <<>> /\ manager' = Joining(Head(planner_messages))
      <3>1. 1 \in 1 .. Len(planner_messages) /\ Head(planner_messages) = planner_messages[1]
        BY <1>1, <2>3
      <3> QED
        BY <1>2, <2>3, <3>1 DEF Joining
    <2> QED
      BY <2>1, <2>2, <2>3
  <1> QED
    BY <1>3, <1>4 DEF FinishEnded

\* The Executor's map and the Execute messages still agree with the users after
\* a step of neither.
LEMMA HeldKept ==
    ASSUME TypeOK, HeldWhileSubmitted,
           UNCHANGED <<status, next_transaction_id, transactions>>,
           NEW m, ExecutorQueueStep(m),
           executor_messages' = Append(executor_messages, m) => m.type # "Execute"
    PROVE  HeldWhileSubmitted'
  <1>1. executor_messages \in Seq(ExecutorMessage)
    BY DEF TypeOK
  <1>2. ASSUME NEW i \in 1 .. Len(executor_messages'), executor_messages'[i].type = "Execute"
        PROVE  /\ status[executor_messages'[i].id] = "submitted"
               /\ executor_messages'[i].id \notin transactions
               /\ \A j \in 1 .. Len(executor_messages') :
                    executor_messages'[j] = executor_messages'[i] => j = i
    <2>1. CASE executor_messages' = executor_messages
      BY <1>2, <2>1 DEF HeldWhileSubmitted
    <2>2. CASE executor_messages # <<>> /\ executor_messages' = Tail(executor_messages)
      <3>1. \A k \in 1 .. Len(executor_messages') :
              /\ k + 1 \in 1 .. Len(executor_messages)
              /\ executor_messages'[k] = executor_messages[k + 1]
        BY <1>1, <2>2
      <3>2. \A j \in 1 .. Len(executor_messages') :
              executor_messages'[j] = executor_messages'[i] => j + 1 = i + 1
        BY <1>2, <3>1 DEF HeldWhileSubmitted
      <3> QED
        BY <1>2, <3>1, <3>2 DEF HeldWhileSubmitted
    <2>3. CASE m \in ExecutorMessage /\ executor_messages' = Append(executor_messages, m)
      <3>1. \A k \in 1 .. Len(executor_messages') :
              \/ /\ k \in 1 .. Len(executor_messages)
                 /\ executor_messages'[k] = executor_messages[k]
              \/ executor_messages'[k] = m
        BY <1>1, <2>3
      <3>2. /\ i \in 1 .. Len(executor_messages)
            /\ executor_messages'[i] = executor_messages[i]
        BY <1>2, <2>3, <3>1
      <3>3. \A j \in 1 .. Len(executor_messages') :
              executor_messages'[j] = executor_messages'[i] => j \in 1 .. Len(executor_messages)
                                                            /\ executor_messages[j] = executor_messages[i]
        BY <1>2, <2>3, <3>1, <3>2
      <3> QED
        BY <1>2, <3>2, <3>3 DEF HeldWhileSubmitted
    <2> QED
      BY <2>1, <2>2, <2>3 DEF ExecutorQueueStep
  <1> QED
    BY <1>2 DEF HeldWhileSubmitted

\* The parts of OrderInv other than the types.
OrderCore ==
    /\ InOrder
    /\ FinalizeReady
    /\ FrontOldest
    /\ ConsecutiveIds
    /\ FinishEnded
    /\ StartsInOrder
    /\ RegistersInOrder
    /\ NoneForgotten
    /\ HeldWhileSubmitted

\* A queue that is left alone is neither popped nor pushed to, and so on.
LEMMA QueueStepsDiffer ==
    ASSUME NEW S, NEW q \in Seq(S)
    PROVE  /\ \A m : Append(q, m) # q
           /\ q # <<>> => Tail(q) # q
           /\ q # <<>> => \A m : Append(q, m) # Tail(q)
  <1>1. Len(q) \in Nat /\ \A m : Len(Append(q, m)) = Len(q) + 1
    OBVIOUS
  <1>2. q # <<>> => Len(Tail(q)) = Len(q) - 1
    OBVIOUS
  <1> QED
    BY <1>1, <1>2

\* They survive every step that changes neither the transactions nor the deque
\* and handles neither a Register nor a Start message.
LEMMA QuietStep ==
    ASSUME TypeOK, OrderCore,
           UNCHANGED <<status, next_transaction_id, transactions, transaction_states>>,
           NEW m,
           \/ executor_messages' = executor_messages
           \/ /\ executor_messages # <<>> /\ executor_messages' = Tail(executor_messages)
              /\ Head(executor_messages).type # "Register"
           \/ /\ m \in ExecutorMessage /\ executor_messages' = Append(executor_messages, m)
              /\ m.type \in {"StartUpdate", "Finalize"}
              /\ m.type = "Finalize" => \A s \in 0 .. (m.id - 1) : status[s] = "done",
           NEW p,
           \/ planner_messages' = planner_messages
           \/ /\ planner_messages # <<>> /\ planner_messages' = Tail(planner_messages)
              /\ Head(planner_messages).type # "Start"
           \/ /\ p \in PlannerMessage /\ planner_messages' = Append(planner_messages, p)
              /\ p.type = "Update",
           \/ manager' = manager
           \/ manager' = Idle
           \/ planner_messages # <<>> /\ manager' = Joining(Head(planner_messages))
    PROVE  OrderCore'
  <1>q. executor_messages \in Seq(ExecutorMessage) /\ planner_messages \in Seq(PlannerMessage)
    BY DEF TypeOK
  <1>e. /\ ExecutorQueueStep(m)
        /\ executor_messages # <<>> /\ executor_messages' = Tail(executor_messages) =>
             Head(executor_messages).type # "Register"
        /\ executor_messages' = Append(executor_messages, m) =>
             /\ m.type \in {"StartUpdate", "Finalize"}
             /\ m.type = "Finalize" => \A s \in 0 .. (m.id - 1) : status[s] = "done"
    BY <1>q, QueueStepsDiffer DEF ExecutorQueueStep
  <1>p. /\ PlannerQueueStep(p)
        /\ planner_messages # <<>> /\ planner_messages' = Tail(planner_messages) =>
             Head(planner_messages).type # "Start"
        /\ planner_messages' = Append(planner_messages, p) => p.type = "Update"
    BY <1>q, QueueStepsDiffer DEF PlannerQueueStep
  <1> USE DEF OrderCore
  <1>1. DoneKept /\ SettledKept
    BY DEF DoneKept, SettledKept, Settled, InDeque
  <1>a. \A t \in Transactions : ~PopsStart(t)
    BY <1>p DEF PopsStart, Start
  <1>b. \A t \in Transactions : ~PopsRegister(t)
    BY <1>e DEF PopsRegister, Register
  <1>c. ~(planner_messages' = Append(planner_messages, p) /\ p.type = "Start")
    BY <1>p
  <1>d. ~(executor_messages' = Append(executor_messages, m) /\ m.type = "Register")
    BY <1>e
  <1>2. AnnouncedKept
    BY <1>1, <1>p, <1>a, AnnouncedStays
  <1>3. InOrder' /\ FrontOldest' /\ ConsecutiveIds'
    BY DEF InOrder, FrontOldest, ConsecutiveIds, FrontId
  <1>4. FinalizeReady'
    BY <1>1, <1>e, FinalizeReadyKept
  <1>5. FinishEnded'
    BY <1>1, <1>p, FinishEndedKept
  <1>6. StartsInOrder'
    BY <1>1, <1>a, <1>c, <1>p, StartsInOrderKept
  <1>7. RegistersInOrder'
    BY <1>2, <1>b, <1>d, <1>e, RegistersInOrderKept
  <1>8. NoneForgotten'
    BY <1>2, <1>b, <1>e, NoneForgottenKept
  <1>9. HeldWhileSubmitted'
    BY <1>e, HeldKept
  <1> QED
    BY <1>3, <1>4, <1>5, <1>6, <1>7, <1>8, <1>9

\* The workers of the pool only report updates.
LEMMA WorkerOrder ==
    ASSUME TypeOK, OrderCore, WorkerStep, UNCHANGED plannerVars
    PROVE  OrderCore'
  <1> DEFINE Reports(p) == \/ planner_messages' = planner_messages
                           \/ /\ p \in PlannerMessage
                              /\ planner_messages' = Append(planner_messages, p)
                              /\ p.type = "Update"
  <1>1. /\ UNCHANGED <<status, next_transaction_id, transactions, transaction_states>>
        /\ UNCHANGED <<executor_messages, manager>>
    BY DEF WorkerStep, TakeTask, TaskStep, ReportNow, GenerateSubTransaction,
           RegisterExecutionResult, ReportFinish, userVars, acceptedVars, plannerVars
  <1>2. \E p : Reports(p)
    <2>1. CASE TakeTask
      BY <2>1 DEF TakeTask
    <2>2. ASSUME NEW t \in Transactions, NEW c \in Clusters, TaskStep(t, c)
          PROVE  \E p : Reports(p)
      <3>1. CASE ReportNow(t, c)
        <4>1. Update(t, {c}, {}, {}) \in PlannerMessage
          BY MessageTypes
        <4> QED
          BY <3>1, <4>1 DEF ReportNow, PushPlanner, Update
      <3>2. CASE ReportFinish(t, c)
        <4>1. futures[t][c] \in SUBSET Clusters
          BY DEF TypeOK
        <4>2. Update(t, {}, futures[t][c], {c}) \in PlannerMessage
          BY <4>1, MessageTypes
        <4> QED
          BY <3>2, <4>2 DEF ReportFinish, PushPlanner, Update
      <3> QED
        BY <2>2, <3>1, <3>2 DEF TaskStep, GenerateSubTransaction, RegisterExecutionResult
    <2> QED
      BY <2>1, <2>2 DEF WorkerStep
  <1>3. PICK p : Reports(p)
    BY <1>2
  <1> HIDE DEF Reports
  <1> QED
    BY <1>1, <1>3, QuietStep DEF Reports

\* The planner thread proposes to finalize the front of the deque only.
LEMMA PlannerOrder ==
    ASSUME TypeOK, OrderCore, PlannerInDeque, PlannerStep, UNCHANGED executorVars
    PROVE  OrderCore'
  <1> DEFINE Proposes(m) ==
               \/ executor_messages' = executor_messages
               \/ /\ m \in ExecutorMessage
                  /\ executor_messages' = Append(executor_messages, m)
                  /\ m.type \in {"StartUpdate", "Finalize"}
                  /\ m.type = "Finalize" => \A s \in 0 .. (m.id - 1) : status[s] = "done"
  <1>1. /\ UNCHANGED <<status, next_transaction_id, transactions>>
        /\ UNCHANGED <<planner_messages, transaction_states, manager>>
    BY DEF PlannerStep, SimpleFinalize, SimpleAssign, SimpleReturn, RankReturn, RankVisit,
           RankAssign, RankSkip, RankNext, executorVars, userVars, acceptedVars
  <1>3. transaction_states \in Seq(TransactionState)
    BY DEF TypeOK
  <1>2. \A i \in 1 .. Len(transaction_states) :
          transaction_states[i].transaction_id \in Transactions
    <2>1. \A s \in TransactionState : s.transaction_id \in Transactions
      BY DEF TransactionState
    <2> QED
      BY <1>3, <2>1
  <1>4. ASSUME transaction_states # <<>>,
               executor_messages' = Append(executor_messages, Finalize(FrontId))
        PROVE  \E m : Proposes(m)
    <2>1. FrontId \in Transactions
      BY <1>2, <1>3, <1>4 DEF FrontId
    <2>2. Finalize(FrontId) \in ExecutorMessage
      BY <2>1, MessageTypes
    <2>3. /\ Finalize(FrontId).type = "Finalize"
          /\ Finalize(FrontId).id = FrontId
      BY DEF Finalize
    <2>4. \A s \in 0 .. (FrontId - 1) : status[s] = "done"
      BY <1>4 DEF OrderCore, FrontOldest
    <2>5. Proposes(Finalize(FrontId))
      BY <1>4, <2>2, <2>3, <2>4
    <2> QED
      BY <2>5
  <1>5. ASSUME NEW i \in 1 .. Len(transaction_states), NEW c \in Clusters,
               executor_messages' =
                 Append(executor_messages, StartUpdate(transaction_states[i].transaction_id, c))
        PROVE  \E m : Proposes(m)
    <2>1. StartUpdate(transaction_states[i].transaction_id, c) \in ExecutorMessage
      BY <1>2, MessageTypes
    <2>2. StartUpdate(transaction_states[i].transaction_id, c).type = "StartUpdate"
      BY DEF StartUpdate
    <2>3. Proposes(StartUpdate(transaction_states[i].transaction_id, c))
      BY <1>5, <2>1, <2>2
    <2> QED
      BY <2>3
  <1>6. ASSUME executor_messages' = executor_messages
        PROVE  \E m : Proposes(m)
    BY <1>6
  <1> HIDE DEF Proposes
  <1>12. \E m : Proposes(m)
    <2>1. CASE SimpleFinalize
      BY <1>4, <2>1 DEF SimpleFinalize, SimpleMayPlan, PushExecutor
    <2>2. CASE SimpleAssign
      <3>1. 1 \in 1 .. Len(transaction_states)
        BY <1>3, <2>2 DEF SimpleAssign, SimpleMayPlan
      <3> QED
        BY <1>5, <2>2, <3>1 DEF SimpleAssign, PushExecutor, FrontId
    <2>3. CASE RankAssign
      <3>1. planner.i \in 1 .. Len(transaction_states)
        BY <1>3, <2>3, PlannerTypes DEF RankAssign, PlannerInDeque, TypeOK, PlannerPcs
      <3> QED
        BY <1>5, <2>3, <3>1 DEF RankAssign, PushExecutor
    <2>4. CASE RankNext
      <3>1. planner.i \in 1 .. Len(transaction_states)
        BY <1>3, <2>4, PlannerTypes DEF RankNext, PlannerInDeque, TypeOK, PlannerPcs
      <3> QED
        BY <1>3, <1>4, <1>6, <2>4, <3>1 DEF RankNext, PushExecutor, FrontId
    <2>5. CASE SimpleReturn \/ RankReturn \/ RankVisit \/ RankSkip
      BY <1>6, <2>5 DEF SimpleReturn, RankReturn, RankVisit, RankSkip
    <2> QED
      BY <2>1, <2>2, <2>3, <2>4, <2>5 DEF PlannerStep
  <1>13. PICK m : Proposes(m)
    BY <1>12
  <1> QED
    BY <1>1, <1>13, QuietStep DEF Proposes

\* The deque holds transactions.
LEMMA DequeTypes ==
    ASSUME TypeOK
    PROVE  /\ transaction_states \in Seq(TransactionState)
           /\ \A i \in 1 .. Len(transaction_states) :
                transaction_states[i].transaction_id \in Transactions
  <1>1. transaction_states \in Seq(TransactionState)
    BY DEF TypeOK
  <1>2. \A s \in TransactionState : s.transaction_id \in Transactions
    BY DEF TransactionState
  <1> QED
    BY <1>1, <1>2

\* What OrderInv says of the deque survives a step that leaves it alone.
LEMMA DequeKept ==
    ASSUME TypeOK, OrderCore, DoneKept, UNCHANGED transaction_states
    PROVE  SettledKept /\ FrontOldest' /\ ConsecutiveIds'
  <1>1. SettledKept
    BY DEF DoneKept, SettledKept, Settled, InDeque
  <1>2. FrontOldest'
    <2>1. transaction_states # <<>> =>
            /\ 1 \in 1 .. Len(transaction_states)
            /\ 0 .. (FrontId - 1) \subseteq Transactions
      BY DequeTypes, OlderTransactions DEF FrontId
    <2> QED
      BY <2>1 DEF OrderCore, FrontOldest, FrontId, DoneKept
  <1>3. ConsecutiveIds'
    BY DEF OrderCore, ConsecutiveIds, FrontId
  <1> QED
    BY <1>1, <1>2, <1>3

\* Only a transaction the Executor holds ends, and only when it is the oldest
\* that is not over: HandleFinalize with the transaction of the message in hand.
LEMMA EndOrder ==
    ASSUME TypeOK, OrderCore, NEW t \in transactions,
           executor_messages # <<>>,
           Head(executor_messages) = Finalize(t),
           executor_messages' = Tail(executor_messages),
           status' = [status EXCEPT ![t] = "done"],
           transactions' = transactions \ {t},
           planner_messages' = Append(planner_messages, Finish(t)),
           UNCHANGED <<next_transaction_id, transaction_states, manager>>
    PROVE  OrderCore'
  <1>1. /\ executor_messages \in Seq(ExecutorMessage)
        /\ planner_messages \in Seq(PlannerMessage)
        /\ t \in Transactions
        /\ status \in [Transactions -> Statuses]
        /\ Finish(t) \in PlannerMessage
        /\ ExecutorQueueStep(Finalize(t))
        /\ PlannerQueueStep(Finish(t))
    BY MessageTypes DEF TypeOK, ExecutorQueueStep, PlannerQueueStep
  <1>2. DoneKept
    BY <1>1 DEF DoneKept
  <1>3. \A s \in 0 .. (t - 1) : status[s] = "done"
    <2>1. executor_messages[1] = Finalize(t) /\ 1 \in 1 .. Len(executor_messages)
      BY <1>1
    <2> QED
      BY <2>1 DEF OrderCore, FinalizeReady, Finalize
  <1>4. InOrder'
    <2> SUFFICES ASSUME NEW s \in Transactions, NEW u \in Transactions,
                        s < u, status'[u] = "done"
                 PROVE  status'[s] = "done"
      BY DEF InOrder
    <2>1. CASE u = t
      <3>1. s \in 0 .. (t - 1)
        BY <2>1, OlderTransactions DEF Transactions
      <3> QED
        BY <1>2, <1>3, <3>1 DEF DoneKept
    <2>2. CASE u # t
      BY <1>1, <1>2, <2>2 DEF OrderCore, InOrder, DoneKept
    <2> QED
      BY <2>1, <2>2
  <1>5. SettledKept /\ FrontOldest' /\ ConsecutiveIds'
    BY <1>2, DequeKept
  <1>6. \A u \in Transactions : ~PopsStart(u) /\ ~PopsRegister(u)
    BY <1>1, QueueStepsDiffer DEF PopsStart, PopsRegister, Finalize, Register
  <1>7. AnnouncedKept
    BY <1>1, <1>5, <1>6, AnnouncedStays
  <1>8. FinalizeReady'
    <2>1. ~(executor_messages' = Append(executor_messages, Finalize(t)))
      BY <1>1, QueueStepsDiffer
    <2> QED
      BY <1>1, <1>2, <2>1, FinalizeReadyKept DEF OrderCore
  <1>9. FinishEnded'
    <2>1. status'[Finish(t).id] = "done"
      BY <1>1 DEF Finish
    <2> QED
      BY <1>1, <1>2, <2>1, FinishEndedKept DEF OrderCore
  <1>10. StartsInOrder'
    <2>1. Finish(t).type # "Start"
      BY DEF Finish
    <2> QED
      BY <1>1, <1>5, <1>6, <2>1, StartsInOrderKept DEF OrderCore
  <1>11. RegistersInOrder'
    <2>1. Finalize(t).type # "Register"
      BY DEF Finalize
    <2> QED
      BY <1>1, <1>6, <1>7, <2>1, RegistersInOrderKept DEF OrderCore
  <1>12. NoneForgotten'
    BY <1>1, <1>6, <1>7, NoneForgottenKept DEF OrderCore
  <1>13. HeldWhileSubmitted'
    <2>1. /\ status[t] = "submitted"
          /\ \A u \in transactions : status[u] = "submitted"
          /\ \A u \in Transactions : u >= next_transaction_id => status[u] = "none"
      BY DEF OrderCore, HeldWhileSubmitted
    <2>2. /\ \A u \in transactions' : status'[u] = "submitted"
          /\ \A u \in Transactions : u >= next_transaction_id' => status'[u] = "none"
      <3>1. \A u \in Transactions : status'[u] = IF u = t THEN "done" ELSE status[u]
        BY <1>1
      <3>2. transactions' \subseteq Transactions \ {t} /\ transactions' \subseteq transactions
        BY DEF TypeOK
      <3> QED
        BY <1>1, <2>1, <3>1, <3>2
    <2>3. \A i \in 1 .. Len(executor_messages') :
            /\ i + 1 \in 1 .. Len(executor_messages)
            /\ executor_messages'[i] = executor_messages[i + 1]
            /\ executor_messages'[i].id \in Transactions
      BY <1>1, MessageFields
    <2>4. \A i \in 1 .. Len(executor_messages') : executor_messages'[i].type = "Execute" =>
            /\ status[executor_messages'[i].id] = "submitted"
            /\ executor_messages'[i].id \notin transactions
            /\ \A j \in 1 .. Len(executor_messages') :
                 executor_messages'[j] = executor_messages'[i] => j + 1 = i + 1
      BY <2>3 DEF OrderCore, HeldWhileSubmitted
    <2>5. \A i \in 1 .. Len(executor_messages') : executor_messages'[i].type = "Execute" =>
            /\ status'[executor_messages'[i].id] = "submitted"
            /\ executor_messages'[i].id \notin transactions'
            /\ \A j \in 1 .. Len(executor_messages') :
                 executor_messages'[j] = executor_messages'[i] => j = i
      <3>1. \A u \in Transactions : status'[u] = IF u = t THEN "done" ELSE status[u]
        BY <1>1
      <3>2. \A i \in 1 .. Len(executor_messages') : executor_messages'[i].type = "Execute" =>
              executor_messages'[i].id # t
        BY <2>4
      <3> QED
        BY <2>3, <2>4, <3>1, <3>2
    <2> QED
      BY <2>2, <2>5 DEF HeldWhileSubmitted
  <1> QED
    BY <1>4, <1>5, <1>8, <1>9, <1>10, <1>11, <1>12, <1>13 DEF OrderCore

\* HandleRegister announces the transactions in the order they were created in.
LEMMA RegisterOrder ==
    ASSUME TypeOK, OrderCore, HandleRegister, UNCHANGED plannerVars
    PROVE  OrderCore'
  <1> DEFINE t == Head(executor_messages).id
  <1>1. /\ executor_messages \in Seq(ExecutorMessage)
        /\ planner_messages \in Seq(PlannerMessage)
        /\ executor_messages # <<>>
        /\ executor_messages' = Tail(executor_messages)
        /\ planner_messages' = Append(planner_messages, Start(t))
        /\ UNCHANGED <<status, next_transaction_id, transactions, transaction_states, manager>>
    BY DEF TypeOK, HandleRegister, Receive, PushPlanner, userVars, acceptedVars, plannerVars
  <1>2. /\ Head(executor_messages) = executor_messages[1]
        /\ 1 \in 1 .. Len(executor_messages)
        /\ Head(executor_messages) \in ExecutorMessage
    BY <1>1
  <1>3. t \in Transactions /\ Head(executor_messages) = Register(t)
    BY <1>2, MessageFields DEF HandleRegister, Receive
  <1> HIDE DEF t
  <1>4. /\ Start(t) \in PlannerMessage
        /\ PlannerQueueStep(Start(t))
        /\ ExecutorQueueStep(Start(t))
    BY <1>1, <1>3, MessageTypes DEF PlannerQueueStep, ExecutorQueueStep
  <1>5. /\ \A m : ~(executor_messages' = Append(executor_messages, m))
        /\ \A u \in Transactions : ~PopsStart(u)
    BY <1>1, QueueStepsDiffer DEF PopsStart
  <1>6. DoneKept
    BY <1>1 DEF DoneKept
  <1>7. SettledKept /\ FrontOldest' /\ ConsecutiveIds'
    BY <1>1, <1>6, DequeKept
  <1>8. AnnouncedKept
    BY <1>4, <1>5, <1>7, AnnouncedStays
  <1>9. \A u \in Transactions : PopsRegister(u) => Announced(u)'
    <2>1. SUFFICES ASSUME NEW u \in Transactions, PopsRegister(u)
                   PROVE  \E j \in 1 .. Len(planner_messages') : planner_messages'[j] = Start(u)
      BY DEF Announced
    <2>2. u = t
      BY <1>3, <2>1 DEF PopsRegister, Register
    <2>3. /\ Len(planner_messages) + 1 \in 1 .. Len(planner_messages')
          /\ planner_messages'[Len(planner_messages) + 1] = Start(t)
      BY <1>1, <1>4
    <2> QED
      BY <2>2, <2>3
  <1>10. \A s \in 0 .. (t - 1) :
           \/ Settled(s)'
           \/ \E j \in 1 .. Len(planner_messages) : planner_messages[j] = Start(s)
    <2> SUFFICES ASSUME NEW s \in 0 .. (t - 1)
                 PROVE  \/ Settled(s)'
                        \/ \E j \in 1 .. Len(planner_messages) : planner_messages[j] = Start(s)
      OBVIOUS
    <2>1. executor_messages[1].type = "Register" /\ executor_messages[1].id = t
      BY <1>2, <1>3 DEF Register
    <2>2. Announced(s)
      BY <1>2, <2>1 DEF OrderCore, RegistersInOrder
    <2>3. s \in Transactions
      BY <1>3, OlderTransactions
    <2>4. \/ Settled(s)
          \/ \E j \in 1 .. Len(planner_messages) : planner_messages[j] = Start(s)
      BY <2>2 DEF Announced, Settled
    <2> QED
      BY <1>7, <2>3, <2>4 DEF SettledKept
  <1>11. InOrder'
    BY <1>1 DEF OrderCore, InOrder
  <1>12. FinalizeReady'
    BY <1>4, <1>5, <1>6, FinalizeReadyKept DEF OrderCore
  <1>13. FinishEnded'
    <2>1. Start(t).type # "Finish"
      BY DEF Start
    <2> QED
      BY <1>1, <1>4, <1>6, <2>1, FinishEndedKept DEF OrderCore
  <1>14. StartsInOrder'
    <2>1. Start(t).id = t
      BY DEF Start
    <2> QED
      BY <1>4, <1>5, <1>7, <1>10, <2>1, StartsInOrderKept DEF OrderCore
  <1>15. RegistersInOrder'
    BY <1>4, <1>5, <1>8, <1>9, RegistersInOrderKept DEF OrderCore
  <1>16. NoneForgotten'
    BY <1>1, <1>4, <1>8, <1>9, NoneForgottenKept DEF OrderCore
  <1>17. HeldWhileSubmitted'
    BY <1>1, <1>4, <1>5, HeldKept DEF OrderCore
  <1> QED
    BY <1>7, <1>11, <1>12, <1>13, <1>14, <1>15, <1>16, <1>17 DEF OrderCore

\* HandleExecute moves a submitted transaction from its message into the map.
LEMMA ExecuteOrder ==
    ASSUME TypeOK, OrderCore, HandleExecute, UNCHANGED plannerVars
    PROVE  OrderCore'
  <1> DEFINE t == Head(executor_messages).id
             p == Update(t, {}, targets[t], {})
  <1>1. /\ executor_messages \in Seq(ExecutorMessage)
        /\ planner_messages \in Seq(PlannerMessage)
        /\ executor_messages # <<>>
        /\ executor_messages' = Tail(executor_messages)
        /\ planner_messages' = Append(planner_messages, p)
        /\ transactions' = transactions \cup {t}
        /\ UNCHANGED <<status, next_transaction_id, transaction_states, manager>>
    BY DEF TypeOK, HandleExecute, Receive, PushPlanner, userVars, plannerVars
  <1>2. /\ Head(executor_messages) = executor_messages[1]
        /\ 1 \in 1 .. Len(executor_messages)
        /\ Head(executor_messages) \in ExecutorMessage
        /\ \A i \in 1 .. Len(executor_messages') :
             /\ i + 1 \in 1 .. Len(executor_messages)
             /\ executor_messages'[i] = executor_messages[i + 1]
    BY <1>1
  <1>3. t \in Transactions /\ Head(executor_messages) = Execute(t)
    BY <1>2, MessageFields DEF HandleExecute, Receive
  <1> HIDE DEF t
  <1>4. p.type = "Update" /\ p \in PlannerMessage
    <2>1. targets[t] \in SUBSET Clusters
      BY <1>3 DEF TypeOK
    <2> QED
      BY <1>3, <2>1, MessageTypes DEF Update
  <1> HIDE DEF p
  <1>5. PlannerQueueStep(p) /\ ExecutorQueueStep(p)
    BY <1>1, <1>4 DEF PlannerQueueStep, ExecutorQueueStep
  <1>6. /\ \A m : ~(executor_messages' = Append(executor_messages, m))
        /\ \A u \in Transactions : ~PopsStart(u) /\ ~PopsRegister(u)
    BY <1>1, <1>3, QueueStepsDiffer DEF PopsStart, PopsRegister, Execute, Register
  <1>7. DoneKept
    BY <1>1 DEF DoneKept
  <1>8. SettledKept /\ FrontOldest' /\ ConsecutiveIds'
    BY <1>1, <1>7, DequeKept
  <1>9. AnnouncedKept
    BY <1>5, <1>6, <1>8, AnnouncedStays
  <1>10. InOrder'
    BY <1>1 DEF OrderCore, InOrder
  <1>11. FinalizeReady'
    BY <1>5, <1>6, <1>7, FinalizeReadyKept DEF OrderCore
  <1>12. FinishEnded'
    BY <1>1, <1>4, <1>5, <1>7, FinishEndedKept DEF OrderCore
  <1>13. StartsInOrder'
    BY <1>4, <1>5, <1>6, <1>8, StartsInOrderKept DEF OrderCore
  <1>14. RegistersInOrder'
    BY <1>5, <1>6, <1>9, RegistersInOrderKept DEF OrderCore
  <1>15. NoneForgotten'
    BY <1>1, <1>5, <1>6, <1>9, NoneForgottenKept DEF OrderCore
  <1>16. HeldWhileSubmitted'
    <2>1. \A i \in 1 .. Len(executor_messages) : executor_messages[i].type = "Execute" =>
            /\ status[executor_messages[i].id] = "submitted"
            /\ executor_messages[i].id \notin transactions
            /\ \A j \in 1 .. Len(executor_messages) :
                 executor_messages[j] = executor_messages[i] => j = i
      BY DEF OrderCore, HeldWhileSubmitted
    <2>2. status[t] = "submitted"
      BY <1>2, <1>3, <2>1 DEF Execute
    <2>3. \A i \in 1 .. Len(executor_messages') : executor_messages'[i].type = "Execute" =>
            executor_messages'[i].id # t
      <3> SUFFICES ASSUME NEW i \in 1 .. Len(executor_messages'),
                          executor_messages'[i].type = "Execute",
                          executor_messages'[i].id = t
                   PROVE  FALSE
        OBVIOUS
      <3>1. executor_messages'[i] = Execute(t)
        <4>1. executor_messages'[i] \in ExecutorMessage
          BY <1>1, <1>2
        <4> QED
          BY <4>1, MessageFields
      <3>2. executor_messages[i + 1] = executor_messages[1]
        BY <1>2, <1>3, <3>1
      <3>3. executor_messages[1].type = "Execute"
        BY <1>2, <1>3 DEF Execute
      <3>4. i + 1 = 1
        BY <1>2, <2>1, <3>2, <3>3
      <3> QED
        BY <3>4
    <2>4. \A i \in 1 .. Len(executor_messages') : executor_messages'[i].type = "Execute" =>
            /\ status[executor_messages'[i].id] = "submitted"
            /\ executor_messages'[i].id \notin transactions
            /\ \A j \in 1 .. Len(executor_messages') :
                 executor_messages'[j] = executor_messages'[i] => j + 1 = i + 1
      BY <1>2, <2>1
    <2>5. \A i \in 1 .. Len(executor_messages') : executor_messages'[i].type = "Execute" =>
            /\ status'[executor_messages'[i].id] = "submitted"
            /\ executor_messages'[i].id \notin transactions'
            /\ \A j \in 1 .. Len(executor_messages') :
                 executor_messages'[j] = executor_messages'[i] => j = i
      BY <1>1, <2>3, <2>4
    <2>6. /\ \A u \in transactions' : status'[u] = "submitted"
          /\ \A u \in Transactions : u >= next_transaction_id' => status'[u] = "none"
      BY <1>1, <2>2 DEF OrderCore, HeldWhileSubmitted
    <2> QED
      BY <2>5, <2>6 DEF HeldWhileSubmitted
  <1> QED
    BY <1>8, <1>10, <1>11, <1>12, <1>13, <1>14, <1>15, <1>16 DEF OrderCore

\* Every step of the Executor's thread.
LEMMA ExecutorOrder ==
    ASSUME TypeOK, OrderCore, ExecutorStep, UNCHANGED plannerVars
    PROVE  OrderCore'
  <1>1. CASE HandleStartUpdate
    <2>1. /\ UNCHANGED <<status, next_transaction_id, transactions>>
          /\ UNCHANGED <<planner_messages, transaction_states, manager>>
          /\ executor_messages # <<>> /\ executor_messages' = Tail(executor_messages)
          /\ Head(executor_messages).type # "Register"
      BY <1>1 DEF HandleStartUpdate, Receive, userVars, plannerVars
    <2> QED
      BY <2>1, QuietStep
  <1>2. CASE HandleFinalize
    <2> DEFINE t == Head(executor_messages).id
    <2>1. /\ executor_messages # <<>> /\ executor_messages' = Tail(executor_messages)
          /\ Head(executor_messages).type = "Finalize"
          /\ UNCHANGED <<next_transaction_id, transaction_states, manager>>
      BY <1>2 DEF HandleFinalize, Receive, plannerVars
    <2>2. CASE t \in transactions
      <3>1. Head(executor_messages) = Finalize(t)
        <4>1. Head(executor_messages) \in ExecutorMessage
          BY <2>1 DEF TypeOK
        <4>2. \A m \in ExecutorMessage : m.type = "Finalize" => m = Finalize(m.id)
          BY DEF ExecutorMessage, RegisterMessage, ExecuteMessage, FinalizeMessage,
                 StartUpdateMessage, Finalize
        <4> QED
          BY <2>1, <4>1, <4>2
      <3>2. /\ status' = [status EXCEPT ![t] = "done"]
            /\ transactions' = transactions \ {t}
            /\ planner_messages' = Append(planner_messages, Finish(t))
        BY <1>2, <2>2 DEF HandleFinalize, PushPlanner
      <3> HIDE DEF t
      <3> QED
        BY <2>1, <2>2, <3>1, <3>2, EndOrder
    <2>3. CASE t \notin transactions
      <3>1. UNCHANGED <<status, transactions, planner_messages>>
        BY <1>2, <2>3 DEF HandleFinalize, acceptedVars
      <3> QED
        BY <2>1, <3>1, QuietStep
    <2> QED
      BY <2>2, <2>3
  <1> QED
    BY <1>1, <1>2, RegisterOrder, ExecuteOrder DEF ExecutorStep

\* The parts of OrderInv that a push to the Executor by a user preserves,
\* whatever the user pushes in the order of creation.
LEMMA UserPushOrder ==
    ASSUME TypeOK, OrderCore, DoneKept,
           NEW m \in ExecutorMessage, executor_messages' = Append(executor_messages, m),
           m.type # "Finalize",
           m.type = "Register" =>
             \A s \in 0 .. (m.id - 1) :
               \/ Announced(s)
               \/ \E j \in 1 .. Len(executor_messages) : executor_messages[j] = Register(s),
           UNCHANGED <<planner_messages, transaction_states, manager>>
    PROVE  /\ AnnouncedKept
           /\ FinalizeReady' /\ FrontOldest' /\ ConsecutiveIds'
           /\ FinishEnded' /\ StartsInOrder' /\ RegistersInOrder'
  <1>1. executor_messages \in Seq(ExecutorMessage) /\ planner_messages \in Seq(PlannerMessage)
    BY DEF TypeOK
  <1>2. PlannerQueueStep(m) /\ ExecutorQueueStep(m)
    BY DEF PlannerQueueStep, ExecutorQueueStep
  <1>3. /\ ~(planner_messages' = Append(planner_messages, m))
        /\ \A u \in Transactions : ~PopsStart(u) /\ ~PopsRegister(u)
    BY <1>1, QueueStepsDiffer DEF PopsStart, PopsRegister
  <1>4. SettledKept /\ FrontOldest' /\ ConsecutiveIds'
    BY DequeKept
  <1>5. AnnouncedKept
    BY <1>2, <1>3, <1>4, AnnouncedStays
  <1>6. m.type = "Register" =>
          \A s \in 0 .. (m.id - 1) :
            \/ Announced(s)'
            \/ \E j \in 1 .. Len(executor_messages) : executor_messages[j] = Register(s)
    <2>1. m.id \in Transactions
      BY MessageFields
    <2>2. 0 .. (m.id - 1) \subseteq Transactions
      BY <2>1, OlderTransactions
    <2> QED
      BY <1>5, <2>2 DEF AnnouncedKept
  <1>7. FinalizeReady'
    BY <1>2, FinalizeReadyKept DEF OrderCore
  <1>8. FinishEnded'
    BY <1>2, <1>3, FinishEndedKept DEF OrderCore
  <1>9. StartsInOrder'
    BY <1>2, <1>3, <1>4, StartsInOrderKept DEF OrderCore
  <1>10. RegistersInOrder'
    BY <1>2, <1>3, <1>5, <1>6, RegistersInOrderKept DEF OrderCore
  <1> QED
    BY <1>4, <1>5, <1>7, <1>8, <1>9, <1>10

\* A new transaction is younger than every one that is over, held or announced.
LEMMA BeginOrder ==
    ASSUME TypeOK, OrderCore, Begin, UNCHANGED plannerVars
    PROVE  OrderCore'
  <1> DEFINE t == next_transaction_id
  <1>1. /\ executor_messages \in Seq(ExecutorMessage)
        /\ t \in Transactions /\ t \in Nat
        /\ status \in [Transactions -> Statuses]
        /\ status' = [status EXCEPT ![t] = "open"]
        /\ next_transaction_id' = t + 1
        /\ executor_messages' = Append(executor_messages, Register(t))
        /\ transactions \subseteq Transactions
        /\ UNCHANGED <<planner_messages, transactions, transaction_states, manager>>
    BY BoundAssumption
       DEF TypeOK, Begin, PushExecutor, acceptedVars, plannerVars, Transactions
  <1>2. /\ \A u \in transactions : status[u] = "submitted"
        /\ \A u \in Transactions : u >= t => status[u] = "none"
    BY DEF OrderCore, HeldWhileSubmitted
  <1>3. \A u \in Transactions : status'[u] = IF u = t THEN "open" ELSE status[u]
    BY <1>1
  <1>4. status[t] = "none"
    BY <1>1, <1>2
  <1>5. \A s \in 0 .. (t - 1) :
          \/ Announced(s)
          \/ \E j \in 1 .. Len(executor_messages) : executor_messages[j] = Register(s)
    BY DEF OrderCore, NoneForgotten
  <1>6. 0 .. (t - 1) \subseteq Transactions
    BY <1>1, OlderTransactions
  <1> HIDE DEF t
  <1>7. DoneKept
    BY <1>3, <1>4 DEF DoneKept
  <1>8. InOrder'
    <2>1. \A u \in Transactions : status'[u] = "done" <=> status[u] = "done"
      BY <1>3, <1>4
    <2> QED
      BY <2>1 DEF OrderCore, InOrder
  <1>9. Register(t) \in ExecutorMessage /\ Register(t).type = "Register" /\ Register(t).id = t
    BY <1>1, MessageTypes DEF Register
  <1>10. /\ AnnouncedKept
         /\ FinalizeReady' /\ FrontOldest' /\ ConsecutiveIds'
         /\ FinishEnded' /\ StartsInOrder' /\ RegistersInOrder'
    BY <1>1, <1>5, <1>7, <1>9, UserPushOrder
  <1>11. /\ Len(executor_messages') = Len(executor_messages) + 1
         /\ Len(executor_messages) \in Nat
         /\ executor_messages'[Len(executor_messages) + 1] = Register(t)
         /\ \A j \in 1 .. Len(executor_messages) : executor_messages'[j] = executor_messages[j]
    BY <1>1, <1>9
  <1>12. NoneForgotten'
    <2> SUFFICES ASSUME NEW s \in 0 .. (next_transaction_id' - 1)
                 PROVE  \/ Announced(s)'
                        \/ \E j \in 1 .. Len(executor_messages') :
                             executor_messages'[j] = Register(s)
      BY DEF NoneForgotten
    <2>1. CASE s = t
      BY <1>11, <2>1
    <2>2. CASE s # t
      <3>1. s \in 0 .. (t - 1)
        BY <1>1, <2>2
      <3>2. \/ Announced(s)'
            \/ \E j \in 1 .. Len(executor_messages) : executor_messages[j] = Register(s)
        BY <1>5, <1>6, <1>10, <3>1 DEF AnnouncedKept
      <3> QED
        BY <1>11, <3>2
    <2> QED
      BY <2>1, <2>2
  <1>13. HeldWhileSubmitted'
    <2>1. \A i \in 1 .. Len(executor_messages') : executor_messages'[i].type = "Execute" =>
            /\ i \in 1 .. Len(executor_messages)
            /\ executor_messages'[i] = executor_messages[i]
            /\ executor_messages[i].id \in Transactions
      BY <1>1, <1>9, <1>11, MessageFields
    <2>2. \A i \in 1 .. Len(executor_messages) : executor_messages[i].type = "Execute" =>
            /\ status[executor_messages[i].id] = "submitted"
            /\ executor_messages[i].id \notin transactions
            /\ \A j \in 1 .. Len(executor_messages) :
                 executor_messages[j] = executor_messages[i] => j = i
      BY DEF OrderCore, HeldWhileSubmitted
    <2>3. ASSUME NEW i \in 1 .. Len(executor_messages'),
                 executor_messages'[i].type = "Execute"
          PROVE  /\ status'[executor_messages'[i].id] = "submitted"
                 /\ executor_messages'[i].id \notin transactions'
                 /\ \A j \in 1 .. Len(executor_messages') :
                      executor_messages'[j] = executor_messages'[i] => j = i
      <3>1. /\ status[executor_messages'[i].id] = "submitted"
            /\ executor_messages'[i].id \notin transactions'
            /\ executor_messages'[i].id \in Transactions
        BY <1>1, <2>1, <2>2, <2>3
      <3>2. status'[executor_messages'[i].id] = "submitted"
        BY <1>3, <1>4, <3>1
      <3>3. \A j \in 1 .. Len(executor_messages') :
              executor_messages'[j] = executor_messages'[i] =>
                j \in 1 .. Len(executor_messages) /\ executor_messages[j] = executor_messages[i]
        BY <2>1, <2>3
      <3> QED
        BY <2>1, <2>2, <2>3, <3>1, <3>2, <3>3
    <2>4. \A u \in transactions' : status'[u] = "submitted"
      BY <1>1, <1>2, <1>3, <1>4
    <2>5. \A u \in Transactions : u >= next_transaction_id' => status'[u] = "none"
      BY <1>1, <1>2, <1>3, OlderTransactions
    <2> QED
      BY <2>3, <2>4, <2>5 DEF HeldWhileSubmitted
  <1> QED
    BY <1>8, <1>10, <1>12, <1>13 DEF OrderCore

\* A user submits its transaction once.
LEMMA SubmitOrder ==
    ASSUME TypeOK, OrderCore, NEW t \in Transactions, Submit(t), UNCHANGED plannerVars
    PROVE  OrderCore'
  <1>1. /\ executor_messages \in Seq(ExecutorMessage)
        /\ status \in [Transactions -> Statuses]
        /\ status[t] = "open"
        /\ status' = [status EXCEPT ![t] = "submitted"]
        /\ executor_messages' = Append(executor_messages, Execute(t))
        /\ transactions \subseteq Transactions
        /\ UNCHANGED <<planner_messages, next_transaction_id, transactions,
                       transaction_states, manager>>
    BY DEF TypeOK, Submit, PushExecutor, acceptedVars, plannerVars
  <1>2. /\ \A u \in transactions : status[u] = "submitted"
        /\ \A u \in Transactions : u >= next_transaction_id => status[u] = "none"
    BY DEF OrderCore, HeldWhileSubmitted
  <1>3. \A u \in Transactions : status'[u] = IF u = t THEN "submitted" ELSE status[u]
    BY <1>1
  <1>4. DoneKept
    BY <1>1, <1>3 DEF DoneKept
  <1>5. InOrder'
    <2>1. \A u \in Transactions : status'[u] = "done" <=> status[u] = "done"
      BY <1>1, <1>3
    <2> QED
      BY <2>1 DEF OrderCore, InOrder
  <1>6. Execute(t) \in ExecutorMessage /\ Execute(t).type = "Execute" /\ Execute(t).id = t
    BY MessageTypes DEF Execute
  <1>7. /\ AnnouncedKept
        /\ FinalizeReady' /\ FrontOldest' /\ ConsecutiveIds'
        /\ FinishEnded' /\ StartsInOrder' /\ RegistersInOrder'
    BY <1>1, <1>4, <1>6, UserPushOrder
  <1>8. NoneForgotten'
    <2>1. /\ ExecutorQueueStep(Execute(t))
          /\ \A u \in Transactions : ~PopsRegister(u)
      BY <1>1, <1>6, QueueStepsDiffer DEF ExecutorQueueStep, PopsRegister
    <2> QED
      BY <1>1, <1>7, <2>1, NoneForgottenKept DEF OrderCore
  <1>9. HeldWhileSubmitted'
    <2>1. \A i \in 1 .. Len(executor_messages) : executor_messages[i].type = "Execute" =>
            /\ status[executor_messages[i].id] = "submitted"
            /\ executor_messages[i].id \in Transactions
            /\ executor_messages[i].id # t
            /\ executor_messages[i].id \notin transactions
            /\ \A j \in 1 .. Len(executor_messages) :
                 executor_messages[j] = executor_messages[i] => j = i
      <3>1. \A i \in 1 .. Len(executor_messages) : executor_messages[i].id \in Transactions
        BY <1>1, MessageFields
      <3> QED
        BY <1>1, <3>1 DEF OrderCore, HeldWhileSubmitted
    <2>2. /\ Len(executor_messages') = Len(executor_messages) + 1
          /\ Len(executor_messages) \in Nat
          /\ executor_messages'[Len(executor_messages) + 1] = Execute(t)
          /\ \A j \in 1 .. Len(executor_messages) :
               executor_messages'[j] = executor_messages[j]
      BY <1>1, <1>6
    <2>3. t \notin transactions
      BY <1>1, <1>2
    <2>4. ASSUME NEW i \in 1 .. Len(executor_messages'),
                 executor_messages'[i].type = "Execute"
          PROVE  /\ status'[executor_messages'[i].id] = "submitted"
                 /\ executor_messages'[i].id \notin transactions'
                 /\ \A j \in 1 .. Len(executor_messages') :
                      executor_messages'[j] = executor_messages'[i] => j = i
      <3>1. CASE i \in 1 .. Len(executor_messages)
        <4>1. executor_messages'[i] = executor_messages[i] /\ executor_messages[i].id # t
          BY <2>1, <2>2, <2>4, <3>1
        <4>2. status'[executor_messages[i].id] = "submitted"
          BY <1>3, <2>1, <2>4, <3>1, <4>1
        <4>3. \A j \in 1 .. Len(executor_messages') :
                executor_messages'[j] = executor_messages'[i] =>
                  j \in 1 .. Len(executor_messages)
                    /\ executor_messages[j] = executor_messages[i]
          BY <1>6, <2>2, <4>1
        <4> QED
          BY <1>1, <2>1, <2>4, <3>1, <4>1, <4>2, <4>3
      <3>2. CASE i = Len(executor_messages) + 1
        <4>1. executor_messages'[i] = Execute(t)
          BY <2>2, <3>2
        <4>2. \A j \in 1 .. Len(executor_messages) : executor_messages[j] # Execute(t)
          BY <1>6, <2>1
        <4>3. \A j \in 1 .. Len(executor_messages') :
                executor_messages'[j] = executor_messages'[i] => j = i
          BY <2>2, <3>2, <4>1, <4>2
        <4> QED
          BY <1>1, <1>3, <1>6, <2>3, <4>1, <4>3
      <3> QED
        BY <2>2, <3>1, <3>2
    <2>5. /\ \A u \in transactions' : status'[u] = "submitted"
          /\ \A u \in Transactions : u >= next_transaction_id' => status'[u] = "none"
      BY <1>1, <1>2, <1>3
    <2> QED
      BY <2>4, <2>5 DEF HeldWhileSubmitted
  <1> QED
    BY <1>5, <1>7, <1>8, <1>9 DEF OrderCore

\* handleStartMessage lets the deque grow up to the transaction of the message.
LEMMA ManagerStartOrder ==
    ASSUME TypeOK, OrderCore, ManagerStart, UNCHANGED executorVars
    PROVE  OrderCore'
  <1> DEFINE t == Head(planner_messages).id
             size == Len(transaction_states)
             last == transaction_states[size].transaction_id
             more == IF last < t THEN t - last ELSE 0
  <1>1. /\ planner_messages \in Seq(PlannerMessage)
        /\ executor_messages \in Seq(ExecutorMessage)
        /\ planner_messages # <<>>
        /\ planner_messages' = Tail(planner_messages)
        /\ UNCHANGED <<status, next_transaction_id, transactions, executor_messages, manager>>
    BY DEF TypeOK, ManagerStart, executorVars, userVars, acceptedVars
  <1>2. /\ Head(planner_messages) = planner_messages[1]
        /\ 1 \in 1 .. Len(planner_messages)
        /\ Head(planner_messages) \in PlannerMessage
    BY <1>1
  <1>3. t \in Transactions /\ Head(planner_messages) = Start(t)
    BY <1>2, MessageFields DEF ManagerStart, NeedRefresh
  <1>4. transaction_states' = HandleStart(transaction_states, t)
    BY <1>3 DEF ManagerStart, HandleMessage, Start
  <1>5. /\ transaction_states \in Seq(TransactionState)
        /\ size \in Nat
        /\ \A i \in 1 .. size : transaction_states[i].transaction_id \in Transactions
    BY DequeTypes
  <1>6. t \in Nat /\ \A s \in Transactions : s \in Nat
    BY <1>3, OlderTransactions
  <1>7. \A s \in 0 .. (t - 1) : s \in Transactions /\ Settled(s)
    <2>1. planner_messages[1].type = "Start" /\ planner_messages[1].id = t
      BY <1>2, <1>3 DEF Start
    <2> QED
      BY <1>2, <1>3, <2>1, OlderTransactions DEF OrderCore, StartsInOrder, Settled
  <1> HIDE DEF t
  <1>8. ASSUME transaction_states = <<>>
        PROVE  /\ Len(transaction_states') = 1
               /\ transaction_states'[1].transaction_id = t
    BY <1>3, <1>4, <1>5, <1>8, HandleStartDeque
  <1>9. ASSUME transaction_states # <<>>
        PROVE  /\ size \in Nat \ {0} /\ last \in Nat /\ more \in Nat
               /\ FrontId \in Nat
               /\ last = FrontId + size - 1
               /\ Len(transaction_states') = size + more
               /\ \A k \in 1 .. size : transaction_states'[k] = transaction_states[k]
               /\ \A k \in 1 .. more : transaction_states'[size + k].transaction_id = last + k
    <2>1. size \in Nat \ {0} /\ 1 \in 1 .. size /\ size \in 1 .. size
      BY <1>5, <1>9
    <2>2. last \in Nat /\ FrontId \in Nat
      BY <1>5, <1>6, <2>1 DEF FrontId
    <2>3. last = FrontId + size - 1
      BY <2>1 DEF OrderCore, ConsecutiveIds
    <2>4. /\ Len(transaction_states') = size + more
          /\ \A k \in 1 .. size : transaction_states'[k] = transaction_states[k]
          /\ \A k \in 1 .. more : transaction_states'[size + k].transaction_id = last + k
      BY <1>3, <1>4, <1>5, <1>9, HandleStartDeque
    <2>5. more \in Nat
      <3> HIDE DEF last
      <3> QED
        BY <1>6, <2>2
    <2> QED
      <3> HIDE DEF size, last, more
      <3> QED
        BY <2>1, <2>2, <2>3, <2>4, <2>5
  <1> HIDE DEF size, last, more
  <1>10. ConsecutiveIds'
    <2> SUFFICES ASSUME NEW i \in 1 .. Len(transaction_states')
                 PROVE  transaction_states'[i].transaction_id
                          = transaction_states'[1].transaction_id + i - 1
      BY DEF ConsecutiveIds, FrontId
    <2>1. CASE transaction_states = <<>>
      <3>1. i \in 1 .. 1
        <4>1. Len(transaction_states') = 1
          BY <1>8, <2>1
        <4> QED
          BY <4>1
      <3>2. transaction_states'[1].transaction_id = t
        BY <1>8, <2>1
      <3> QED
        BY <1>6, <3>1, <3>2
    <2>2. CASE transaction_states # <<>>
      <3>1. transaction_states'[1] = transaction_states[1]
        BY <1>9, <2>2
      <3>2. transaction_states'[1].transaction_id = FrontId
        BY <3>1 DEF FrontId
      <3>3. CASE i \in 1 .. size
        <4>1. transaction_states[i].transaction_id = FrontId + i - 1
          BY <3>3 DEF OrderCore, ConsecutiveIds, size
        <4> QED
          BY <1>9, <2>2, <3>2, <3>3, <4>1
      <3>4. CASE i \notin 1 .. size
        <4>1. i - size \in 1 .. more /\ size + (i - size) = i
          BY <1>9, <2>2, <3>4
        <4>2. transaction_states'[i].transaction_id = last + (i - size)
          BY <1>9, <2>2, <4>1
        <4> QED
          BY <1>9, <2>2, <3>2, <4>2
      <3> QED
        BY <3>3, <3>4
    <2> QED
      BY <2>1, <2>2
  <1>11. FrontOldest'
    <2> SUFFICES ASSUME transaction_states' # <<>>,
                        NEW s \in 0 .. (transaction_states'[1].transaction_id - 1)
                 PROVE  status[s] = "done"
      BY <1>1 DEF FrontOldest, FrontId
    <2>1. CASE transaction_states = <<>>
      <3>1. s \in 0 .. (t - 1)
        BY <1>8, <2>1
      <3>2. ~InDeque(s)
        BY <2>1 DEF InDeque
      <3> QED
        BY <1>7, <3>1, <3>2 DEF Settled
    <2>2. CASE transaction_states # <<>>
      <3>1. transaction_states'[1] = transaction_states[1]
        BY <1>9, <2>2
      <3> QED
        BY <2>2, <3>1 DEF OrderCore, FrontOldest, FrontId
    <2> QED
      BY <2>1, <2>2
  <1>12. SettledKept
    <2> SUFFICES ASSUME NEW s \in Transactions, InDeque(s)
                 PROVE  InDeque(s)'
      BY <1>1 DEF SettledKept, Settled
    <2>1. PICK k \in 1 .. size : transaction_states[k].transaction_id = s
      BY DEF InDeque, size
    <2>2. transaction_states # <<>>
      BY <1>5, <2>1 DEF size
    <2>3. k \in 1 .. Len(transaction_states') /\ transaction_states'[k] = transaction_states[k]
      BY <1>9, <2>1, <2>2
    <2> QED
      BY <2>1, <2>3 DEF InDeque
  <1>13. status'[t] = "done" \/ \E k \in 1 .. Len(transaction_states') :
                                   transaction_states'[k].transaction_id = t
    <2>1. CASE transaction_states = <<>>
      BY <1>8, <2>1
    <2>2. CASE transaction_states # <<>> /\ t < FrontId
      <3>1. t \in 0 .. (FrontId - 1)
        BY <1>6, <1>9, <2>2
      <3> QED
        BY <1>1, <2>2, <3>1 DEF OrderCore, FrontOldest
    <2>3. CASE transaction_states # <<>> /\ FrontId <= t /\ t <= last
      <3>1. t - FrontId + 1 \in 1 .. size
        BY <1>6, <1>9, <2>3
      <3>2. transaction_states[t - FrontId + 1].transaction_id = FrontId + (t - FrontId + 1) - 1
        BY <3>1 DEF OrderCore, ConsecutiveIds, size
      <3>3. FrontId + (t - FrontId + 1) - 1 = t
        BY <1>6, <1>9, <2>3
      <3>4. /\ t - FrontId + 1 \in 1 .. Len(transaction_states')
            /\ transaction_states'[t - FrontId + 1] = transaction_states[t - FrontId + 1]
        BY <1>9, <2>3, <3>1
      <3> QED
        BY <3>2, <3>3, <3>4
    <2>4. CASE transaction_states # <<>> /\ last < t
      <3>1. more \in 1 .. more /\ last + more = t /\ size + more \in 1 .. Len(transaction_states')
        BY <1>6, <1>9, <2>4 DEF more
      <3> QED
        BY <1>9, <2>4, <3>1
    <2> QED
      BY <1>6, <1>9, <2>1, <2>2, <2>3, <2>4
  <1>14. /\ PlannerQueueStep(Start(t))
         /\ ExecutorQueueStep(Start(t))
         /\ \A m : ~(planner_messages' = Append(planner_messages, m))
         /\ \A m : ~(executor_messages' = Append(executor_messages, m))
         /\ \A u \in Transactions : ~PopsRegister(u)
    BY <1>1, QueueStepsDiffer DEF PlannerQueueStep, ExecutorQueueStep, PopsRegister
  <1>15. \A u \in Transactions : PopsStart(u) => Settled(u)'
    <2> SUFFICES ASSUME NEW u \in Transactions, PopsStart(u)
                 PROVE  status'[u] = "done" \/ InDeque(u)'
      BY DEF Settled
    <2>1. u = t
      BY <1>3 DEF PopsStart, Start
    <2> QED
      BY <1>13, <2>1 DEF InDeque
  <1>16. DoneKept
    BY <1>1 DEF DoneKept
  <1>17. AnnouncedKept
    BY <1>12, <1>14, <1>15, AnnouncedStays
  <1>18. InOrder'
    BY <1>1 DEF OrderCore, InOrder
  <1>19. FinalizeReady'
    BY <1>14, <1>16, FinalizeReadyKept DEF OrderCore
  <1>20. FinishEnded'
    BY <1>1, <1>14, <1>16, FinishEndedKept DEF OrderCore
  <1>21. StartsInOrder'
    BY <1>12, <1>14, <1>15, StartsInOrderKept DEF OrderCore
  <1>22. RegistersInOrder'
    BY <1>14, <1>17, RegistersInOrderKept DEF OrderCore
  <1>23. NoneForgotten'
    BY <1>1, <1>14, <1>17, NoneForgottenKept DEF OrderCore
  <1>24. HeldWhileSubmitted'
    BY <1>1, <1>14, HeldKept DEF OrderCore
  <1> QED
    BY <1>10, <1>11, <1>18, <1>19, <1>20, <1>21, <1>22, <1>23, <1>24 DEF OrderCore

\* handleUpdateMessage leaves the IDs of the deque alone; handleFinishMessage
\* drops its front, which is over.
LEMMA ManagerRefreshOrder ==
    ASSUME TypeOK, OrderCore, ManagerRefresh, UNCHANGED executorVars
    PROVE  OrderCore'
  <1> DEFINE states == transaction_states
             m == manager.message
  <1>1. /\ planner_messages \in Seq(PlannerMessage)
        /\ executor_messages \in Seq(ExecutorMessage)
        /\ manager' = Idle
        /\ states' = HandleMessage(states, m)
        /\ UNCHANGED <<status, next_transaction_id, transactions>>
        /\ UNCHANGED <<planner_messages, executor_messages>>
    BY DEF TypeOK, ManagerRefresh, executorVars, userVars, acceptedVars
  <1>2. /\ m \in PlannerMessage
        /\ m.id \in Transactions
        /\ m.type \in {"Update", "Finish"}
    <2>1. m \in UpdateMessage \cup FinishMessage
      BY DEF TypeOK, ManagerRefresh
    <2> QED
      BY <2>1, MessageFields DEF PlannerMessage, UpdateMessage, FinishMessage
  <1>3. /\ states \in Seq(TransactionState)
        /\ Len(states) \in Nat
        /\ \A i \in 1 .. Len(states) : states[i].transaction_id \in Transactions
        /\ \A s \in Transactions : s \in Nat
    BY DequeTypes, OlderTransactions
  <1>4. \A i \in 1 .. Len(states) : states[i].transaction_id = FrontId + i - 1
    BY DEF OrderCore, ConsecutiveIds
  <1>5. states # <<>> => /\ 1 \in 1 .. Len(states)
                         /\ FrontId \in Transactions
                         /\ \A s \in 0 .. (FrontId - 1) : status[s] = "done"
    BY <1>3 DEF OrderCore, FrontOldest, FrontId
  <1>6. SettledKept /\ FrontOldest' /\ ConsecutiveIds'
    <2>1. CASE m.type = "Update"
      <3>1. states' = HandleUpdate(states, m)
        BY <1>1, <2>1 DEF HandleMessage
      <3>2. /\ Len(states') = Len(states)
            /\ \A k \in 1 .. Len(states) : states'[k].transaction_id = states[k].transaction_id
        BY <1>2, <1>3, <2>1, <3>1, HandleUpdateDeque
      <3>3. states' # <<>> => states # <<>>
        <4>1. states = <<>> => ~Holds(states, m.id)
          BY DEF Holds
        <4> QED
          BY <3>1, <4>1 DEF HandleUpdate
      <3>4. SettledKept
        BY <1>1, <3>2 DEF SettledKept, Settled, InDeque
      <3>5. states' # <<>> => states'[1].transaction_id = FrontId
        BY <1>5, <3>2, <3>3 DEF FrontId
      <3>6. FrontOldest'
        BY <1>1, <1>5, <3>3, <3>5 DEF FrontOldest, FrontId
      <3>7. ConsecutiveIds'
        <4> SUFFICES ASSUME NEW i \in 1 .. Len(states')
                     PROVE  states'[i].transaction_id = states'[1].transaction_id + i - 1
          BY DEF ConsecutiveIds, FrontId
        <4>1. i \in 1 .. Len(states) /\ 1 \in 1 .. Len(states)
          BY <1>3, <3>2
        <4>2. states'[1].transaction_id = FrontId
          BY <3>2, <4>1 DEF FrontId
        <4>3. states'[i].transaction_id = FrontId + i - 1
          BY <1>4, <3>2, <4>1
        <4> QED
          BY <4>2, <4>3
      <3> QED
        BY <3>4, <3>6, <3>7
    <2>2. CASE m.type = "Finish" /\ states # <<>> /\ FrontId = m.id
      <3>1. states' = Tail(states)
        <4>1. states' = HandleFinish(states, m.id)
          BY <1>1, <2>2 DEF HandleMessage
        <4> QED
          BY <2>2, <4>1 DEF HandleFinish, FrontId
      <3>2. /\ Len(states') = Len(states) - 1
            /\ \A k \in 1 .. Len(states') : states'[k] = states[k + 1]
            /\ Len(states') = 0 => states' = <<>>
            /\ Len(states') \in Nat
        BY <1>3, <2>2, <3>1
      <3>3. status[FrontId] = "done"
        BY <2>2 DEF OrderCore, FinishEnded, ManagerRefresh
      <3>4. \A k \in 1 .. Len(states') : states'[k].transaction_id = FrontId + k
        <4> SUFFICES ASSUME NEW k \in 1 .. Len(states')
                     PROVE  states'[k].transaction_id = FrontId + k
          OBVIOUS
        <4>1. k + 1 \in 1 .. Len(states)
          BY <1>3, <3>2
        <4>2. states[k + 1].transaction_id = FrontId + (k + 1) - 1
          BY <1>4, <4>1
        <4>3. FrontId \in Nat
          BY <1>3, <1>5, <2>2
        <4> QED
          BY <3>2, <4>2, <4>3
      <3>5. SettledKept
        <4> SUFFICES ASSUME NEW s \in Transactions, Settled(s)
                     PROVE  status'[s] = "done" \/ InDeque(s)'
          BY DEF SettledKept, Settled
        <4>1. ASSUME NEW k \in 1 .. Len(states), states[k].transaction_id = s
              PROVE  status'[s] = "done" \/ InDeque(s)'
          <5>1. CASE k = 1
            BY <1>1, <3>3, <4>1, <5>1 DEF FrontId
          <5>2. CASE k # 1
            <6>1. /\ k - 1 \in 1 .. Len(states')
                  /\ states'[k - 1] = states[k]
              BY <1>3, <3>2, <5>2
            <6> QED
              BY <4>1, <6>1 DEF InDeque
          <5> QED
            BY <5>1, <5>2
        <4> QED
          BY <1>1, <4>1 DEF Settled, InDeque
      <3>6. FrontOldest'
        <4> SUFFICES ASSUME states' # <<>>,
                            NEW s \in 0 .. (states'[1].transaction_id - 1)
                     PROVE  status[s] = "done"
          BY <1>1 DEF FrontOldest, FrontId
        <4>1. 1 \in 1 .. Len(states')
          BY <3>2
        <4>2. states'[1].transaction_id = FrontId + 1 /\ FrontId \in Nat
          BY <1>3, <1>5, <2>2, <3>4, <4>1
        <4>3. s = FrontId \/ s \in 0 .. (FrontId - 1)
          BY <4>2
        <4> QED
          BY <1>5, <2>2, <3>3, <4>3
      <3>7. ConsecutiveIds'
        <4> SUFFICES ASSUME NEW i \in 1 .. Len(states')
                     PROVE  states'[i].transaction_id = states'[1].transaction_id + i - 1
          BY DEF ConsecutiveIds, FrontId
        <4>1. 1 \in 1 .. Len(states') /\ FrontId \in Nat
          BY <1>3, <1>5, <2>2, <3>2
        <4>2. /\ states'[i].transaction_id = FrontId + i
              /\ states'[1].transaction_id = FrontId + 1
          BY <3>4, <4>1
        <4> QED
          BY <4>1, <4>2
      <3> QED
        BY <3>5, <3>6, <3>7
    <2>3. CASE m.type = "Finish" /\ ~(states # <<>> /\ FrontId = m.id)
      <3>1. states' = states
        <4>1. states' = HandleFinish(states, m.id)
          BY <1>1, <2>3 DEF HandleMessage
        <4> QED
          BY <2>3, <4>1 DEF HandleFinish, FrontId
      <3> QED
        BY <1>1, <3>1, DequeKept DEF DoneKept
    <2> QED
      BY <1>2, <2>1, <2>2, <2>3
  <1> HIDE DEF states, m
  <1>7. DoneKept
    BY <1>1 DEF DoneKept
  <1>8. /\ PlannerQueueStep(Start(0))
        /\ ExecutorQueueStep(Start(0))
        /\ \A p : ~(planner_messages' = Append(planner_messages, p))
        /\ \A p : ~(executor_messages' = Append(executor_messages, p))
        /\ \A u \in Transactions : ~PopsStart(u) /\ ~PopsRegister(u)
    BY <1>1, QueueStepsDiffer DEF PlannerQueueStep, ExecutorQueueStep, PopsStart, PopsRegister
  <1>9. AnnouncedKept
    BY <1>6, <1>8, AnnouncedStays
  <1>10. InOrder'
    BY <1>1 DEF OrderCore, InOrder
  <1>11. FinalizeReady'
    BY <1>7, <1>8, FinalizeReadyKept DEF OrderCore
  <1>12. FinishEnded'
    BY <1>1, <1>7, <1>8, FinishEndedKept DEF OrderCore
  <1>13. StartsInOrder'
    BY <1>6, <1>8, StartsInOrderKept DEF OrderCore
  <1>14. RegistersInOrder'
    BY <1>8, <1>9, RegistersInOrderKept DEF OrderCore
  <1>15. NoneForgotten'
    BY <1>1, <1>8, <1>9, NoneForgottenKept DEF OrderCore
  <1>16. HeldWhileSubmitted'
    BY <1>1, <1>8, HeldKept DEF OrderCore
  <1> QED
    BY <1>6, <1>10, <1>11, <1>12, <1>13, <1>14, <1>15, <1>16 DEF OrderCore

\* Every step of the PlannerManager's thread.
LEMMA ManagerOrder ==
    ASSUME TypeOK, OrderCore, ManagerStep, UNCHANGED executorVars
    PROVE  OrderCore'
  <1>1. CASE ManagerStop
    <2>1. /\ UNCHANGED <<status, next_transaction_id, transactions, transaction_states>>
          /\ UNCHANGED executor_messages
          /\ planner_messages # <<>> /\ planner_messages' = Tail(planner_messages)
          /\ Head(planner_messages).type # "Start"
          /\ manager' = Joining(Head(planner_messages))
      BY <1>1 DEF ManagerStop, NeedRefresh, executorVars, userVars, acceptedVars
    <2> QED
      BY <2>1, QuietStep
  <1> QED
    BY <1>1, ManagerStartOrder, ManagerRefreshOrder DEF ManagerStep

-----------------------------------------------------------------------------
(* The theorems.                                                           *)

\* The order invariant holds of the empty queues and the empty deque.
LEMMA InitOrder == Init => OrderInv
  <1> SUFFICES ASSUME Init PROVE OrderInv
    OBVIOUS
  <1> USE DEF Init, PlannerInit, ExecutorInit
  <1>1. /\ \A t \in Transactions : status[t] = "none"
        /\ executor_messages = <<>> /\ planner_messages = <<>> /\ transaction_states = <<>>
        /\ Len(executor_messages) = 0 /\ Len(planner_messages) = 0
        /\ Len(transaction_states) = 0
        /\ 0 .. (next_transaction_id - 1) = {}
        /\ transactions = {} /\ manager.pc = "idle" /\ planner.pc = "stopped"
    BY DEF Idle, Stopped
  <1>2. TypeOK
    BY InitTypeOK
  <1>3. InOrder /\ HeldWhileSubmitted /\ PlannerInDeque
    BY <1>1 DEF InOrder, HeldWhileSubmitted, PlannerInDeque
  <1>4. FinalizeReady /\ RegistersInOrder /\ NoneForgotten
    BY <1>1 DEF FinalizeReady, RegistersInOrder, NoneForgotten
  <1>5. FrontOldest /\ ConsecutiveIds /\ FinishEnded /\ StartsInOrder
    BY <1>1 DEF FrontOldest, ConsecutiveIds, FinishEnded, StartsInOrder
  <1> QED
    BY <1>2, <1>3, <1>4, <1>5 DEF OrderInv

\* Every step of the program keeps the order invariant.
LEMMA NextOrder ==
    ASSUME OrderInv, [Next]_vars
    PROVE  OrderInv'
  <1>1. TypeOK /\ OrderCore /\ PlannerInDeque
    BY DEF OrderInv, OrderCore
  <1>2. TypeOK' /\ PlannerInDeque'
    BY <1>1, NextTypeOK, PlannerInDequeKept
  <1>3. ASSUME UNCHANGED vars PROVE OrderCore'
    <2>1. /\ UNCHANGED <<status, next_transaction_id, transactions, transaction_states>>
          /\ UNCHANGED <<executor_messages, planner_messages, manager>>
      BY <1>3 DEF vars, plannerVars, executorVars, userVars, acceptedVars
    <2> QED
      BY <1>1, <2>1, QuietStep
  <1>4. OrderCore'
    BY <1>1, <1>3, BeginOrder, SubmitOrder, ExecutorOrder, WorkerOrder, ManagerOrder,
       PlannerOrder DEF Next, UserStep, Rest
  <1> QED
    BY <1>2, <1>4 DEF OrderInv, OrderCore

\* OrderInv holds in every reachable state of the engine: with either planner,
\* any graph and any number of workers and transactions.
THEOREM OrderCorrect == Spec => []OrderInv
  <1>1. OrderInv /\ [Next]_vars => OrderInv'
    BY NextOrder
  <1> QED
    BY InitOrder, <1>1, PTL DEF Spec

\* Transactions end in the order they were created in (document.md:186-209,
\* executor.cpp:142-179 and what makes planner.cpp propose only the front).
THEOREM EndInOrder == Spec => []InOrder
  <1>1. OrderInv => InOrder
    BY DEF OrderInv
  <1> QED
    BY OrderCorrect, <1>1, PTL

-----------------------------------------------------------------------------
(* The engine implements TransactionOrder.                                 *)

\* Only a user or the end of a transaction changes what the users see.
LEMMA EndRefines ==
    ASSUME OrderInv, HandleFinalize,
           NEW t, t = Head(executor_messages).id, t \in transactions
    PROVE  t \in Transactions /\ Promise!End(t)
  <1>1. /\ executor_messages # <<>>
        /\ Head(executor_messages).type = "Finalize"
        /\ status' = [status EXCEPT ![t] = "done"]
        /\ UNCHANGED next_transaction_id
    BY DEF HandleFinalize, Receive
  <1>2. /\ Head(executor_messages) = executor_messages[1]
        /\ 1 \in 1 .. Len(executor_messages)
    <2>1. executor_messages \in Seq(ExecutorMessage)
      BY DEF OrderInv, TypeOK
    <2> QED
      BY <1>1, <2>1
  <1>3. \A s \in 0 .. (t - 1) : status[s] = "done"
    BY <1>1, <1>2 DEF OrderInv, FinalizeReady
  <1>4. t \in Transactions /\ status[t] = "submitted"
    BY DEF OrderInv, TypeOK, HeldWhileSubmitted
  <1> QED
    BY <1>1, <1>3, <1>4 DEF Promise!End

\* A step of the program is a step of the promise, or none.
LEMMA StepRefines ==
    ASSUME OrderInv, [Next]_vars
    PROVE  [Promise!Next]_<<next_transaction_id, status>>
  <1>1. CASE Begin
    BY <1>1 DEF Begin, Promise!Next, Promise!Create
  <1>2. ASSUME NEW t \in Transactions, Submit(t)
        PROVE  Promise!Next
    <2>1. Promise!Submit(t)
      BY <1>2 DEF Submit, Promise!Submit
    <2> QED
      BY <2>1 DEF Promise!Next, Promise!Transactions, Transactions
  <1>3. CASE HandleFinalize
    <2> DEFINE t == Head(executor_messages).id
    <2>1. CASE t \in transactions
      <3>1. t \in Transactions /\ Promise!End(t)
        BY <1>3, <2>1, EndRefines
      <3> QED
        BY <3>1 DEF Promise!Next, Promise!Transactions, Transactions
    <2>2. CASE t \notin transactions
      BY <1>3, <2>2 DEF HandleFinalize
    <2> QED
      BY <2>1, <2>2
  <1>4. CASE HandleRegister \/ HandleExecute \/ HandleStartUpdate
    BY <1>4 DEF HandleRegister, HandleExecute, HandleStartUpdate, userVars
  <1>5. CASE WorkerStep
    BY <1>5 DEF WorkerStep, TakeTask, TaskStep, ReportNow, GenerateSubTransaction,
                RegisterExecutionResult, ReportFinish, userVars
  <1>6. CASE UNCHANGED executorVars
    BY <1>6 DEF executorVars, userVars
  <1> QED
    BY <1>1, <1>2, <1>3, <1>4, <1>5, <1>6
       DEF Next, UserStep, ExecutorStep, Rest, vars

\* The engine implements the order it promises: what the users see of it is a
\* behaviour in which transactions end one at a time, oldest first, each after
\* its user submitted it (document.md:186-209, transaction.cpp:107-113).
THEOREM Implements == Spec => OrderKept
  <1>1. Init => Promise!Init
    BY DEF Init, ExecutorInit, Promise!Init, Promise!Transactions, Transactions
  <1>2. OrderInv /\ [Next]_vars => [Promise!Next]_<<next_transaction_id, status>>
    BY StepRefines
  <1> QED
    BY OrderCorrect, <1>1, <1>2, PTL DEF Spec, OrderKept, Promise!OrderSpec

-----------------------------------------------------------------------------
(* The loopers: the inductive invariant.                                   *)

\* What waits in front of a Register message is about an older transaction:
\* Register messages come in the order of the IDs, and the Execute message of a
\* transaction behind its own (transaction.cpp:36-48, 92-105).
RegistersAscend ==
    \A i \in 1 .. Len(executor_messages) : executor_messages[i].type = "Register" =>
        /\ executor_messages[i].id < next_transaction_id
        /\ \A j \in 1 .. (i - 1) :
             executor_messages[j].type \in {"Register", "Execute"} =>
               executor_messages[j].id < executor_messages[i].id

\* A transaction the Executor has yet to register is younger than every one it
\* holds or ended, and no looper has a value under its key or a later one.
RegistersFresh ==
    \A i \in 1 .. Len(executor_messages) : executor_messages[i].type = "Register" =>
        /\ \A t \in transactions : t < executor_messages[i].id
        /\ \A t \in Transactions : status[t] = "done" => t < executor_messages[i].id
        /\ \A l \in LoopClusters, k \in Transactions :
             executor_messages[i].id <= k => loop_values[l][k] = NoTransaction

\* A hook that waits is of a transaction that is over, and that is younger than
\* all whose values the looper has (executor.cpp:55-60, 104-113).
HooksNewest ==
    \A l \in LoopClusters : before_update_hooks[l] # NoTransaction =>
        /\ status[before_update_hooks[l]] = "done"
        /\ \A k \in Transactions : loop_values[l][k] < before_update_hooks[l]

\* A looper has values only under the keys of transactions that were created.
KeysTaken ==
    \A l \in LoopClusters, k \in Transactions :
        loop_values[l][k] # NoTransaction => k < next_transaction_id

LoopInv ==
    /\ LoopValuesOrdered
    /\ KeysTaken
    /\ HooksNewest
    /\ RegistersAscend
    /\ RegistersFresh

-----------------------------------------------------------------------------
(* What keeps it.                                                          *)

\* The type of what the loopers hold.
LEMMA LoopTypes ==
    ASSUME TypeOK
    PROVE  /\ executor_messages \in Seq(ExecutorMessage)
           /\ next_transaction_id \in Nat
           /\ \A t \in Transactions : t \in Nat
           /\ transactions \subseteq Transactions
           /\ \A l \in LoopClusters :
                /\ before_update_hooks[l] \in Transactions \cup {NoTransaction}
                /\ loop_values[l] \in [Transactions -> Transactions \cup {NoTransaction}]
           /\ NoTransaction \notin Transactions
  BY BoundAssumption DEF TypeOK, Transactions, NoTransaction

\* A message of the Executor's queue after a step is the one pushed, with the
\* whole queue in front of it, or an older one with nothing new in front of it.
LEMMA OldOrPushed ==
    ASSUME NEW m, executor_messages \in Seq(ExecutorMessage), ExecutorQueueStep(m),
           NEW i \in 1 .. Len(executor_messages')
    PROVE  \/ /\ executor_messages' = Append(executor_messages, m)
              /\ executor_messages'[i] = m
              /\ \A j \in 1 .. (i - 1) :
                   /\ j \in 1 .. Len(executor_messages)
                   /\ executor_messages'[j] = executor_messages[j]
           \/ \E k \in 1 .. Len(executor_messages) :
                /\ executor_messages'[i] = executor_messages[k]
                /\ executor_messages' = Tail(executor_messages) => k # 1
                /\ \A j \in 1 .. (i - 1) :
                     \E h \in 1 .. (k - 1) : executor_messages'[j] = executor_messages[h]
  <1>1. CASE executor_messages' = executor_messages
    <2>1. executor_messages # <<>>
      BY <1>1
    <2>2. executor_messages' # Tail(executor_messages)
      BY <1>1, <2>1, QueueStepsDiffer
    <2>3. \A j \in 1 .. (i - 1) : executor_messages'[j] = executor_messages[j]
      BY <1>1
    <2> QED
      BY <1>1, <2>2, <2>3
  <1>2. CASE executor_messages # <<>> /\ executor_messages' = Tail(executor_messages)
    <2>1. /\ Len(executor_messages') = Len(executor_messages) - 1
          /\ Len(executor_messages) \in Nat
          /\ \A j \in 1 .. Len(executor_messages') :
               executor_messages'[j] = executor_messages[j + 1]
      BY <1>2, PopTypes
    <2>2. i + 1 \in 1 .. Len(executor_messages) /\ i + 1 # 1
      BY <2>1
    <2>3. ASSUME NEW j \in 1 .. (i - 1)
          PROVE  \E h \in 1 .. ((i + 1) - 1) : executor_messages'[j] = executor_messages[h]
      <3>1. j + 1 \in 1 .. ((i + 1) - 1) /\ j \in 1 .. Len(executor_messages')
        BY <2>1
      <3> QED
        BY <2>1, <3>1
    <2> QED
      BY <2>1, <2>2, <2>3
  <1>3. CASE m \in ExecutorMessage /\ executor_messages' = Append(executor_messages, m)
    <2>1. /\ Len(executor_messages') = Len(executor_messages) + 1
          /\ Len(executor_messages) \in Nat
          /\ \A j \in 1 .. Len(executor_messages) :
               executor_messages'[j] = executor_messages[j]
          /\ executor_messages'[Len(executor_messages) + 1] = m
      BY <1>3, PushTypes
    <2>2. CASE i = Len(executor_messages) + 1
      BY <1>3, <2>1, <2>2
    <2>3. CASE i # Len(executor_messages) + 1
      <3>1. i \in 1 .. Len(executor_messages)
        BY <2>1, <2>3
      <3>2. executor_messages # <<>>
        BY <3>1
      <3>3. executor_messages' # Tail(executor_messages)
        BY <1>3, <3>2, QueueStepsDiffer
      <3>4. \A j \in 1 .. (i - 1) : executor_messages'[j] = executor_messages[j]
        BY <2>1, <3>1
      <3> QED
        BY <2>1, <3>1, <3>3, <3>4
    <2> QED
      BY <2>2, <2>3
  <1> QED
    BY <1>1, <1>2, <1>3 DEF ExecutorQueueStep

\* RegistersAscend survives a step that pushes no Register message but that of
\* a new transaction.
LEMMA AscendKept ==
    ASSUME TypeOK, RegistersAscend, NEW m, ExecutorQueueStep(m),
           next_transaction_id' \in Nat, next_transaction_id <= next_transaction_id',
           executor_messages' = Append(executor_messages, m) /\ m.type = "Register" =>
             /\ m.id < next_transaction_id'
             /\ \A j \in 1 .. Len(executor_messages) :
                  executor_messages[j].type \in {"Register", "Execute"} =>
                    executor_messages[j].id < m.id
    PROVE  RegistersAscend'
  <1> SUFFICES ASSUME NEW i \in 1 .. Len(executor_messages'),
                      executor_messages'[i].type = "Register"
               PROVE  /\ executor_messages'[i].id < next_transaction_id'
                      /\ \A j \in 1 .. (i - 1) :
                           executor_messages'[j].type \in {"Register", "Execute"} =>
                             executor_messages'[j].id < executor_messages'[i].id
    BY DEF RegistersAscend
  <1>1. /\ executor_messages \in Seq(ExecutorMessage)
        /\ next_transaction_id \in Nat
        /\ \A k \in 1 .. Len(executor_messages) : executor_messages[k].id \in Nat
    BY LoopTypes, MessageFields
  <1>2. CASE /\ executor_messages' = Append(executor_messages, m)
             /\ executor_messages'[i] = m
             /\ \A j \in 1 .. (i - 1) :
                  /\ j \in 1 .. Len(executor_messages)
                  /\ executor_messages'[j] = executor_messages[j]
    BY <1>2
  <1>3. ASSUME NEW k \in 1 .. Len(executor_messages),
               executor_messages'[i] = executor_messages[k],
               \A j \in 1 .. (i - 1) :
                 \E h \in 1 .. (k - 1) : executor_messages'[j] = executor_messages[h]
        PROVE  /\ executor_messages'[i].id < next_transaction_id'
               /\ \A j \in 1 .. (i - 1) :
                    executor_messages'[j].type \in {"Register", "Execute"} =>
                      executor_messages'[j].id < executor_messages'[i].id
    <2>1. /\ executor_messages[k].id < next_transaction_id
          /\ \A h \in 1 .. (k - 1) :
               executor_messages[h].type \in {"Register", "Execute"} =>
                 executor_messages[h].id < executor_messages[k].id
      BY <1>3 DEF RegistersAscend
    <2>2. executor_messages[k].id < next_transaction_id'
      BY <1>1, <2>1
    <2> QED
      BY <1>3, <2>1, <2>2
  <1> QED
    BY <1>1, <1>2, <1>3, OldOrPushed

\* RegistersFresh survives a step after which what it says holds of the Register
\* messages that are still in the queue and of the one pushed, if any.
LEMMA FreshKept ==
    ASSUME TypeOK, RegistersAscend, RegistersFresh, NEW m, ExecutorQueueStep(m),
           \A k \in 1 .. Len(executor_messages) :
             /\ executor_messages[k].type = "Register"
             /\ executor_messages' = Tail(executor_messages) => k # 1
             => /\ \A t \in transactions' : t < executor_messages[k].id
                /\ \A t \in Transactions : status'[t] = "done" => t < executor_messages[k].id
                /\ \A l \in LoopClusters, n \in Transactions :
                     executor_messages[k].id <= n => loop_values'[l][n] = NoTransaction,
           executor_messages' = Append(executor_messages, m) /\ m.type = "Register" =>
             /\ \A t \in transactions' : t < m.id
             /\ \A t \in Transactions : status'[t] = "done" => t < m.id
             /\ \A l \in LoopClusters, n \in Transactions :
                  m.id <= n => loop_values'[l][n] = NoTransaction
    PROVE  RegistersFresh'
  <1> SUFFICES ASSUME NEW i \in 1 .. Len(executor_messages'),
                      executor_messages'[i].type = "Register"
               PROVE  /\ \A t \in transactions' : t < executor_messages'[i].id
                      /\ \A t \in Transactions :
                           status'[t] = "done" => t < executor_messages'[i].id
                      /\ \A l \in LoopClusters, n \in Transactions :
                           executor_messages'[i].id <= n => loop_values'[l][n] = NoTransaction
    BY DEF RegistersFresh
  <1>1. executor_messages \in Seq(ExecutorMessage)
    BY LoopTypes
  <1>2. \/ executor_messages' = Append(executor_messages, m) /\ executor_messages'[i] = m
        \/ \E k \in 1 .. Len(executor_messages) :
             /\ executor_messages'[i] = executor_messages[k]
             /\ executor_messages' = Tail(executor_messages) => k # 1
    BY <1>1, OldOrPushed
  <1> QED
    BY <1>2

-----------------------------------------------------------------------------
(* The steps.                                                              *)

\* A step that leaves the loopers and the transactions that are over alone keeps
\* the parts of LoopInv that are not about the queue.
LEMMA LoopersKept ==
    ASSUME TypeOK, LoopInv, DoneKept, UNCHANGED <<before_update_hooks, loop_values>>,
           next_transaction_id' \in Nat, next_transaction_id <= next_transaction_id'
    PROVE  LoopValuesOrdered' /\ HooksNewest' /\ KeysTaken'
  <1>1. /\ \A l \in LoopClusters, k \in Transactions :
             loop_values[l][k] \in Transactions \cup {NoTransaction}
        /\ \A l \in LoopClusters : before_update_hooks[l] \in Transactions \cup {NoTransaction}
        /\ \A k \in Transactions : k \in Nat
        /\ next_transaction_id \in Nat
    BY LoopTypes
  <1>2. LoopValuesOrdered'
    BY <1>1 DEF LoopInv, LoopValuesOrdered, DoneKept
  <1>3. HooksNewest'
    BY <1>1 DEF LoopInv, HooksNewest, DoneKept
  <1>4. KeysTaken'
    <2>1. \A k \in Transactions : k < next_transaction_id => k < next_transaction_id'
      BY <1>1
    <2> QED
      BY <2>1 DEF LoopInv, KeysTaken
  <1> QED
    BY <1>2, <1>3, <1>4

\* A step that handles no message and pushes none of the users', or that drops a
\* message of no transaction's life, changes nothing of it.
LEMMA QuietLoop ==
    ASSUME TypeOK, LoopInv,
           UNCHANGED <<status, next_transaction_id, transactions>>,
           UNCHANGED <<before_update_hooks, loop_values>>,
           NEW m, ExecutorQueueStep(m),
           executor_messages' = Append(executor_messages, m) => m.type # "Register"
    PROVE  LoopInv'
  <1>1. DoneKept /\ next_transaction_id \in Nat
    BY LoopTypes DEF DoneKept
  <1>2. LoopValuesOrdered' /\ HooksNewest' /\ KeysTaken'
    BY <1>1, LoopersKept
  <1>3. RegistersAscend'
    BY <1>1, AscendKept DEF LoopInv
  <1>4. RegistersFresh'
    <2>1. \A k \in 1 .. Len(executor_messages) : executor_messages[k].type = "Register" =>
            /\ \A t \in transactions' : t < executor_messages[k].id
            /\ \A t \in Transactions : status'[t] = "done" => t < executor_messages[k].id
            /\ \A l \in LoopClusters, n \in Transactions :
                 executor_messages[k].id <= n => loop_values'[l][n] = NoTransaction
      BY DEF LoopInv, RegistersFresh
    <2> QED
      BY <2>1, FreshKept DEF LoopInv
  <1> QED
    BY <1>2, <1>3, <1>4 DEF LoopInv

\* The planner thread only proposes: to update a cluster of a transaction of the
\* deque, or to finalize its front (planner.cpp:245-262, 295-327).
LEMMA PlannerProposes ==
    ASSUME TypeOK, PlannerInDeque, PlannerStep
    PROVE  /\ UNCHANGED <<planner_messages, transaction_states, manager>>
           /\ \/ executor_messages' = executor_messages
              \/ \E m \in ExecutorMessage :
                   /\ executor_messages' = Append(executor_messages, m)
                   /\ m.type \in {"StartUpdate", "Finalize"}
  <1>1. UNCHANGED <<planner_messages, transaction_states, manager>>
    BY DEF PlannerStep, SimpleFinalize, SimpleAssign, SimpleReturn, RankReturn, RankVisit,
           RankAssign, RankSkip, RankNext
  <1>2. transaction_states \in Seq(TransactionState)
    BY DEF TypeOK
  <1>3. ASSUME NEW i \in 1 .. Len(transaction_states)
        PROVE  /\ Finalize(transaction_states[i].transaction_id) \in ExecutorMessage
               /\ \A c \in Clusters :
                    StartUpdate(transaction_states[i].transaction_id, c) \in ExecutorMessage
    <2>1. transaction_states[i].transaction_id \in Transactions
      BY DequeTypes
    <2> QED
      BY <2>1, MessageTypes
  <1>4. \A t, c : Finalize(t).type = "Finalize" /\ StartUpdate(t, c).type = "StartUpdate"
    BY DEF Finalize, StartUpdate
  <1>5. \/ executor_messages' = executor_messages
        \/ \E i \in 1 .. Len(transaction_states) :
             \/ PushExecutor(Finalize(transaction_states[i].transaction_id))
             \/ \E c \in Clusters :
                  PushExecutor(StartUpdate(transaction_states[i].transaction_id, c))
    <2>1. CASE SimpleFinalize \/ SimpleAssign
      <3>1. 1 \in 1 .. Len(transaction_states)
        BY <1>2, <2>1 DEF SimpleFinalize, SimpleAssign, SimpleMayPlan
      <3> QED
        BY <2>1, <3>1 DEF SimpleFinalize, SimpleAssign, FrontId
    <2>2. CASE RankAssign \/ RankNext
      <3>1. planner.i \in 1 .. Len(transaction_states)
        BY <1>2, <2>2, PlannerTypes DEF RankAssign, RankNext, PlannerInDeque, TypeOK, PlannerPcs
      <3> QED
        BY <2>2, <3>1 DEF RankAssign, RankNext
    <2>3. CASE SimpleReturn \/ RankReturn \/ RankVisit \/ RankSkip
      BY <2>3 DEF SimpleReturn, RankReturn, RankVisit, RankSkip
    <2> QED
      BY <2>1, <2>2, <2>3 DEF PlannerStep
  <1> QED
    BY <1>1, <1>3, <1>4, <1>5 DEF PushExecutor

\* The users' threads: a new transaction is the youngest, and what is submitted
\* goes behind its Register message.
LEMMA UserLoop ==
    ASSUME TypeOK, OrderInv, LoopInv, UserStep
    PROVE  LoopInv'
  <1>1. CASE Begin
    <2> DEFINE t == next_transaction_id
    <2>1. /\ t \in Transactions /\ t \in Nat
          /\ next_transaction_id' = t + 1
          /\ Register(t) \in ExecutorMessage
          /\ executor_messages' = Append(executor_messages, Register(t))
          /\ Register(t).id = t
          /\ status' = [status EXCEPT ![t] = "open"]
          /\ UNCHANGED <<transactions, before_update_hooks, loop_values>>
      <3>1. t \in Transactions
        BY <1>1, LoopTypes, BoundAssumption DEF Begin, Transactions
      <3> QED
        BY <1>1, <3>1, LoopTypes, MessageTypes
           DEF Begin, PushExecutor, Register, acceptedVars, hookVars
    <2>2. ExecutorQueueStep(Register(t))
      BY <2>1 DEF ExecutorQueueStep
    <2>3. /\ \A s \in Transactions : s >= t => status[s] = "none"
          /\ \A s \in transactions : status[s] = "submitted"
          /\ \A i \in 1 .. Len(executor_messages) : executor_messages[i].type = "Execute" =>
               status[executor_messages[i].id] = "submitted"
      BY DEF OrderInv, HeldWhileSubmitted
    <2>4. /\ \A s \in transactions : s < t
          /\ \A s \in Transactions : status[s] = "done" => s < t
          /\ \A i \in 1 .. Len(executor_messages) :
               executor_messages[i].type \in {"Register", "Execute"} => executor_messages[i].id < t
      <3>1. \A s \in Transactions : status[s] # "none" => s < t
        BY <2>1, <2>3, LoopTypes
      <3>2. \A i \in 1 .. Len(executor_messages) : executor_messages[i].id \in Transactions
        BY LoopTypes, MessageFields
      <3>3. \A s \in transactions : s < t
        BY <2>3, <3>1, LoopTypes
      <3>4. \A i \in 1 .. Len(executor_messages) :
               executor_messages[i].type = "Register" => executor_messages[i].id < t
        BY DEF LoopInv, RegistersAscend
      <3> QED
        BY <2>3, <3>1, <3>2, <3>3, <3>4
    <2>5. \A s \in Transactions : status'[s] = "done" <=> status[s] = "done"
      <3>1. status \in [Transactions -> Statuses]
        BY DEF TypeOK
      <3>2. status[t] = "none"
        BY <2>1, <2>3
      <3> QED
        BY <2>1, <3>1, <3>2
    <2>6. DoneKept /\ next_transaction_id' \in Nat /\ next_transaction_id <= next_transaction_id'
      BY <2>1, <2>5 DEF DoneKept
    <2>7. LoopValuesOrdered' /\ HooksNewest' /\ KeysTaken'
      BY <2>1, <2>6, LoopersKept
    <2>8. RegistersAscend'
      <3>1. t < next_transaction_id'
        BY <2>1
      <3> QED
        BY <2>1, <2>2, <2>4, <2>6, <3>1, AscendKept DEF LoopInv
    <2>9. RegistersFresh'
      <3>1. \A l \in LoopClusters, n \in Transactions : t <= n => loop_values[l][n] = NoTransaction
        <4> SUFFICES ASSUME NEW l \in LoopClusters, NEW n \in Transactions, t <= n
                     PROVE  loop_values[l][n] = NoTransaction
          OBVIOUS
        <4>1. n \in Nat /\ ~(n < t)
          BY <2>1, LoopTypes
        <4> QED
          BY <4>1 DEF LoopInv, KeysTaken
      <3>2. \A k \in 1 .. Len(executor_messages) : executor_messages[k].type = "Register" =>
              /\ \A s \in transactions' : s < executor_messages[k].id
              /\ \A s \in Transactions : status'[s] = "done" => s < executor_messages[k].id
              /\ \A l \in LoopClusters, n \in Transactions :
                   executor_messages[k].id <= n => loop_values'[l][n] = NoTransaction
        BY <2>1, <2>5 DEF LoopInv, RegistersFresh
      <3> QED
        BY <2>1, <2>2, <2>4, <2>5, <3>1, <3>2, FreshKept DEF LoopInv
    <2> QED
      BY <2>7, <2>8, <2>9 DEF LoopInv
  <1>2. ASSUME NEW t \in Transactions, Submit(t)
        PROVE  LoopInv'
    <2>1. /\ ExecutorQueueStep(Execute(t))
          /\ Execute(t).type # "Register"
          /\ UNCHANGED <<next_transaction_id, transactions, before_update_hooks, loop_values>>
          /\ next_transaction_id \in Nat
      BY <1>2, MessageTypes, LoopTypes
         DEF Submit, PushExecutor, ExecutorQueueStep, Execute, acceptedVars, hookVars
    <2>2. \A s \in Transactions : status'[s] = "done" <=> status[s] = "done"
      BY <1>2 DEF Submit, TypeOK
    <2>3. LoopValuesOrdered' /\ HooksNewest' /\ KeysTaken'
      BY <2>1, <2>2, LoopersKept DEF DoneKept
    <2>4. RegistersAscend'
      BY <2>1, AscendKept DEF LoopInv
    <2>5. RegistersFresh'
      <3>1. \A k \in 1 .. Len(executor_messages) : executor_messages[k].type = "Register" =>
              /\ \A s \in transactions' : s < executor_messages[k].id
              /\ \A s \in Transactions : status'[s] = "done" => s < executor_messages[k].id
              /\ \A l \in LoopClusters, n \in Transactions :
                   executor_messages[k].id <= n => loop_values'[l][n] = NoTransaction
        BY <2>1, <2>2 DEF LoopInv, RegistersFresh
      <3> QED
        BY <2>1, <3>1, FreshKept DEF LoopInv
    <2> QED
      BY <2>3, <2>4, <2>5 DEF LoopInv
  <1> QED
    BY <1>1, <1>2 DEF UserStep

\* HandleRegister: the hooks that wait write under a key above all others.
LEMMA RegisterLoop ==
    ASSUME TypeOK, LoopInv, HandleRegister
    PROVE  LoopInv'
  <1>1. /\ executor_messages \in Seq(ExecutorMessage)
        /\ executor_messages # <<>>
        /\ executor_messages[1].type = "Register"
        /\ executor_messages' = Tail(executor_messages)
        /\ 1 \in 1 .. Len(executor_messages)
        /\ Head(executor_messages) = executor_messages[1]
        /\ executor_messages[1].id \in Transactions
    BY LoopTypes, MessageFields DEF HandleRegister, Receive
  <1>2. PICK t \in Transactions : t = executor_messages[1].id
    BY <1>1
  <1>3. /\ \A l \in LoopClusters, k \in Transactions : loop_values'[l][k] =
             IF before_update_hooks[l] # NoTransaction /\ k = t
               THEN before_update_hooks[l] ELSE loop_values[l][k]
        /\ \A l \in LoopClusters : before_update_hooks'[l] = NoTransaction
        /\ UNCHANGED <<status, next_transaction_id, transactions>>
    <2>1. \A l \in LoopClusters :
            loop_values[l] \in [Transactions -> Transactions \cup {NoTransaction}]
      BY LoopTypes
    <2> QED
      BY <1>1, <1>2, <2>1 DEF HandleRegister, userVars, acceptedVars
  <1>4. /\ t < next_transaction_id
        /\ \A s \in transactions : s < t
        /\ \A s \in Transactions : status[s] = "done" => s < t
        /\ \A l \in LoopClusters, k \in Transactions : t <= k => loop_values[l][k] = NoTransaction
    BY <1>1, <1>2 DEF LoopInv, RegistersAscend, RegistersFresh
  <1>5. /\ \A l \in LoopClusters, k \in Transactions :
             loop_values[l][k] \in Transactions \cup {NoTransaction}
        /\ \A l \in LoopClusters : before_update_hooks[l] \in Transactions \cup {NoTransaction}
        /\ \A k \in Transactions : k \in Nat
        /\ \A k \in Transactions : 0 .. (k - 1) \subseteq Transactions
        /\ next_transaction_id \in Nat
        /\ NoTransaction = -1
    BY LoopTypes, OlderTransactions DEF NoTransaction
  <1>6. LoopValuesOrdered'
    <2> SUFFICES ASSUME NEW l \in LoopClusters, NEW k \in Transactions,
                        loop_values'[l][k] # NoTransaction
                 PROVE  /\ loop_values'[l][k] < k
                        /\ status'[loop_values'[l][k]] = "done"
                        /\ \A j \in 0 .. (k - 1) : loop_values'[l][j] < loop_values'[l][k]
      BY DEF LoopValuesOrdered
    <2>1. CASE before_update_hooks[l] # NoTransaction /\ k = t
      <3>1. /\ loop_values'[l][k] = before_update_hooks[l]
            /\ before_update_hooks[l] \in Transactions
            /\ status[before_update_hooks[l]] = "done"
            /\ \A j \in Transactions : loop_values[l][j] < before_update_hooks[l]
        BY <1>3, <1>5, <2>1 DEF LoopInv, HooksNewest
      <3>2. \A j \in 0 .. (k - 1) : j \in Transactions /\ j # t
        BY <1>5, <2>1
      <3>3. \A j \in 0 .. (k - 1) : loop_values'[l][j] = loop_values[l][j]
        BY <1>3, <3>2
      <3> QED
        BY <1>3, <1>4, <2>1, <3>1, <3>2, <3>3
    <2>2. CASE ~(before_update_hooks[l] # NoTransaction /\ k = t)
      <3>1. /\ loop_values'[l][k] = loop_values[l][k]
            /\ loop_values[l][k] # NoTransaction
        BY <1>3, <2>2
      <3>2. k < t
        BY <1>4, <1>5, <3>1
      <3>3. \A j \in 0 .. (k - 1) : j \in Transactions /\ j # t
        BY <1>5, <3>2
      <3>4. \A j \in 0 .. (k - 1) : loop_values'[l][j] = loop_values[l][j]
        BY <1>3, <3>3
      <3> QED
        BY <1>3, <3>1, <3>4 DEF LoopInv, LoopValuesOrdered
    <2> QED
      BY <2>1, <2>2
  <1>7. HooksNewest'
    BY <1>3 DEF HooksNewest
  <1>8. KeysTaken'
    BY <1>3, <1>4 DEF LoopInv, KeysTaken
  <1>9. /\ ExecutorQueueStep(Register(t))
        /\ executor_messages' # Append(executor_messages, Register(t))
    BY <1>1, QueueStepsDiffer DEF ExecutorQueueStep
  <1>10. RegistersAscend'
    BY <1>3, <1>5, <1>9, AscendKept DEF LoopInv
  <1>11. RegistersFresh'
    <2>1. ASSUME NEW k \in 1 .. Len(executor_messages),
                 executor_messages[k].type = "Register", k # 1
          PROVE  /\ \A s \in transactions' : s < executor_messages[k].id
                 /\ \A s \in Transactions : status'[s] = "done" => s < executor_messages[k].id
                 /\ \A l \in LoopClusters, n \in Transactions :
                      executor_messages[k].id <= n => loop_values'[l][n] = NoTransaction
      <3>1. 1 \in 1 .. (k - 1)
        BY <1>1, <2>1
      <3>2. t < executor_messages[k].id
        BY <1>1, <1>2, <2>1, <3>1 DEF LoopInv, RegistersAscend
      <3>3. executor_messages[k].id \in Nat
        BY <1>1, <1>5, MessageFields
      <3>4. /\ \A s \in transactions : s < executor_messages[k].id
            /\ \A s \in Transactions : status[s] = "done" => s < executor_messages[k].id
            /\ \A l \in LoopClusters, n \in Transactions :
                 executor_messages[k].id <= n => loop_values[l][n] = NoTransaction
        BY <2>1 DEF LoopInv, RegistersFresh
      <3>5. \A n \in Transactions : executor_messages[k].id <= n => n # t
        BY <1>5, <3>2, <3>3
      <3> QED
        BY <1>3, <3>4, <3>5
    <2> QED
      BY <1>1, <1>9, <2>1, FreshKept DEF LoopInv
  <1> QED
    BY <1>6, <1>7, <1>8, <1>10, <1>11 DEF LoopInv

\* HandleExecute: the transaction registered before every one still to register.
LEMMA ExecuteLoop ==
    ASSUME TypeOK, LoopInv, HandleExecute
    PROVE  LoopInv'
  <1>1. /\ executor_messages \in Seq(ExecutorMessage)
        /\ executor_messages # <<>>
        /\ executor_messages[1].type = "Execute"
        /\ executor_messages' = Tail(executor_messages)
        /\ 1 \in 1 .. Len(executor_messages)
        /\ transactions' = transactions \cup {executor_messages[1].id}
        /\ UNCHANGED <<status, next_transaction_id, before_update_hooks, loop_values>>
        /\ next_transaction_id \in Nat
    BY LoopTypes DEF HandleExecute, Receive, userVars, hookVars
  <1>2. LoopValuesOrdered' /\ HooksNewest' /\ KeysTaken'
    BY <1>1, LoopersKept DEF DoneKept
  <1>3. /\ ExecutorQueueStep(executor_messages[1])
        /\ executor_messages' # Append(executor_messages, executor_messages[1])
    BY <1>1, QueueStepsDiffer DEF ExecutorQueueStep
  <1>4. PICK m : m = executor_messages[1]
    OBVIOUS
  <1>5. RegistersAscend'
    BY <1>1, <1>3, <1>4, AscendKept DEF LoopInv
  <1>6. RegistersFresh'
    <2>1. ASSUME NEW k \in 1 .. Len(executor_messages),
                 executor_messages[k].type = "Register", k # 1
          PROVE  /\ \A s \in transactions' : s < executor_messages[k].id
                 /\ \A s \in Transactions : status'[s] = "done" => s < executor_messages[k].id
                 /\ \A l \in LoopClusters, n \in Transactions :
                      executor_messages[k].id <= n => loop_values'[l][n] = NoTransaction
      <3>1. 1 \in 1 .. (k - 1)
        BY <1>1, <2>1
      <3>2. executor_messages[1].id < executor_messages[k].id
        BY <1>1, <2>1, <3>1 DEF LoopInv, RegistersAscend
      <3> QED
        BY <1>1, <2>1, <3>2 DEF LoopInv, RegistersFresh
    <2> QED
      BY <1>1, <1>3, <1>4, <2>1, FreshKept DEF LoopInv
  <1> QED
    BY <1>2, <1>5, <1>6 DEF LoopInv

\* HandleFinalize: the hooks of the transaction that ends are younger than all
\* that ran, because older transactions ended before it.
LEMMA FinalizeLoop ==
    ASSUME TypeOK, OrderInv, LoopInv, HandleFinalize
    PROVE  LoopInv'
  <1>1. /\ executor_messages \in Seq(ExecutorMessage)
        /\ executor_messages # <<>>
        /\ executor_messages' = Tail(executor_messages)
        /\ Head(executor_messages) \in ExecutorMessage
        /\ Head(executor_messages).id \in Transactions
        /\ UNCHANGED <<next_transaction_id, loop_values>>
        /\ next_transaction_id \in Nat
    BY LoopTypes, MessageFields DEF HandleFinalize, Receive
  <1>2. PICK t \in Transactions : t = Head(executor_messages).id
    BY <1>1
  <1>3. PICK m : m = Head(executor_messages)
    OBVIOUS
  <1>4. ExecutorQueueStep(m) /\ executor_messages' # Append(executor_messages, m)
    BY <1>1, QueueStepsDiffer DEF ExecutorQueueStep
  <1>5. CASE t \notin transactions
    <2>1. UNCHANGED <<status, transactions, before_update_hooks>>
      BY <1>2, <1>5 DEF HandleFinalize, acceptedVars
    <2> QED
      BY <1>1, <1>4, <2>1, QuietLoop
  <1>6. CASE t \in transactions
    <2>1. /\ \A s \in Transactions : status'[s] = IF s = t THEN "done" ELSE status[s]
          /\ transactions' \subseteq transactions
          /\ \A l \in LoopClusters :
               before_update_hooks'[l] = t \/ before_update_hooks'[l] = before_update_hooks[l]
      BY <1>2, <1>6 DEF HandleFinalize, TypeOK
    <2>2. status[t] # "done"
      BY <1>6 DEF OrderInv, HeldWhileSubmitted
    <2>3. \A s \in Transactions : status[s] = "done" => s < t
      <3>1. \A s \in Transactions : status[s] = "done" => s # t /\ ~(t < s)
        BY <1>2, <2>2 DEF OrderInv, InOrder
      <3> QED
        BY <3>1, OlderTransactions
    <2>4. \A l \in LoopClusters, k \in Transactions : loop_values[l][k] < t
      <3> SUFFICES ASSUME NEW l \in LoopClusters, NEW k \in Transactions
                   PROVE  loop_values[l][k] < t
        OBVIOUS
      <3>1. loop_values[l][k] \in Transactions \cup {NoTransaction}
        BY LoopTypes
      <3>2. CASE loop_values[l][k] = NoTransaction
        BY <3>2, LoopTypes DEF NoTransaction
      <3>3. CASE loop_values[l][k] # NoTransaction
        BY <2>3, <3>1, <3>3 DEF LoopInv, LoopValuesOrdered
      <3> QED
        BY <3>2, <3>3
    <2>5. HooksNewest'
      <3> SUFFICES ASSUME NEW l \in LoopClusters, before_update_hooks'[l] # NoTransaction
                   PROVE  /\ status'[before_update_hooks'[l]] = "done"
                          /\ \A k \in Transactions : loop_values'[l][k] < before_update_hooks'[l]
        BY DEF HooksNewest
      <3>1. CASE before_update_hooks'[l] = t
        BY <1>1, <2>1, <2>4, <3>1
      <3>2. CASE before_update_hooks'[l] # t
        <4>1. before_update_hooks'[l] = before_update_hooks[l]
          BY <2>1, <3>2
        <4>2. before_update_hooks[l] \in Transactions
          BY <4>1, LoopTypes
        <4> QED
          BY <1>1, <2>1, <4>1, <4>2 DEF LoopInv, HooksNewest
      <3> QED
        BY <3>1, <3>2
    <2>6. LoopValuesOrdered' /\ KeysTaken'
      <3>1. \A l \in LoopClusters, k \in Transactions :
              loop_values[l][k] \in Transactions \cup {NoTransaction}
        BY LoopTypes
      <3>2. LoopValuesOrdered'
        BY <1>1, <2>1, <3>1 DEF LoopInv, LoopValuesOrdered
      <3> QED
        BY <1>1, <3>2 DEF LoopInv, KeysTaken
    <2>7. RegistersAscend'
      BY <1>1, <1>4, AscendKept DEF LoopInv
    <2>8. RegistersFresh'
      <3>1. ASSUME NEW k \in 1 .. Len(executor_messages), executor_messages[k].type = "Register"
            PROVE  /\ \A s \in transactions' : s < executor_messages[k].id
                   /\ \A s \in Transactions : status'[s] = "done" => s < executor_messages[k].id
                   /\ \A l \in LoopClusters, n \in Transactions :
                        executor_messages[k].id <= n => loop_values'[l][n] = NoTransaction
        BY <1>1, <1>6, <2>1, <3>1 DEF LoopInv, RegistersFresh
      <3> QED
        BY <1>4, <3>1, FreshKept DEF LoopInv
    <2> QED
      BY <2>5, <2>6, <2>7, <2>8 DEF LoopInv
  <1> QED
    BY <1>5, <1>6

\* Every other step.
LEMMA OtherLoop ==
    ASSUME TypeOK, PlannerInDeque, LoopInv,
           \/ HandleStartUpdate
           \/ WorkerStep
           \/ ManagerStep /\ UNCHANGED executorVars
           \/ PlannerStep /\ UNCHANGED executorVars
           \/ UNCHANGED vars
    PROVE  LoopInv'
  <1>1. executor_messages \in Seq(ExecutorMessage)
    BY LoopTypes
  <1>2. CASE HandleStartUpdate
    <2>1. PICK m : m = Head(executor_messages)
      OBVIOUS
    <2>2. /\ ExecutorQueueStep(m)
          /\ executor_messages' # Append(executor_messages, m)
          /\ UNCHANGED <<status, next_transaction_id, transactions>>
          /\ UNCHANGED <<before_update_hooks, loop_values>>
      BY <1>1, <1>2, QueueStepsDiffer
         DEF HandleStartUpdate, Receive, ExecutorQueueStep, userVars, hookVars
    <2> QED
      BY <2>2, QuietLoop
  <1>3. CASE WorkerStep \/ (ManagerStep /\ UNCHANGED executorVars) \/ UNCHANGED vars
    <2>1. /\ ExecutorQueueStep(<<>>)
          /\ executor_messages' # Append(executor_messages, <<>>)
      <3>1. executor_messages' = executor_messages
        BY <1>3 DEF WorkerStep, TakeTask, TaskStep, ReportNow, GenerateSubTransaction,
                    RegisterExecutionResult, ReportFinish, ManagerStep, ManagerStart,
                    ManagerStop, ManagerRefresh, vars
      <3> QED
        BY <1>1, <3>1, QueueStepsDiffer DEF ExecutorQueueStep
    <2>2. /\ UNCHANGED <<status, next_transaction_id, transactions>>
          /\ UNCHANGED <<before_update_hooks, loop_values>>
      BY <1>3 DEF WorkerStep, TakeTask, TaskStep, ReportNow, GenerateSubTransaction,
                  RegisterExecutionResult, ReportFinish, vars, executorVars, userVars,
                  acceptedVars, hookVars
    <2> QED
      BY <2>1, <2>2, QuietLoop
  <1>4. CASE PlannerStep /\ UNCHANGED executorVars
    <2>1. /\ UNCHANGED <<status, next_transaction_id, transactions>>
          /\ UNCHANGED <<before_update_hooks, loop_values>>
      BY <1>4 DEF executorVars, userVars, acceptedVars, hookVars
    <2>2. \/ executor_messages' = executor_messages
          \/ \E m \in ExecutorMessage : /\ executor_messages' = Append(executor_messages, m)
                                       /\ m.type \in {"StartUpdate", "Finalize"}
      BY <1>4, PlannerProposes
    <2>3. \E m : /\ ExecutorQueueStep(m)
                 /\ executor_messages' = Append(executor_messages, m) => m.type # "Register"
      BY <1>1, <2>2, QueueStepsDiffer DEF ExecutorQueueStep
    <2> QED
      BY <2>1, <2>3, QuietLoop
  <1> QED
    BY <1>2, <1>3, <1>4

\* Every step of the program keeps the invariant of the loops.
LEMMA LoopStep ==
    ASSUME OrderInv, LoopInv, [Next]_vars
    PROVE  LoopInv'
  <1>1. TypeOK /\ PlannerInDeque
    BY DEF OrderInv
  <1> QED
    BY <1>1, UserLoop, RegisterLoop, ExecuteLoop, FinalizeLoop, OtherLoop
       DEF Next, ExecutorStep, Rest

\* Nothing is registered before the first step.
LEMMA LoopInit == Init => LoopInv
  <1> SUFFICES ASSUME Init PROVE LoopInv
    OBVIOUS
  <1>1. /\ \A l \in LoopClusters : before_update_hooks[l] = NoTransaction
        /\ \A l \in LoopClusters, k \in Transactions : loop_values[l][k] = NoTransaction
        /\ executor_messages = <<>>
    BY DEF Init, ExecutorInit
  <1> QED
    BY <1>1 DEF LoopInv, LoopValuesOrdered, KeysTaken, HooksNewest, RegistersAscend, RegistersFresh

\* A value a transaction can sample from a looper is of an older transaction that
\* is over, and later keys hold values of later transactions (document.md:223-225).
THEOREM LoopsCorrect == Spec => []LoopValuesOrdered
  <1>1. OrderInv /\ LoopInv /\ [Next]_vars => LoopInv'
    BY LoopStep
  <1>2. LoopInv => LoopValuesOrdered
    BY DEF LoopInv
  <1> QED
    BY <1>1, <1>2, LoopInit, OrderCorrect, PTL DEF Spec

-----------------------------------------------------------------------------
(* What a transaction samples.                                             *)

\* A set of naturals that is bounded has a greatest element.
LEMMA Greatest ==
    ASSUME NEW b \in Nat, NEW S, S \subseteq 0 .. b, S # {}
    PROVE  \E k \in S : \A j \in S : j <= k
  <1> DEFINE T == {b - k : k \in S}
             R == OpToRel(<, Nat)
  <1>1. T \subseteq Nat /\ T # {}
    <2>1. \A k \in S : b - k \in Nat
      OBVIOUS
    <2>2. PICK k \in S : TRUE
      OBVIOUS
    <2>3. b - k \in T
      OBVIOUS
    <2> QED
      BY <2>1, <2>3
  <1>2. PICK x \in T : \A y \in T : <<y, x>> \notin R
    <2>1. IsWellFoundedOn(R, Nat)
      BY NatLessThanWellFounded
    <2> HIDE DEF R, T
    <2> QED
      BY <1>1, <2>1, WFMin
  <1>3. \A y \in T : ~(y < x)
    BY <1>1, <1>2 DEF OpToRel
  <1>4. PICK k \in S : x = b - k
    OBVIOUS
  <1>5. \A j \in S : ~(b - j < b - k)
    BY <1>3, <1>4
  <1> QED
    BY <1>5

\* What a transaction samples depends on the keys up to its own ID only.
LEMMA SampledBelow ==
    ASSUME TypeOK, NEW l \in LoopClusters, NEW t \in Transactions,
           \A k \in 0 .. t : loop_values'[l][k] = loop_values[l][k]
    PROVE  Sampled(l, t)' = Sampled(l, t)
  <1> DEFINE keys == {k \in 0 .. t : loop_values[l][k] # NoTransaction}
             newest == CHOOSE k \in keys : \A j \in keys : j <= k
  <1>1. keys' = keys
    OBVIOUS
  <1>2. CASE keys = {}
    BY <1>1, <1>2 DEF Sampled
  <1>3. CASE keys # {}
    <2>1. t \in Nat
      BY LoopTypes
    <2>2. \E k \in keys : \A j \in keys : j <= k
      BY <1>3, <2>1, Greatest
    <2>3. newest \in keys
      BY <2>2
    <2>4. newest' = newest
      BY <1>1
    <2>5. Sampled(l, t) = loop_values[l][newest]
      BY <1>3 DEF Sampled
    <2>6. Sampled(l, t)' = loop_values'[l][newest]
      BY <1>1, <1>3, <2>4 DEF Sampled
    <2>7. newest \in 0 .. t
      BY <2>3
    <2> HIDE DEF keys, newest
    <2> QED
      BY <2>5, <2>6, <2>7
  <1> QED
    BY <1>2, <1>3

\* Only HandleRegister writes into a looper, and only under a key above the ID of
\* every transaction the Executor holds.
LEMMA SampleKept ==
    ASSUME TypeOK, LoopInv, [Next]_vars,
           NEW t \in Transactions, NEW l \in LoopClusters, t \in transactions
    PROVE  Sampled(l, t)' = Sampled(l, t)
  <1>1. CASE HandleRegister
    <2>1. /\ executor_messages # <<>>
          /\ executor_messages \in Seq(ExecutorMessage)
          /\ executor_messages[1].type = "Register"
          /\ 1 \in 1 .. Len(executor_messages)
          /\ Head(executor_messages) = executor_messages[1]
      BY <1>1, LoopTypes DEF HandleRegister, Receive
    <2>2. t < executor_messages[1].id
      BY <2>1 DEF LoopInv, RegistersFresh
    <2>3. /\ executor_messages[1].id \in Transactions
          /\ \A k \in Transactions : k \in Nat
          /\ 0 .. t \subseteq Transactions
      BY <2>1, LoopTypes, MessageFields, BoundAssumption DEF Transactions
    <2>4. \A k \in 0 .. t : k \in Transactions /\ k # executor_messages[1].id
      BY <2>2, <2>3
    <2>5. loop_values[l] \in [Transactions -> Transactions \cup {NoTransaction}]
      BY LoopTypes
    <2>6. \A k \in 0 .. t : loop_values'[l][k] = loop_values[l][k]
      BY <1>1, <2>1, <2>4, <2>5 DEF HandleRegister
    <2> QED
      BY <2>6, SampledBelow
  <1>2. CASE ~HandleRegister
    <2>1. loop_values' = loop_values
      BY <1>2 DEF Next, UserStep, Begin, Submit, ExecutorStep, HandleExecute, HandleStartUpdate,
                  HandleFinalize, WorkerStep, TakeTask, TaskStep, ReportNow,
                  GenerateSubTransaction, RegisterExecutionResult, ReportFinish, Rest, vars,
                  executorVars, hookVars
    <2> QED
      BY <2>1, SampledBelow
  <1> QED
    BY <1>1, <1>2

\* What a transaction samples from a looper does not change from when the Executor
\* holds the transaction until it ends (document.md:226).
THEOREM LoopSamplesStable == Spec => LoopSampleStable
  <1>1. TypeOK /\ LoopInv /\ [Next]_vars =>
          [\A t \in Transactions, l \in LoopClusters :
             t \in transactions => Sampled(l, t)' = Sampled(l, t)]_vars
    BY SampleKept
  <1>2. OrderInv /\ LoopInv /\ [Next]_vars => LoopInv'
    BY LoopStep
  <1>3. OrderInv => TypeOK
    BY DEF OrderInv
  <1> QED
    BY <1>1, <1>2, <1>3, LoopInit, OrderCorrect, PTL DEF Spec, LoopSampleStable

=============================================================================
