---------------------------- MODULE ReportProofs ----------------------------
(***************************************************************************)
(* What the PlannerManager knows of a transaction agrees with what happens *)
(* to it: every cluster of a transaction is in one place of a life that    *)
(* goes from its registration to the report that it finished, whatever is  *)
(* on its way in the two queues.                                           *)
(***************************************************************************)
EXTENDS OrderProofs

-----------------------------------------------------------------------------
(* What the queues and the deque hold.                                     *)

Has(q, S) == \E i \in 1 .. Len(q) : q[i] \in S
InSequence(q, R) == \A i, j \in 1 .. Len(q) : i < j => <<q[i], q[j]>> \in R

Waiting(m) == Has(executor_messages, {m})

\* The messages the PlannerManager has not handled yet: the one its thread holds
\* while it joins the planner thread, then those of its queue.
Pipe ==
    IF manager.pc = "joining" THEN <<manager.message>> \o planner_messages
                              ELSE planner_messages

UpdatesOf(t) == {m \in UpdateMessage : m.id = t}

\* The first report of a transaction, HandleExecute's.
Initial(m) == m.now = {} /\ m.finish = {}

Reports(t) == Has(Pipe, UpdatesOf(t))
InitialSent(t) == Has(Pipe, {m \in UpdatesOf(t) : Initial(m)})
NowSent(t, c) == Has(Pipe, {m \in UpdatesOf(t) : c \in m.now})
FutureSent(t, c) == Has(Pipe, {m \in UpdatesOf(t) : c \in m.future})
FinishSent(t, c) == Has(Pipe, {m \in UpdatesOf(t) : c \in m.finish})
Starting(t) == Has(Pipe, {Start(t)})
Ending(t) == Has(Pipe, {Finish(t)})

StatesOf(t) == {s \in TransactionState : s.transaction_id = t}

Initialized(t) == Has(transaction_states, {s \in StatesOf(t) : s.initialized})
HasFuture(t, c) == Has(transaction_states, {s \in StatesOf(t) : c \in s.future})
HasNow(t, c) == Has(transaction_states, {s \in StatesOf(t) : c \in s.now})

-----------------------------------------------------------------------------
(* Queues.                                                                 *)

\* What is in a queue after a push or a pop.
LEMMA HasPush ==
    ASSUME NEW M, NEW q \in Seq(M), NEW m, NEW S
    PROVE  Has(Append(q, m), S) <=> Has(q, S) \/ m \in S
  <1>1. /\ Len(q) \in Nat
        /\ Len(Append(q, m)) = Len(q) + 1
        /\ \A i \in 1 .. Len(q) : Append(q, m)[i] = q[i]
        /\ Append(q, m)[Len(q) + 1] = m
    OBVIOUS
  <1>2. ASSUME NEW i \in 1 .. Len(q), q[i] \in S
        PROVE  Has(Append(q, m), S)
    <2>1. i \in 1 .. Len(Append(q, m)) /\ Append(q, m)[i] \in S
      BY <1>1, <1>2
    <2> QED
      BY <2>1 DEF Has
  <1>3. ASSUME m \in S
        PROVE  Has(Append(q, m), S)
    <2>1. Len(q) + 1 \in 1 .. Len(Append(q, m))
      BY <1>1
    <2> QED
      BY <1>1, <1>3, <2>1 DEF Has
  <1>4. ASSUME NEW i \in 1 .. Len(Append(q, m)), Append(q, m)[i] \in S
        PROVE  Has(q, S) \/ m \in S
    <2>1. i \in 1 .. Len(q) \/ i = Len(q) + 1
      BY <1>1
    <2> QED
      BY <1>1, <1>4, <2>1 DEF Has
  <1> QED
    BY <1>2, <1>3, <1>4 DEF Has

\* The oldest message of a queue is the one a pop takes away.
LEMMA HasPop ==
    ASSUME NEW M, NEW q \in Seq(M), q # <<>>, NEW S
    PROVE  /\ Has(q, S) <=> Has(Tail(q), S) \/ Head(q) \in S
           /\ Head(q) = q[1]
           /\ 1 \in 1 .. Len(q)
  <1>1. /\ Len(q) \in Nat \ {0}
        /\ Head(q) = q[1]
        /\ Len(Tail(q)) = Len(q) - 1
        /\ \A i \in 1 .. Len(Tail(q)) : Tail(q)[i] = q[i + 1]
    BY PopTypes
  <1>2. ASSUME NEW i \in 1 .. Len(q), q[i] \in S
        PROVE  Has(Tail(q), S) \/ Head(q) \in S
    <2>1. CASE i = 1
      BY <1>1, <1>2, <2>1
    <2>2. CASE i # 1
      <3>1. i - 1 \in 1 .. Len(Tail(q)) /\ Tail(q)[i - 1] = q[i]
        BY <1>1, <2>2
      <3> QED
        BY <1>2, <3>1 DEF Has
    <2> QED
      BY <2>1, <2>2
  <1>3. ASSUME NEW i \in 1 .. Len(Tail(q)), Tail(q)[i] \in S
        PROVE  Has(q, S)
    <2>1. i + 1 \in 1 .. Len(q) /\ q[i + 1] \in S
      BY <1>1, <1>3
    <2> QED
      BY <2>1 DEF Has
  <1>4. Head(q) \in S => Has(q, S)
    BY <1>1 DEF Has
  <1> QED
    BY <1>1, <1>2, <1>3, <1>4 DEF Has

\* What is in order stays so when the head leaves, and when what comes is in order
\* after all there is.
LEMMA InSequencePush ==
    ASSUME NEW M, NEW q \in Seq(M), NEW m, NEW R, InSequence(q, R),
           \A i \in 1 .. Len(q) : <<q[i], m>> \in R
    PROVE  InSequence(Append(q, m), R)
  <1>1. /\ Len(q) \in Nat
        /\ Len(Append(q, m)) = Len(q) + 1
        /\ \A i \in 1 .. Len(q) : Append(q, m)[i] = q[i]
        /\ Append(q, m)[Len(q) + 1] = m
    OBVIOUS
  <1> SUFFICES ASSUME NEW i \in 1 .. Len(Append(q, m)), NEW j \in 1 .. Len(Append(q, m)), i < j
               PROVE  <<Append(q, m)[i], Append(q, m)[j]>> \in R
    BY DEF InSequence
  <1> DEFINE last == Len(q) + 1
  <1>0. j \in 1 .. Len(q) \/ j = last
    BY <1>1
  <1>2. i \in 1 .. Len(q) /\ Append(q, m)[i] = q[i]
    BY <1>1
  <1>3. CASE j \in 1 .. Len(q)
    BY <1>1, <1>2, <1>3 DEF InSequence
  <1>4. CASE j = last
    BY <1>1, <1>2, <1>4
  <1> HIDE DEF last
  <1> QED
    BY <1>0, <1>3, <1>4

\* A pop keeps the order of what is left, and its message came first.
LEMMA InSequencePop ==
    ASSUME NEW M, NEW q \in Seq(M), q # <<>>, NEW R, InSequence(q, R)
    PROVE  /\ InSequence(Tail(q), R)
           /\ \A i \in 1 .. Len(Tail(q)) : <<Head(q), Tail(q)[i]>> \in R
  <1>1. /\ Len(q) \in Nat \ {0}
        /\ Head(q) = q[1]
        /\ Len(Tail(q)) = Len(q) - 1
        /\ \A i \in 1 .. Len(Tail(q)) : Tail(q)[i] = q[i + 1]
    BY PopTypes
  <1>2. ASSUME NEW i \in 1 .. Len(Tail(q)), NEW j \in 1 .. Len(Tail(q)), i < j
        PROVE  <<Tail(q)[i], Tail(q)[j]>> \in R
    <2>1. i + 1 \in 1 .. Len(q) /\ j + 1 \in 1 .. Len(q) /\ i + 1 < j + 1
      BY <1>1, <1>2
    <2> QED
      BY <1>1, <2>1 DEF InSequence
  <1>3. ASSUME NEW i \in 1 .. Len(Tail(q))
        PROVE  <<Head(q), Tail(q)[i]>> \in R
    <2>1. 1 \in 1 .. Len(q) /\ i + 1 \in 1 .. Len(q) /\ 1 < i + 1
      BY <1>1, <1>3
    <2> QED
      BY <1>1, <2>1 DEF InSequence
  <1> QED
    BY <1>2, <1>3 DEF InSequence

-----------------------------------------------------------------------------
(* The steps of the two queues.                                            *)

\* The pipe holds messages of the planner's type.
LEMMA PipeType ==
    ASSUME TypeOK
    PROVE  Pipe \in Seq(PlannerMessage)
  <1>1. planner_messages \in Seq(PlannerMessage)
    BY DEF TypeOK
  <1>2. manager.pc = "joining" => <<manager.message>> \in Seq(PlannerMessage)
    BY DEF TypeOK, PlannerMessage
  <1> QED
    BY <1>1, <1>2 DEF Pipe

\* A push at the end of the PlannerManager's queue.
LEMMA PipePush ==
    ASSUME TypeOK, NEW m \in PlannerMessage, PushPlanner(m), manager' = manager
    PROVE  Pipe' = Append(Pipe, m)
  <1>1. planner_messages \in Seq(PlannerMessage)
    BY DEF TypeOK
  <1>2. manager.pc = "joining" => manager.message \in PlannerMessage
    BY DEF TypeOK, PlannerMessage
  <1>3. \A x \in PlannerMessage :
          <<x>> \o Append(planner_messages, m) = Append(<<x>> \o planner_messages, m)
    BY <1>1
  <1> QED
    BY <1>2, <1>3 DEF Pipe, PushPlanner

\* ManagerStop moves the head of the queue into the hand of the thread.
LEMMA PipeStop ==
    ASSUME TypeOK, ManagerStop
    PROVE  Pipe' = Pipe
  <1>1. planner_messages \in Seq(PlannerMessage)
    BY DEF TypeOK
  <1>2. <<Head(planner_messages)>> \o Tail(planner_messages) = planner_messages
    BY <1>1 DEF ManagerStop
  <1> QED
    BY <1>2 DEF ManagerStop, Pipe, Idle, Joining

\* The two handling steps take the head.
LEMMA PipePop ==
    ASSUME TypeOK, ManagerStart \/ ManagerRefresh
    PROVE  /\ Pipe # <<>>
           /\ Pipe' = Tail(Pipe)
           /\ Head(Pipe) \in PlannerMessage
           /\ Head(Pipe).type = "Start" <=> ManagerStart
           /\ transaction_states' = HandleMessage(transaction_states, Head(Pipe))
           /\ UNCHANGED executor_messages
  <1>1. planner_messages \in Seq(PlannerMessage)
    BY DEF TypeOK
  <1>2. CASE ManagerStart
    <2>1. Pipe = planner_messages /\ Pipe' = planner_messages' /\ manager.pc # "joining"
      BY <1>2 DEF ManagerStart, Pipe, Idle
    <2>2. Head(planner_messages) \in PlannerMessage
      BY <1>1, <1>2 DEF ManagerStart
    <2> QED
      BY <1>2, <2>1, <2>2, MessageFields DEF ManagerStart, NeedRefresh
  <1>3. CASE ManagerRefresh
    <2>1. /\ manager.pc = "joining"
          /\ manager.message \in UpdateMessage \cup FinishMessage
      BY <1>3 DEF ManagerRefresh, TypeOK
    <2>2. manager.message \in PlannerMessage /\ manager.message.type # "Start"
      BY <2>1 DEF PlannerMessage, UpdateMessage, FinishMessage
    <2>3. /\ <<manager.message>> \o planner_messages # <<>>
          /\ Head(<<manager.message>> \o planner_messages) = manager.message
          /\ Tail(<<manager.message>> \o planner_messages) = planner_messages
      BY <1>1, <2>2
    <2>4. Pipe = <<manager.message>> \o planner_messages /\ Pipe' = planner_messages
      BY <1>3, <2>1 DEF ManagerRefresh, Pipe, Idle
    <2>5. ~ManagerStart
      BY <2>1 DEF ManagerStart, Idle
    <2> QED
      BY <1>3, <2>2, <2>3, <2>4, <2>5 DEF ManagerRefresh
  <1> QED
    BY <1>2, <1>3

\* What a push or a pop of the Executor's queue changes.
LEMMA WaitingPush ==
    ASSUME TypeOK, NEW m, executor_messages' = Append(executor_messages, m)
    PROVE  \A x : Waiting(x)' <=> Waiting(x) \/ x = m
  <1>1. executor_messages \in Seq(ExecutorMessage)
    BY DEF TypeOK
  <1> QED
    BY <1>1, HasPush DEF Waiting

\* What waits for the Executor, before and after it takes a message.
LEMMA WaitingPop ==
    ASSUME TypeOK, executor_messages # <<>>, executor_messages' = Tail(executor_messages)
    PROVE  \A x : Waiting(x) <=> Waiting(x)' \/ x = Head(executor_messages)
  <1>1. executor_messages \in Seq(ExecutorMessage)
    BY DEF TypeOK
  <1> QED
    BY <1>1, HasPop DEF Waiting

\* What a message of the pipe that is pushed or popped changes.
LEMMA PipePushViews ==
    ASSUME TypeOK, NEW m, Pipe' = Append(Pipe, m)
    PROVE  \A t :
             /\ Reports(t)' <=> Reports(t) \/ m \in UpdatesOf(t)
             /\ InitialSent(t)' <=> InitialSent(t) \/ (m \in UpdatesOf(t) /\ Initial(m))
             /\ Starting(t)' <=> Starting(t) \/ m = Start(t)
             /\ Ending(t)' <=> Ending(t) \/ m = Finish(t)
             /\ \A c : /\ NowSent(t, c)' <=> NowSent(t, c) \/ (m \in UpdatesOf(t) /\ c \in m.now)
                       /\ FutureSent(t, c)' <=>
                            FutureSent(t, c) \/ (m \in UpdatesOf(t) /\ c \in m.future)
                       /\ FinishSent(t, c)' <=>
                            FinishSent(t, c) \/ (m \in UpdatesOf(t) /\ c \in m.finish)
  <1>1. \A S : Has(Pipe, S)' <=> Has(Pipe, S) \/ m \in S
    BY PipeType, HasPush
  <1> QED
    BY <1>1 DEF Reports, InitialSent, Starting, Ending, NowSent, FutureSent, FinishSent

\* What the pipe says of a transaction, before and after a pop.
LEMMA PipePopViews ==
    ASSUME TypeOK, Pipe # <<>>, Pipe' = Tail(Pipe), NEW m, m = Head(Pipe)
    PROVE  \A t :
             /\ Reports(t) <=> Reports(t)' \/ m \in UpdatesOf(t)
             /\ InitialSent(t) <=> InitialSent(t)' \/ (m \in UpdatesOf(t) /\ Initial(m))
             /\ Starting(t) <=> Starting(t)' \/ m = Start(t)
             /\ Ending(t) <=> Ending(t)' \/ m = Finish(t)
             /\ \A c : /\ NowSent(t, c) <=> NowSent(t, c)' \/ (m \in UpdatesOf(t) /\ c \in m.now)
                       /\ FutureSent(t, c) <=>
                            FutureSent(t, c)' \/ (m \in UpdatesOf(t) /\ c \in m.future)
                       /\ FinishSent(t, c) <=>
                            FinishSent(t, c)' \/ (m \in UpdatesOf(t) /\ c \in m.finish)
  <1>1. \A S : Has(Pipe, S) <=> Has(Pipe, S)' \/ m \in S
    BY PipeType, HasPop
  <1> QED
    BY <1>1 DEF Reports, InitialSent, Starting, Ending, NowSent, FutureSent, FinishSent

\* What a step changes that leaves the pipe, the deque or the Executor's queue alone.
LEMMA SamePipeViews ==
    ASSUME Pipe' = Pipe, NEW t
    PROVE  /\ Reports(t)' <=> Reports(t)
           /\ InitialSent(t)' <=> InitialSent(t)
           /\ Starting(t)' <=> Starting(t)
           /\ Ending(t)' <=> Ending(t)
           /\ \A c : /\ NowSent(t, c)' <=> NowSent(t, c)
                     /\ FutureSent(t, c)' <=> FutureSent(t, c)
                     /\ FinishSent(t, c)' <=> FinishSent(t, c)
  BY DEF Reports, InitialSent, Starting, Ending, NowSent, FutureSent, FinishSent

\* The views of the deque depend on nothing else.
LEMMA SameDequeViews ==
    ASSUME transaction_states' = transaction_states, NEW t
    PROVE  /\ InDeque(t)' <=> InDeque(t)
           /\ Initialized(t)' <=> Initialized(t)
           /\ \A c : /\ HasFuture(t, c)' <=> HasFuture(t, c)
                     /\ HasNow(t, c)' <=> HasNow(t, c)
  BY DEF InDeque, Initialized, HasFuture, HasNow

\* What waits for the Executor depends on its queue alone.
LEMMA SameWaiting ==
    ASSUME executor_messages' = executor_messages
    PROVE  \A m : Waiting(m)' <=> Waiting(m)
  BY DEF Waiting

-----------------------------------------------------------------------------
(* The deque.                                                              *)

\* The states of a deque have consecutive IDs.
Deque(q) ==
    /\ q \in Seq(TransactionState)
    /\ \A k \in 1 .. Len(q) : q[k].transaction_id = q[1].transaction_id + k - 1

\* The deque is one before and after each step.
LEMMA Deques ==
    ASSUME TypeOK, ConsecutiveIds, TypeOK', ConsecutiveIds'
    PROVE  Deque(transaction_states) /\ Deque(transaction_states')
  BY DEF TypeOK, ConsecutiveIds, FrontId, Deque

\* So a transaction has one state at most.
LEMMA OneState ==
    ASSUME NEW q, Deque(q), NEW k \in 1 .. Len(q), NEW t, q[k].transaction_id = t
    PROVE  /\ Has(q, {s \in StatesOf(t) : s.initialized}) <=> q[k].initialized
           /\ \A c : /\ Has(q, {s \in StatesOf(t) : c \in s.future}) <=> c \in q[k].future
                     /\ Has(q, {s \in StatesOf(t) : c \in s.now}) <=> c \in q[k].now
  <1>1. /\ q \in Seq(TransactionState)
        /\ 1 \in 1 .. Len(q)
        /\ \A j \in 1 .. Len(q) : /\ q[j] \in TransactionState
                                  /\ q[j].transaction_id = q[1].transaction_id + j - 1
    BY DEF Deque
  <1>2. q[1].transaction_id \in Nat
    BY <1>1, BoundAssumption DEF TransactionState, Transactions
  <1>3. \A S \in SUBSET StatesOf(t) : Has(q, S) <=> q[k] \in S
    <2> SUFFICES ASSUME NEW S \in SUBSET StatesOf(t)
                 PROVE  Has(q, S) <=> q[k] \in S
      OBVIOUS
    <2>1. ASSUME NEW j \in 1 .. Len(q), q[j] \in S
          PROVE  j = k
      <3>1. q[j].transaction_id = t
        BY <2>1 DEF StatesOf
      <3> QED
        BY <1>1, <1>2, <3>1
    <2> QED
      BY <2>1 DEF Has
  <1>4. q[k] \in StatesOf(t)
    BY <1>1 DEF StatesOf
  <1>5. Has(q, {s \in StatesOf(t) : s.initialized}) <=> q[k].initialized
    <2>1. {s \in StatesOf(t) : s.initialized} \in SUBSET StatesOf(t)
      OBVIOUS
    <2> QED
      BY <1>3, <1>4, <2>1
  <1>6. ASSUME NEW c
        PROVE  /\ Has(q, {s \in StatesOf(t) : c \in s.future}) <=> c \in q[k].future
               /\ Has(q, {s \in StatesOf(t) : c \in s.now}) <=> c \in q[k].now
    <2>1. /\ {s \in StatesOf(t) : c \in s.future} \in SUBSET StatesOf(t)
          /\ {s \in StatesOf(t) : c \in s.now} \in SUBSET StatesOf(t)
      OBVIOUS
    <2> QED
      BY <1>3, <1>4, <2>1
  <1> QED
    BY <1>5, <1>6

\* What the deque says of the transaction of one of its states.
LEMMA ViewsAt ==
    ASSUME Deque(transaction_states), NEW k \in 1 .. Len(transaction_states)
    PROVE  LET s == transaction_states[k]
           IN  /\ s \in TransactionState
               /\ s.transaction_id \in Transactions
               /\ InDeque(s.transaction_id)
               /\ Initialized(s.transaction_id) <=> s.initialized
               /\ \A c : /\ HasFuture(s.transaction_id, c) <=> c \in s.future
                         /\ HasNow(s.transaction_id, c) <=> c \in s.now
  <1>1. transaction_states[k] \in TransactionState
    BY DEF Deque
  <1> QED
    BY <1>1, OneState DEF InDeque, Initialized, HasFuture, HasNow, TransactionState

\* A transaction without a state is neither initialized nor has it clusters.
LEMMA AbsentViews ==
    ASSUME NEW t, ~InDeque(t)
    PROVE  ~Initialized(t) /\ \A c : ~HasFuture(t, c) /\ ~HasNow(t, c)
  BY DEF InDeque, Initialized, HasFuture, HasNow, Has, StatesOf

\* The views of t after a step that leaves state s as the k-th, of t.
LEMMA ViewsAfter ==
    ASSUME Deque(transaction_states'), NEW k \in 1 .. Len(transaction_states'),
           NEW s, s = transaction_states'[k], NEW t, s.transaction_id = t
    PROVE  /\ InDeque(t)'
           /\ Initialized(t)' <=> s.initialized
           /\ \A c : /\ HasFuture(t, c)' <=> c \in s.future
                     /\ HasNow(t, c)' <=> c \in s.now
  <1> DEFINE q == transaction_states'
  <1>1. q[k] = s /\ q[k].transaction_id = t
    OBVIOUS
  <1>2. InDeque(t)'
    BY <1>1 DEF InDeque
  <1>3. /\ Has(q, {x \in StatesOf(t) : x.initialized}) <=> q[k].initialized
        /\ \A c : /\ Has(q, {x \in StatesOf(t) : c \in x.future}) <=> c \in q[k].future
                  /\ Has(q, {x \in StatesOf(t) : c \in x.now}) <=> c \in q[k].now
    BY <1>1, OneState
  <1> QED
    BY <1>1, <1>2, <1>3 DEF Initialized, HasFuture, HasNow

\* A transaction without a state in the deque has no clusters there.
LEMMA AbsentAfter ==
    ASSUME NEW t, ~InDeque(t)'
    PROVE  ~Initialized(t)' /\ \A c : ~HasFuture(t, c)' /\ ~HasNow(t, c)'
  BY DEF InDeque, Initialized, HasFuture, HasNow, Has, StatesOf

\* A Start message that adds one state.
LEMMA DequePush ==
    ASSUME Deque(transaction_states), Deque(transaction_states'),
           NEW t \in Transactions,
           transaction_states' = Append(transaction_states, NewTransactionState(t))
    PROVE  /\ \A u : InDeque(u)' <=> InDeque(u) \/ u = t
           /\ \A u : Initialized(u)' <=> Initialized(u)
           /\ \A u, c : /\ HasFuture(u, c)' <=> HasFuture(u, c)
                        /\ HasNow(u, c)' <=> HasNow(u, c)
  <1>1. transaction_states \in Seq(TransactionState)
    BY DEF Deque
  <1>2. /\ NewTransactionState(t).transaction_id = t
        /\ ~NewTransactionState(t).initialized
        /\ \A c : c \notin NewTransactionState(t).future /\ c \notin NewTransactionState(t).now
    BY DEF NewTransactionState
  <1>3. \A S : Has(transaction_states, S)' <=>
                 Has(transaction_states, S) \/ NewTransactionState(t) \in S
    BY <1>1, HasPush
  <1>4. \A u : InDeque(u)' <=> InDeque(u) \/ u = t
    <2> DEFINE n == NewTransactionState(t)
    <2>1. /\ Len(transaction_states) \in Nat
          /\ Len(transaction_states') = Len(transaction_states) + 1
          /\ \A k \in 1 .. Len(transaction_states) :
               transaction_states'[k] = transaction_states[k]
          /\ transaction_states'[Len(transaction_states) + 1] = n
      BY <1>1
    <2> HIDE DEF n
    <2>2. 1 .. Len(transaction_states') =
            (1 .. Len(transaction_states)) \cup {Len(transaction_states) + 1}
      BY <2>1
    <2>3. n.transaction_id = t
      BY <1>2 DEF n
    <2> QED
      BY <2>1, <2>2, <2>3 DEF InDeque
  <1> QED
    BY <1>2, <1>3, <1>4 DEF Initialized, HasFuture, HasNow

\* A Finish message that removes the front.
LEMMA DequePop ==
    ASSUME Deque(transaction_states), transaction_states # <<>>,
           transaction_states' = Tail(transaction_states)
    PROVE  /\ \A u : InDeque(u)' <=> InDeque(u) /\ u # FrontId
           /\ \A u : u # FrontId => (Initialized(u)' <=> Initialized(u))
           /\ \A u, c : u # FrontId => /\ HasFuture(u, c)' <=> HasFuture(u, c)
                                       /\ HasNow(u, c)' <=> HasNow(u, c)
  <1>1. /\ transaction_states \in Seq(TransactionState)
        /\ \A k \in 1 .. Len(transaction_states) :
             /\ transaction_states[k] \in TransactionState
             /\ transaction_states[k].transaction_id = FrontId + k - 1
    BY DEF Deque, FrontId
  <1>2. /\ \A S : Has(transaction_states, S) <=>
                    Has(transaction_states, S)' \/ Head(transaction_states) \in S
        /\ Head(transaction_states) = transaction_states[1]
        /\ 1 \in 1 .. Len(transaction_states)
    BY <1>1, HasPop
  <1>3. \A u : u # FrontId => Head(transaction_states) \notin StatesOf(u)
    BY <1>2 DEF StatesOf, FrontId
  <1>4. \A u : InDeque(u)' <=> InDeque(u) /\ u # FrontId
    <2>1. /\ Len(transaction_states) \in Nat \ {0}
          /\ Len(transaction_states') = Len(transaction_states) - 1
          /\ \A k \in 1 .. Len(transaction_states') :
               transaction_states'[k] = transaction_states[k + 1]
      BY <1>1, PopTypes
    <2>2. FrontId \in Nat
      BY <1>1, <1>2, BoundAssumption DEF FrontId, TransactionState, Transactions
    <2>3. ASSUME NEW u, NEW k \in 1 .. Len(transaction_states'),
                 transaction_states'[k].transaction_id = u
          PROVE  InDeque(u) /\ u # FrontId
      <3>1. k + 1 \in 1 .. Len(transaction_states)
        BY <2>1
      <3>2. transaction_states[k + 1].transaction_id = u
        BY <2>1, <2>3
      <3>3. u # FrontId
        BY <1>1, <2>2, <3>1, <3>2
      <3> QED
        BY <3>1, <3>2, <3>3 DEF InDeque
    <2>4. ASSUME NEW u, NEW k \in 1 .. Len(transaction_states),
                 transaction_states[k].transaction_id = u, u # FrontId
          PROVE  InDeque(u)'
      <3>1. k # 1
        BY <2>4 DEF FrontId
      <3>2. k - 1 \in 1 .. Len(transaction_states')
        BY <2>1, <3>1
      <3>3. transaction_states'[k - 1].transaction_id = u
        BY <2>1, <2>4, <3>2
      <3> QED
        BY <3>2, <3>3 DEF InDeque
    <2> QED
      BY <2>3, <2>4 DEF InDeque
  <1> QED
    BY <1>2, <1>3, <1>4 DEF Initialized, HasFuture, HasNow

\* An Update message changes the state of its transaction, if there is one.
LEMMA UpdatedState ==
    ASSUME Deque(transaction_states), NEW m \in PlannerMessage, m.type = "Update",
           transaction_states' = HandleUpdate(transaction_states, m),
           NEW k \in 1 .. Len(transaction_states)
    PROVE  transaction_states'[k] =
             IF transaction_states[k].transaction_id = m.id
               THEN ApplyUpdate(transaction_states[k], m) ELSE transaction_states[k]
  <1> DEFINE states == transaction_states
  <1>1. /\ states \in Seq(TransactionState)
        /\ Len(states) \in Nat
        /\ \A j \in 1 .. Len(states) :
             /\ states[j] \in TransactionState
             /\ states[j].transaction_id = FrontId + j - 1
    BY DEF Deque, FrontId
  <1>2. m.id \in Nat
    BY MessageFields, BoundAssumption DEF Transactions
  <1>3. 1 \in 1 .. Len(states) /\ Len(states) \in 1 .. Len(states) /\ states # <<>>
    BY <1>1
  <1>4. FrontId \in Nat
    <2>1. states[1].transaction_id \in Transactions
      BY <1>1, <1>3 DEF TransactionState
    <2> QED
      BY <2>1, BoundAssumption DEF FrontId, Transactions
  <1>5. CASE Holds(states, m.id)
    <2> DEFINE idx == m.id - states[1].transaction_id + 1
    <2>1. states' = [states EXCEPT ![idx] = ApplyUpdate(states[idx], m)]
      BY <1>5 DEF HandleUpdate
    <2>2. states[k].transaction_id = m.id <=> k = idx
      <3>1. states[k].transaction_id = FrontId + k - 1 /\ k \in Nat
        BY <1>1
      <3>2. idx = m.id - FrontId + 1
        BY DEF FrontId
      <3> QED
        BY <1>2, <1>4, <3>1, <3>2
    <2> HIDE DEF idx
    <2>3. k \in DOMAIN states
      BY <1>1
    <2> QED
      BY <2>1, <2>2, <2>3
  <1>6. CASE ~Holds(states, m.id)
    <2>1. states' = states
      BY <1>6 DEF HandleUpdate
    <2>2. /\ states[k].transaction_id = FrontId + k - 1
          /\ states[Len(states)].transaction_id = FrontId + Len(states) - 1
      BY <1>1, <1>3
    <2>3. ~(FrontId <= m.id /\ m.id <= FrontId + Len(states) - 1)
      BY <1>3, <1>6, <2>2 DEF Holds, FrontId
    <2>4. states[k].transaction_id # m.id
      BY <1>1, <1>2, <1>4, <2>2, <2>3
    <2> QED
      BY <2>1, <2>4
  <1> QED
    BY <1>5, <1>6

\* What the deque says of a transaction after an Update message.
LEMMA DequeUpdate ==
    ASSUME Deque(transaction_states), Deque(transaction_states'),
           NEW m \in PlannerMessage, m.type = "Update",
           transaction_states' = HandleUpdate(transaction_states, m)
    PROVE  /\ \A u : InDeque(u)' <=> InDeque(u)
           /\ \A u : Initialized(u)' <=> Initialized(u) \/ (u = m.id /\ InDeque(u))
           /\ \A u : u # m.id \/ ~InDeque(u) =>
                \A c : /\ HasFuture(u, c)' <=> HasFuture(u, c)
                       /\ HasNow(u, c)' <=> HasNow(u, c)
           /\ InDeque(m.id) =>
                \A c : /\ HasFuture(m.id, c)' <=>
                            (HasFuture(m.id, c) \/ c \in m.future) /\ c \notin m.now
                       /\ HasNow(m.id, c)' <=>
                            (HasNow(m.id, c) \/ c \in m.now) /\ c \notin m.finish
  <1> DEFINE states == transaction_states
  <1>1. /\ states \in Seq(TransactionState)
        /\ Len(states') = Len(states)
        /\ Len(states) \in Nat
        /\ \A k \in 1 .. Len(states) :
             /\ states[k] \in TransactionState
             /\ states[k].transaction_id = FrontId + k - 1
             /\ states'[k].transaction_id = states[k].transaction_id
    BY HandleUpdateDeque DEF Deque, FrontId
  <1>2. m.id \in Nat
    BY MessageFields, BoundAssumption DEF Transactions
  <1>3. \A u : InDeque(u)' <=> InDeque(u)
    BY <1>1 DEF InDeque
  <1>4. ASSUME NEW k \in 1 .. Len(states)
        PROVE  states'[k] = IF states[k].transaction_id = m.id
                              THEN ApplyUpdate(states[k], m) ELSE states[k]
    BY UpdatedState
  <1>5. ASSUME NEW u, ~InDeque(u)
        PROVE  /\ Initialized(u)' <=> Initialized(u)
               /\ \A c : /\ HasFuture(u, c)' <=> HasFuture(u, c)
                         /\ HasNow(u, c)' <=> HasNow(u, c)
    BY <1>3, <1>5, AbsentViews, AbsentAfter
  <1>6. ASSUME NEW k \in 1 .. Len(states), NEW u, states[k].transaction_id = u
        PROVE  IF u = m.id
                 THEN /\ Initialized(u)'
                      /\ \A c : /\ HasFuture(u, c)' <=>
                                     (HasFuture(u, c) \/ c \in m.future) /\ c \notin m.now
                                /\ HasNow(u, c)' <=>
                                     (HasNow(u, c) \/ c \in m.now) /\ c \notin m.finish
                 ELSE /\ Initialized(u)' <=> Initialized(u)
                      /\ \A c : /\ HasFuture(u, c)' <=> HasFuture(u, c)
                                /\ HasNow(u, c)' <=> HasNow(u, c)
    <2>1. /\ Initialized(u) <=> states[k].initialized
          /\ \A c : /\ HasFuture(u, c) <=> c \in states[k].future
                    /\ HasNow(u, c) <=> c \in states[k].now
      BY <1>6, ViewsAt
    <2>2. k \in 1 .. Len(states') /\ states'[k].transaction_id = u
      BY <1>1, <1>6
    <2>3. /\ Initialized(u)' <=> states'[k].initialized
          /\ \A c : /\ HasFuture(u, c)' <=> c \in states'[k].future
                    /\ HasNow(u, c)' <=> c \in states'[k].now
      BY <2>2, ViewsAfter
    <2>4. CASE u = m.id
      <3>1. states'[k] = ApplyUpdate(states[k], m) /\ states[k] \in TransactionState
        BY <1>1, <1>4, <1>6, <2>4
      <3>2. \A s \in TransactionState :
              /\ ApplyUpdate(s, m).initialized
              /\ ApplyUpdate(s, m).future = (s.future \cup m.future) \ m.now
              /\ ApplyUpdate(s, m).now = (s.now \cup m.now) \ m.finish
        BY DEF ApplyUpdate, TransactionState
      <3> QED
        BY <2>1, <2>3, <2>4, <3>1, <3>2
    <2>5. CASE u # m.id
      <3>1. states'[k] = states[k]
        BY <1>4, <1>6, <2>5
      <3> QED
        BY <2>1, <2>3, <2>5, <3>1
    <2> QED
      BY <2>4, <2>5
  <1>7. \A u : InDeque(u) => \E k \in 1 .. Len(states) : states[k].transaction_id = u
    BY DEF InDeque
  <1> QED
    BY <1>3, <1>5, <1>6, <1>7

-----------------------------------------------------------------------------
(* The life of a transaction.                                              *)

\* The planner proposed something of t, or the Executor accepted it.
Proposed(t) ==
    \/ Waiting(Finalize(t))
    \/ \E c \in Clusters : Waiting(StartUpdate(t, c)) \/ task[t][c] # "idle"

\* The Executor announces t once, with the Start message its Register message
\* becomes; reports on t follow its Execute message, HandleExecute's the first;
\* nothing is proposed of t before the PlannerManager has that one; and t leaves
\* the deque by the one Finish message its end sends.
Lifetime(t) ==
    /\ Waiting(Register(t)) => ~Starting(t) /\ ~InDeque(t)
    /\ Starting(t) => ~InDeque(t) /\ status[t] # "done"
    /\ Starting(t) \/ InDeque(t) => t < next_transaction_id
    /\ Ending(t) <=> InDeque(t) /\ status[t] = "done"
    /\ Ending(t) => Initialized(t)
    /\ InitialSent(t) => ~Initialized(t) /\ status[t] # "done"
    /\ Initialized(t) \/ Reports(t) => t \in transactions \/ status[t] = "done"
    /\ Proposed(t) => Initialized(t) \/ status[t] = "done"

Lifetimes == \A t \in Transactions : Lifetime(t)

\* The order of two messages in the pipe: one Start message a transaction, Finish
\* messages by ID, and no first report behind another.
Ordered ==
    {p \in PlannerMessage \X PlannerMessage :
        /\ p[1].type = "Start" /\ p[2].type = "Start" => p[1].id # p[2].id
        /\ p[1].type = "Finish" /\ p[2].type = "Finish" => p[1].id < p[2].id
        /\ p[1].type = "Update" /\ p[2].type = "Update" /\ p[1].id = p[2].id =>
             ~Initial(p[2])}

PipeOrdered == InSequence(Pipe, Ordered)

\* What is over is not younger than what the deque holds.
DoneInDeque ==
    transaction_states # <<>> =>
        \A t \in Transactions : status[t] = "done" =>
            t <= FrontId + Len(transaction_states) - 1

\* The planner thread takes what it proposes from a state that is initialized.
PlannerAssigns ==
    planner.pc = "assigning" =>
        /\ planner.i \in 1 .. Len(transaction_states)
        /\ transaction_states[planner.i].initialized
        /\ planner.todo \subseteq transaction_states[planner.i].future

\* Every task in the pool's queue is waiting, and is there once.
PoolOnce ==
    /\ \A i \in 1 .. Len(pool) : task[pool[i][1]][pool[i][2]] = "queued"
    /\ \A i, j \in 1 .. Len(pool) : pool[i] = pool[j] => i = j

\* Until a transaction ends the Executor remembers which of its tasks it made.
Accepted ==
    \A t \in Transactions : status[t] # "done" =>
        \A c \in Clusters : c \in transaction_updatings[t] <=> task[t][c] # "idle"

LifeInv ==
    /\ Lifetimes
    /\ PipeOrdered
    /\ DoneInDeque
    /\ PlannerAssigns
    /\ PoolOnce
    /\ Accepted

\* What a message that is pushed keeps the order of.
LEMMA OrderedPush ==
    ASSUME TypeOK, PipeOrdered, NEW m \in PlannerMessage, Pipe' = Append(Pipe, m),
           m.type = "Start" => ~Starting(m.id),
           m.type = "Finish" => \A t \in Transactions : Ending(t) => t < m.id,
           m.type = "Update" => ~Initial(m) \/ ~Reports(m.id)
    PROVE  PipeOrdered'
  <1>1. Pipe \in Seq(PlannerMessage) /\ \A i \in 1 .. Len(Pipe) : Pipe[i] \in PlannerMessage
    BY PipeType
  <1>2. ASSUME NEW i \in 1 .. Len(Pipe)
        PROVE  <<Pipe[i], m>> \in Ordered
    <2>1. Pipe[i].type = "Start" /\ m.type = "Start" => Pipe[i].id # m.id
      BY <1>1, MessageFields DEF Starting, Has
    <2>2. Pipe[i].type = "Finish" /\ m.type = "Finish" => Pipe[i].id < m.id
      <3>1. \A x \in PlannerMessage : x.type = "Finish" =>
              x.id \in Transactions /\ x = Finish(x.id)
        BY DEF PlannerMessage, StartMessage, UpdateMessage, FinishMessage, Finish
      <3> QED
        BY <1>1, <3>1 DEF Ending, Has
    <2>3. Pipe[i].type = "Update" /\ m.type = "Update" /\ Pipe[i].id = m.id => ~Initial(m)
      <3>1. \A x \in PlannerMessage : x.type = "Update" => x \in UpdatesOf(x.id)
        BY DEF PlannerMessage, StartMessage, UpdateMessage, FinishMessage, UpdatesOf
      <3> QED
        BY <1>1, <3>1 DEF Reports, Has
    <2> QED
      BY <1>1, <2>1, <2>2, <2>3 DEF Ordered
  <1>3. \A i \in 1 .. Len(Pipe) : <<Pipe[i], m>> \in Ordered
    BY <1>2
  <1>4. InSequence(Append(Pipe, m), Ordered)
    BY <1>1, <1>3, InSequencePush DEF PipeOrdered
  <1> QED
    BY <1>4 DEF PipeOrdered

\* What the head of the pipe says of what is behind it.
LEMMA OrderedPop ==
    ASSUME TypeOK, PipeOrdered, Pipe # <<>>, Pipe' = Tail(Pipe),
           NEW m \in PlannerMessage, m = Head(Pipe)
    PROVE  /\ PipeOrdered'
           /\ m.type = "Start" => ~Starting(m.id)'
           /\ m.type = "Finish" => \A t \in Transactions : Ending(t)' => m.id < t
           /\ m.type = "Update" => ~InitialSent(m.id)'
  <1>1. Pipe \in Seq(PlannerMessage)
    BY PipeType
  <1>2. /\ InSequence(Tail(Pipe), Ordered)
        /\ \A i \in 1 .. Len(Tail(Pipe)) : <<m, Tail(Pipe)[i]>> \in Ordered
    BY <1>1, InSequencePop DEF PipeOrdered
  <1>3. PipeOrdered'
    BY <1>2 DEF PipeOrdered
  <1>4. \A i \in 1 .. Len(Pipe') :
          /\ m.type = "Start" /\ Pipe'[i].type = "Start" => m.id # Pipe'[i].id
          /\ m.type = "Finish" /\ Pipe'[i].type = "Finish" => m.id < Pipe'[i].id
          /\ m.type = "Update" /\ Pipe'[i].type = "Update" /\ m.id = Pipe'[i].id =>
               ~Initial(Pipe'[i])
    BY <1>2 DEF Ordered
  <1>5. m.type = "Start" => ~Starting(m.id)'
    BY <1>4 DEF Starting, Has, Start
  <1>6. m.type = "Finish" => \A t \in Transactions : Ending(t)' => m.id < t
    BY <1>4 DEF Ending, Has, Finish
  <1>7. m.type = "Update" => ~InitialSent(m.id)'
    BY <1>4 DEF InitialSent, Has, UpdatesOf, UpdateMessage
  <1> QED
    BY <1>3, <1>5, <1>6, <1>7

\* A step that leaves the planner thread and the deque alone.
LEMMA SameDeque ==
    ASSUME LifeInv, UNCHANGED <<transaction_states, planner>>
    PROVE  PlannerAssigns' /\ ((\A t \in Transactions : status'[t] = "done" => status[t] = "done")
                               => DoneInDeque')
  BY DEF LifeInv, PlannerAssigns, DoneInDeque, FrontId

\* The users' threads.
LEMMA UserLife ==
    ASSUME OrderInv, LoopInv, LifeInv, UserStep, UNCHANGED plannerVars
    PROVE  LifeInv'
  <1> USE DEF plannerVars, taskVars, acceptedVars
  <1>1. TypeOK /\ \A t \in Transactions : t \in Nat
    BY BoundAssumption DEF OrderInv, Transactions
  <1>2. UNCHANGED <<planner_messages, manager, planner, transaction_states, task, pool,
                    transactions, transaction_updatings>>
    BY DEF UserStep, Begin, Submit
  <1>3. Pipe' = Pipe
    BY <1>2 DEF Pipe
  <1> DEFINE Opens(t) ==
               /\ status[t] # "done"
               /\ \E x \in {"open", "submitted"} : status' = [status EXCEPT ![t] = x]
               /\ \/ /\ executor_messages' = Append(executor_messages, Register(t))
                     /\ ~(t < next_transaction_id)
                  \/ executor_messages' = Append(executor_messages, Execute(t))
  <1>n. next_transaction_id \in Nat /\ next_transaction_id' \in Nat
        /\ next_transaction_id <= next_transaction_id'
    BY <1>1, BoundAssumption DEF UserStep, Begin, Submit, TypeOK
  <1>4. PICK t \in Transactions : Opens(t)
    <2>1. CASE Begin
      <3> DEFINE t == next_transaction_id
      <3>1. t \in Transactions /\ t \in Nat
        BY <1>1, <1>n, <2>1, BoundAssumption DEF Begin, Transactions
      <3>2. status[t] = "none"
        BY <3>1 DEF OrderInv, HeldWhileSubmitted
      <3>3. /\ status' = [status EXCEPT ![t] = "open"]
            /\ executor_messages' = Append(executor_messages, Register(t))
        BY <2>1 DEF Begin, PushExecutor
      <3> HIDE DEF t
      <3>4. ~(t < t)
        BY <3>1
      <3>5. Opens(t)
        BY <3>2, <3>3, <3>4 DEF t
      <3> QED
        BY <3>1, <3>5
    <2>2. ASSUME NEW t \in Transactions, Submit(t)
          PROVE  Opens(t)
      BY <2>2 DEF Submit, PushExecutor
    <2> QED
      BY <2>1, <2>2 DEF UserStep
  <1>5. \A u \in Transactions : status'[u] = "done" <=> status[u] = "done"
    BY <1>1, <1>4 DEF TypeOK
  <1>6. \A x : Waiting(x)' => Waiting(x) \/ x = Register(t) \/ x = Execute(t)
    BY <1>1, <1>4, WaitingPush
  <1>7. ASSUME NEW u \in Transactions
        PROVE  Lifetime(u)'
    <2>1. Lifetime(u)
      BY DEF LifeInv, Lifetimes
    <2>2. /\ Reports(u)' <=> Reports(u)
          /\ InitialSent(u)' <=> InitialSent(u)
          /\ Starting(u)' <=> Starting(u)
          /\ Ending(u)' <=> Ending(u)
      BY <1>3, SamePipeViews
    <2>6. /\ InDeque(u)' <=> InDeque(u)
          /\ Initialized(u)' <=> Initialized(u)
      BY <1>2, SameDequeViews
    <2>3. Proposed(u)' => Proposed(u)
      BY <1>2, <1>6 DEF Proposed, Finalize, StartUpdate, Register, Execute
    <2>4. Waiting(Register(u))' =>
            Waiting(Register(u)) \/ ~(u < next_transaction_id)
      BY <1>1, <1>4, WaitingPush DEF Register, Execute
    <2>5. u < next_transaction_id => u < next_transaction_id'
      BY <1>1, <1>n
    <2> QED
      BY <1>2, <1>5, <2>1, <2>2, <2>3, <2>4, <2>5, <2>6 DEF Lifetime
  <1>8. PipeOrdered'
    BY <1>3 DEF LifeInv, PipeOrdered
  <1>9. DoneInDeque' /\ PlannerAssigns'
    BY <1>2, <1>5, SameDeque
  <1>10. PoolOnce'
    BY <1>2 DEF LifeInv, PoolOnce
  <1>11. Accepted'
    BY <1>2, <1>5 DEF LifeInv, Accepted
  <1> QED
    BY <1>7, <1>8, <1>9, <1>10, <1>11 DEF LifeInv, Lifetimes

\* The message the Executor takes.
LEMMA ExecutorHead ==
    ASSUME TypeOK, NEW type, Receive(type)
    PROVE  \E m \in ExecutorMessage :
             /\ executor_messages # <<>>
             /\ executor_messages' = Tail(executor_messages)
             /\ m = Head(executor_messages)
             /\ m = executor_messages[1]
             /\ 1 \in 1 .. Len(executor_messages)
             /\ m.type = type
             /\ Waiting(m)
             /\ \A x : Waiting(x)' => Waiting(x)
  <1>1. executor_messages \in Seq(ExecutorMessage) /\ executor_messages # <<>>
    BY DEF TypeOK, Receive
  <1>2. executor_messages' = Tail(executor_messages)
    BY DEF Receive
  <1>3. \A x : Waiting(x) <=> Waiting(x)' \/ x = Head(executor_messages)
    BY <1>1, <1>2, WaitingPop
  <1>4. Head(executor_messages) \in ExecutorMessage
        /\ Head(executor_messages) = executor_messages[1]
        /\ 1 \in 1 .. Len(executor_messages)
    BY <1>1
  <1> QED
    BY <1>1, <1>2, <1>3, <1>4 DEF Receive

\* Register messages that stay behind one the Executor takes are of younger
\* transactions.
LEMMA RegistersBehind ==
    ASSUME TypeOK, LoopInv, NEW m \in ExecutorMessage, m = Head(executor_messages),
           m.type \in {"Register", "Execute"},
           executor_messages # <<>>, executor_messages' = Tail(executor_messages),
           NEW t \in Transactions, Waiting(Register(t))'
    PROVE  m.id < t
  <1>1. executor_messages \in Seq(ExecutorMessage)
    BY DEF TypeOK
  <1>2. /\ Len(executor_messages) \in Nat \ {0}
        /\ m = executor_messages[1]
        /\ Len(Tail(executor_messages)) = Len(executor_messages) - 1
        /\ \A i \in 1 .. Len(Tail(executor_messages)) :
             Tail(executor_messages)[i] = executor_messages[i + 1]
    BY <1>1, PopTypes
  <1>3. PICK i \in 1 .. Len(executor_messages') : executor_messages'[i] = Register(t)
    BY DEF Waiting, Has
  <1>4. i + 1 \in 1 .. Len(executor_messages) /\ 1 \in 1 .. ((i + 1) - 1)
    BY <1>2, <1>3
  <1>5. executor_messages[i + 1] = Register(t)
    BY <1>2, <1>3
  <1> QED
    BY <1>2, <1>4, <1>5 DEF LoopInv, RegistersAscend, Register

\* HandleRegister: the announcement of a new transaction.
LEMMA RegisterLife ==
    ASSUME OrderInv, LoopInv, LifeInv, HandleRegister, UNCHANGED plannerVars
    PROVE  LifeInv'
  <1>1. TypeOK /\ \A t \in Transactions : t \in Nat
    BY BoundAssumption DEF OrderInv, Transactions
  <1>2. /\ UNCHANGED <<manager, planner, transaction_states, task, pool, transactions,
                       transaction_updatings, status, next_transaction_id>>
        /\ Receive("Register")
    BY DEF HandleRegister, plannerVars, userVars, taskVars, acceptedVars
  <1>3. PICK m \in ExecutorMessage :
          /\ executor_messages # <<>>
          /\ executor_messages' = Tail(executor_messages)
          /\ m = Head(executor_messages)
          /\ m = executor_messages[1]
          /\ 1 \in 1 .. Len(executor_messages)
          /\ m.type = "Register"
          /\ Waiting(m)
          /\ \A x : Waiting(x)' => Waiting(x)
    BY <1>1, <1>2, ExecutorHead
  <1>4. PICK t \in Transactions : t = m.id /\ m = Register(t)
    BY <1>3, MessageFields
  <1>5. /\ Start(t) \in PlannerMessage
        /\ PushPlanner(Start(t))
        /\ Start(t).type = "Start" /\ Start(t).id = t
    BY <1>3, <1>4, MessageTypes DEF HandleRegister, Start
  <1>6. Pipe' = Append(Pipe, Start(t))
    BY <1>1, <1>2, <1>5, PipePush
  <1>7. /\ ~Starting(t) /\ ~InDeque(t)
        /\ status[t] # "done"
        /\ t < next_transaction_id
    <2>1. Lifetime(t)
      BY DEF LifeInv, Lifetimes
    <2>2. status[t] = "done" => t < t
      BY <1>3, <1>4 DEF LoopInv, RegistersFresh
    <2>3. t < next_transaction_id
      BY <1>3, <1>4 DEF LoopInv, RegistersAscend
    <2> QED
      BY <1>1, <1>3, <1>4, <2>1, <2>2, <2>3 DEF Lifetime
  <1>8. ~Waiting(Register(t))'
    <2>1. Waiting(Register(t))' => t < t
      BY <1>1, <1>3, <1>4, RegistersBehind
    <2> QED
      BY <1>1, <2>1
  <1>9. ASSUME NEW u \in Transactions
        PROVE  Lifetime(u)'
    <2>1. Lifetime(u)
      BY DEF LifeInv, Lifetimes
    <2>2. /\ Reports(u)' <=> Reports(u)
          /\ InitialSent(u)' <=> InitialSent(u)
          /\ Starting(u)' <=> Starting(u) \/ u = t
          /\ Ending(u)' <=> Ending(u)
      BY <1>1, <1>6, PipePushViews DEF Start, Finish, UpdatesOf, UpdateMessage
    <2>3. /\ InDeque(u)' <=> InDeque(u)
          /\ Initialized(u)' <=> Initialized(u)
      BY <1>2, SameDequeViews
    <2>4. Proposed(u)' => Proposed(u)
      BY <1>2, <1>3 DEF Proposed
    <2>5. Waiting(Register(u))' => Waiting(Register(u)) /\ u # t
      BY <1>3, <1>8
    <2> QED
      BY <1>2, <1>7, <2>1, <2>2, <2>3, <2>4, <2>5 DEF Lifetime
  <1>10. PipeOrdered'
    BY <1>1, <1>5, <1>6, <1>7, OrderedPush DEF LifeInv
  <1>11. DoneInDeque' /\ PlannerAssigns'
    BY <1>2, SameDeque
  <1>12. PoolOnce'
    BY <1>2 DEF LifeInv, PoolOnce
  <1>13. Accepted'
    BY <1>2 DEF LifeInv, Accepted
  <1> QED
    BY <1>9, <1>10, <1>11, <1>12, <1>13 DEF LifeInv, Lifetimes

\* HandleExecute: the first report of a transaction.
LEMMA ExecuteLife ==
    ASSUME OrderInv, LifeInv, HandleExecute, UNCHANGED plannerVars
    PROVE  LifeInv'
  <1>1. TypeOK /\ \A t \in Transactions : t \in Nat
    BY BoundAssumption DEF OrderInv, Transactions
  <1>2. /\ UNCHANGED <<manager, planner, transaction_states, task, pool,
                       transaction_updatings, status, next_transaction_id>>
        /\ Receive("Execute")
    BY DEF HandleExecute, plannerVars, userVars, taskVars
  <1>3. PICK m \in ExecutorMessage :
          /\ executor_messages # <<>>
          /\ executor_messages' = Tail(executor_messages)
          /\ m = Head(executor_messages)
          /\ m = executor_messages[1]
          /\ 1 \in 1 .. Len(executor_messages)
          /\ m.type = "Execute"
          /\ Waiting(m)
          /\ \A x : Waiting(x)' => Waiting(x)
    BY <1>1, <1>2, ExecutorHead
  <1>4. PICK t \in Transactions : t = m.id /\ m = Execute(t)
    BY <1>3, MessageFields
  <1>5. /\ transactions' = transactions \cup {t}
        /\ PushPlanner(Update(t, {}, targets[t], {}))
        /\ targets[t] \in SUBSET Clusters
    BY <1>1, <1>3, <1>4 DEF HandleExecute, TypeOK
  <1>6. PICK r \in PlannerMessage :
          /\ r = Update(t, {}, targets[t], {})
          /\ r.type = "Update" /\ r.id = t
          /\ Pipe' = Append(Pipe, r)
    <2>1. Update(t, {}, targets[t], {}) \in PlannerMessage
      BY <1>5, MessageTypes
    <2>2. Pipe' = Append(Pipe, Update(t, {}, targets[t], {}))
      BY <1>1, <1>2, <1>5, <2>1, PipePush
    <2>3. /\ Update(t, {}, targets[t], {}).type = "Update"
          /\ Update(t, {}, targets[t], {}).id = t
      BY DEF Update
    <2> QED
      BY <2>1, <2>2, <2>3
  <1>7. /\ status[t] = "submitted" /\ t \notin transactions
        /\ ~Initialized(t) /\ ~Reports(t)
    <2>1. Lifetime(t)
      BY DEF LifeInv, Lifetimes
    <2>2. status[t] = "submitted" /\ t \notin transactions
      BY <1>3, <1>4 DEF OrderInv, HeldWhileSubmitted
    <2> QED
      BY <2>1, <2>2 DEF Lifetime
  <1>8. ASSUME NEW u \in Transactions
        PROVE  Lifetime(u)'
    <2>1. Lifetime(u)
      BY DEF LifeInv, Lifetimes
    <2>2. /\ Reports(u)' => Reports(u) \/ u = t
          /\ InitialSent(u)' => InitialSent(u) \/ u = t
          /\ Starting(u)' <=> Starting(u)
          /\ Ending(u)' <=> Ending(u)
      BY <1>1, <1>6, PipePushViews DEF Start, Finish, UpdatesOf
    <2>3. /\ InDeque(u)' <=> InDeque(u)
          /\ Initialized(u)' <=> Initialized(u)
      BY <1>2, SameDequeViews
    <2>4. Proposed(u)' => Proposed(u)
      BY <1>2, <1>3 DEF Proposed
    <2>5. Waiting(Register(u))' => Waiting(Register(u))
      BY <1>3
    <2> QED
      BY <1>2, <1>5, <1>7, <2>1, <2>2, <2>3, <2>4, <2>5 DEF Lifetime
  <1>9. PipeOrdered'
    BY <1>1, <1>6, <1>7, OrderedPush DEF LifeInv
  <1>10. DoneInDeque' /\ PlannerAssigns'
    BY <1>2, SameDeque
  <1>11. PoolOnce'
    BY <1>2 DEF LifeInv, PoolOnce
  <1>12. Accepted'
    BY <1>2 DEF LifeInv, Accepted
  <1> QED
    BY <1>8, <1>9, <1>10, <1>11, <1>12 DEF LifeInv, Lifetimes

\* The proposals of the planner, by their fields.
LEMMA ProposalFields ==
    \A m \in ExecutorMessage :
        /\ m.type = "StartUpdate" =>
             m.id \in Transactions /\ m.cluster \in Clusters /\ m = StartUpdate(m.id, m.cluster)
        /\ m.type = "Finalize" => m.id \in Transactions /\ m = Finalize(m.id)
  BY DEF ExecutorMessage, RegisterMessage, ExecuteMessage, StartUpdateMessage,
         FinalizeMessage, StartUpdate, Finalize

\* The messages of the two threads are all different.
LEMMA ProposalsDiffer ==
    /\ \A t, u : /\ Finalize(t) = Finalize(u) => t = u
                 /\ Finalize(t) # Register(u)
    /\ \A t, c, u : /\ StartUpdate(t, c) # Finalize(u)
                    /\ StartUpdate(t, c) # Register(u)
    /\ \A t, c, u, d : StartUpdate(t, c) = StartUpdate(u, d) => t = u /\ c = d
  <1>1. \A t : /\ Finalize(t).id = t /\ Finalize(t).type = "Finalize"
               /\ Register(t).type = "Register"
    BY DEF Finalize, Register
  <1>2. \A t, c : /\ StartUpdate(t, c).id = t
                  /\ StartUpdate(t, c).cluster = c
                  /\ StartUpdate(t, c).type = "StartUpdate"
    BY DEF StartUpdate
  <1> QED
    BY <1>1, <1>2

\* What HandleStartUpdate does: it drops the proposal, or makes a task of it.
LEMMA StartUpdateStep ==
    ASSUME TypeOK, HandleStartUpdate
    PROVE  /\ UNCHANGED <<planner_messages, status, next_transaction_id, targets, futures,
                          transactions>>
           /\ \A x : Waiting(x)' => Waiting(x)
           /\ \/ UNCHANGED <<transaction_updatings, task, pool>>
              \/ \E t \in transactions : \E c \in Clusters \ transaction_updatings[t] :
                   /\ Waiting(StartUpdate(t, c))
                   /\ transaction_updatings' =
                        [transaction_updatings EXCEPT ![t] = transaction_updatings[t] \cup {c}]
                   /\ task' = [task EXCEPT ![t] = [task[t] EXCEPT ![c] = "queued"]]
                   /\ pool' = Append(pool, <<t, c>>)
  <1>1. Receive("StartUpdate")
    BY DEF HandleStartUpdate
  <1>2. PICK m \in ExecutorMessage :
          /\ m = Head(executor_messages)
          /\ m.type = "StartUpdate"
          /\ Waiting(m)
          /\ \A x : Waiting(x)' => Waiting(x)
    BY <1>1, ExecutorHead
  <1>3. PICK t \in Transactions : t = m.id
    BY <1>2, ProposalFields
  <1>4. PICK c \in Clusters : c = m.cluster
    BY <1>2, ProposalFields
  <1>5. m = StartUpdate(t, c)
    BY <1>2, <1>3, <1>4, ProposalFields
  <1>6. \/ UNCHANGED <<transaction_updatings, task, pool>>
        \/ /\ t \in transactions /\ c \notin transaction_updatings[t]
           /\ transaction_updatings' =
                [transaction_updatings EXCEPT ![t] = transaction_updatings[t] \cup {c}]
           /\ task' = [task EXCEPT ![t] = [task[t] EXCEPT ![c] = "queued"]]
           /\ pool' = Append(pool, <<t, c>>)
    BY <1>2, <1>3, <1>4 DEF HandleStartUpdate, Acceptable
  <1> QED
    BY <1>2, <1>5, <1>6 DEF HandleStartUpdate, userVars

\* What HandleFinalize does: it drops the proposal, or ends the transaction.
LEMMA FinalizeStep ==
    ASSUME TypeOK, HandleFinalize
    PROVE  /\ UNCHANGED <<next_transaction_id, targets, futures, task, pool>>
           /\ \A x : Waiting(x)' => Waiting(x)
           /\ \/ UNCHANGED <<planner_messages, status, transactions, transaction_updatings>>
              \/ \E t \in transactions :
                   /\ Waiting(Finalize(t))
                   /\ executor_messages # <<>>
                   /\ executor_messages' = Tail(executor_messages)
                   /\ Finalize(t) = Head(executor_messages)
                   /\ status' = [status EXCEPT ![t] = "done"]
                   /\ transactions' = transactions \ {t}
                   /\ transaction_updatings' = [transaction_updatings EXCEPT ![t] = {}]
                   /\ PushPlanner(Finish(t))
  <1>1. Receive("Finalize")
    BY DEF HandleFinalize
  <1>2. PICK m \in ExecutorMessage :
          /\ executor_messages # <<>>
          /\ executor_messages' = Tail(executor_messages)
          /\ m = Head(executor_messages)
          /\ m.type = "Finalize"
          /\ Waiting(m)
          /\ \A x : Waiting(x)' => Waiting(x)
    BY <1>1, ExecutorHead
  <1>3. PICK t \in Transactions : t = m.id /\ m = Finalize(t)
    BY <1>2, ProposalFields
  <1>4. \/ UNCHANGED <<planner_messages, status, transactions, transaction_updatings>>
        \/ /\ t \in transactions
           /\ status' = [status EXCEPT ![t] = "done"]
           /\ transactions' = transactions \ {t}
           /\ transaction_updatings' = [transaction_updatings EXCEPT ![t] = {}]
           /\ PushPlanner(Finish(t))
    BY <1>2, <1>3 DEF HandleFinalize, acceptedVars
  <1> QED
    BY <1>2, <1>3, <1>4 DEF HandleFinalize, taskVars

\* A step that leaves the pipe and the deque alone, takes no report back and
\* proposes nothing new.
LEMMA QuietLifetimes ==
    ASSUME LifeInv, Pipe' = Pipe, UNCHANGED <<transaction_states, status, transactions>>,
           next_transaction_id' = next_transaction_id,
           \A t \in Transactions :
             /\ Waiting(Register(t))' => Waiting(Register(t))
             /\ Proposed(t)' => Proposed(t) \/ Initialized(t)
    PROVE  Lifetimes' /\ PipeOrdered' /\ DoneInDeque'
  <1>1. ASSUME NEW u \in Transactions
        PROVE  Lifetime(u)'
    <2>1. Lifetime(u)
      BY DEF LifeInv, Lifetimes
    <2>2. /\ Reports(u)' <=> Reports(u)
          /\ InitialSent(u)' <=> InitialSent(u)
          /\ Starting(u)' <=> Starting(u)
          /\ Ending(u)' <=> Ending(u)
      BY SamePipeViews
    <2>3. /\ InDeque(u)' <=> InDeque(u)
          /\ Initialized(u)' <=> Initialized(u)
      BY SameDequeViews
    <2> QED
      BY <2>1, <2>2, <2>3 DEF Lifetime
  <1>2. PipeOrdered' /\ DoneInDeque'
    BY DEF LifeInv, PipeOrdered, DoneInDeque, FrontId
  <1> QED
    BY <1>1, <1>2 DEF Lifetimes

\* HandleStartUpdate.
LEMMA StartUpdateLife ==
    ASSUME OrderInv, LifeInv, HandleStartUpdate, UNCHANGED plannerVars
    PROVE  LifeInv'
  <1>1. TypeOK
    BY DEF OrderInv
  <1>2. /\ UNCHANGED <<planner_messages, manager, planner, transaction_states, status,
                       next_transaction_id, transactions>>
        /\ \A x : Waiting(x)' => Waiting(x)
        /\ Pipe' = Pipe
    BY <1>1, StartUpdateStep DEF plannerVars, Pipe
  <1>3. CASE UNCHANGED <<transaction_updatings, task, pool>>
    <2>1. \A t \in Transactions : Proposed(t)' => Proposed(t)
      BY <1>2, <1>3 DEF Proposed
    <2>2. Lifetimes' /\ PipeOrdered' /\ DoneInDeque'
      BY <1>2, <2>1, QuietLifetimes
    <2> QED
      BY <1>2, <1>3, <2>2, SameDeque DEF LifeInv, PoolOnce, Accepted
  <1>4. ASSUME NEW t \in transactions, NEW c \in Clusters \ transaction_updatings[t],
               Waiting(StartUpdate(t, c)),
               transaction_updatings' =
                 [transaction_updatings EXCEPT ![t] = transaction_updatings[t] \cup {c}],
               task' = [task EXCEPT ![t] = [task[t] EXCEPT ![c] = "queued"]],
               pool' = Append(pool, <<t, c>>)
        PROVE  LifeInv'
    <2>1. /\ t \in Transactions /\ c \in Clusters
          /\ task \in [Transactions -> [Clusters -> TaskPcs]]
          /\ transaction_updatings \in [Transactions -> SUBSET Clusters]
          /\ pool \in Seq(Transactions \X Clusters)
          /\ status[t] = "submitted"
      BY <1>1 DEF TypeOK, OrderInv, HeldWhileSubmitted
    <2>2. \A u \in Transactions, d \in Clusters :
            /\ task'[u][d] = IF u = t /\ d = c THEN "queued" ELSE task[u][d]
            /\ d \in transaction_updatings'[u] <=>
                 d \in transaction_updatings[u] \/ (u = t /\ d = c)
      BY <1>4, <2>1
    <2>3. \A u \in Transactions : Proposed(u)' => Proposed(u)
      BY <1>2, <1>4, <2>1, <2>2 DEF Proposed
    <2>4. Lifetimes' /\ PipeOrdered' /\ DoneInDeque'
      BY <1>2, <2>3, QuietLifetimes
    <2>5. Accepted'
      BY <1>2, <2>2 DEF LifeInv, Accepted
    <2>6. task[t][c] = "idle"
      BY <2>1 DEF LifeInv, Accepted
    <2>7. PoolOnce'
      <3>1. /\ Len(pool) \in Nat
            /\ Len(pool') = Len(pool) + 1
            /\ \A i \in 1 .. Len(pool) : pool'[i] = pool[i]
            /\ pool'[Len(pool) + 1] = <<t, c>>
            /\ \A i \in 1 .. Len(pool) : pool[i] \in Transactions \X Clusters
        BY <1>4, <2>1
      <3>2. \A i \in 1 .. Len(pool) : /\ task[pool[i][1]][pool[i][2]] = "queued"
                                      /\ pool[i] # <<t, c>>
        BY <2>6 DEF LifeInv, PoolOnce
      <3>3. \A i \in 1 .. Len(pool') : i \in 1 .. Len(pool) \/ i = Len(pool) + 1
        BY <3>1
      <3>4. ASSUME NEW i \in 1 .. Len(pool')
            PROVE  task'[pool'[i][1]][pool'[i][2]] = "queued"
        <4>1. CASE i \in 1 .. Len(pool)
          BY <2>2, <3>1, <3>2, <4>1
        <4>2. CASE i = Len(pool) + 1
          BY <2>1, <2>2, <3>1, <4>2
        <4> QED
          BY <3>3, <4>1, <4>2
      <3>5. ASSUME NEW i \in 1 .. Len(pool'), NEW j \in 1 .. Len(pool'), pool'[i] = pool'[j]
            PROVE  i = j
        BY <3>1, <3>2, <3>3, <3>5 DEF LifeInv, PoolOnce
      <3> QED
        BY <3>4, <3>5 DEF PoolOnce
    <2> QED
      BY <1>2, <2>4, <2>5, <2>7, SameDeque DEF LifeInv
  <1> QED
    BY <1>1, <1>3, <1>4, StartUpdateStep

\* HandleFinalize: the end of a transaction.
LEMMA FinalizeLife ==
    ASSUME OrderInv, LifeInv, HandleFinalize, UNCHANGED plannerVars
    PROVE  LifeInv'
  <1>1. TypeOK /\ \A t \in Transactions : t \in Nat
    BY BoundAssumption DEF OrderInv, Transactions
  <1>2. /\ UNCHANGED <<manager, planner, transaction_states, next_transaction_id, task, pool>>
        /\ \A x : Waiting(x)' => Waiting(x)
    BY <1>1, FinalizeStep DEF plannerVars
  <1>3. (\A t \in Transactions : Proposed(t)' => Proposed(t)) /\ PoolOnce'
    BY <1>2 DEF Proposed, LifeInv, PoolOnce
  <1>4. CASE UNCHANGED <<planner_messages, status, transactions, transaction_updatings>>
    <2>1. Pipe' = Pipe
      BY <1>2, <1>4 DEF Pipe
    <2>2. Lifetimes' /\ PipeOrdered' /\ DoneInDeque'
      BY <1>2, <1>3, <1>4, <2>1, QuietLifetimes
    <2> QED
      BY <1>2, <1>3, <1>4, <2>2, SameDeque DEF LifeInv, Accepted
  <1>5. ASSUME NEW t \in transactions,
               Waiting(Finalize(t)),
               status' = [status EXCEPT ![t] = "done"],
               transactions' = transactions \ {t},
               transaction_updatings' = [transaction_updatings EXCEPT ![t] = {}],
               PushPlanner(Finish(t))
        PROVE  LifeInv'
    <2>1. /\ t \in Transactions
          /\ status[t] = "submitted"
          /\ status \in [Transactions -> Statuses]
          /\ transaction_updatings \in [Transactions -> SUBSET Clusters]
          /\ Finish(t) \in PlannerMessage
          /\ Finish(t).type = "Finish" /\ Finish(t).id = t
      BY <1>1, <1>5, MessageTypes DEF TypeOK, OrderInv, HeldWhileSubmitted, Finish
    <2>2. Pipe' = Append(Pipe, Finish(t))
      BY <1>1, <1>2, <1>5, <2>1, PipePush
    <2>3. Initialized(t) /\ InDeque(t) /\ ~InitialSent(t) /\ ~Starting(t)
      <3>1. Lifetime(t) /\ Proposed(t)
        BY <1>5, <2>1 DEF LifeInv, Lifetimes, Proposed
      <3> QED
        BY <2>1, <3>1, AbsentViews DEF Lifetime
    <2>4. \A u \in Transactions : status'[u] = IF u = t THEN "done" ELSE status[u]
      BY <1>5, <2>1
    <2>5. ASSUME NEW u \in Transactions
          PROVE  Lifetime(u)'
      <3>1. Lifetime(u)
        BY DEF LifeInv, Lifetimes
      <3>2. /\ Reports(u)' <=> Reports(u)
            /\ InitialSent(u)' <=> InitialSent(u)
            /\ Starting(u)' <=> Starting(u)
            /\ Ending(u)' <=> Ending(u) \/ u = t
        BY <1>1, <2>2, PipePushViews DEF Start, Finish, UpdatesOf, UpdateMessage
      <3>3. /\ InDeque(u)' <=> InDeque(u)
            /\ Initialized(u)' <=> Initialized(u)
        BY <1>2, SameDequeViews
      <3> QED
        BY <1>2, <1>3, <1>5, <2>3, <2>4, <3>1, <3>2, <3>3 DEF Lifetime
    <2>6. PipeOrdered'
      <3>1. ASSUME NEW u \in Transactions, Ending(u)
            PROVE  u < t
        <4>1. status[u] = "done"
          BY <3>1 DEF LifeInv, Lifetimes, Lifetime
        <4>2. ~(t < u)
          BY <2>1, <4>1 DEF OrderInv, InOrder
        <4> QED
          BY <1>1, <2>1, <4>1, <4>2
      <3> QED
        BY <1>1, <2>1, <2>2, <3>1, OrderedPush DEF LifeInv
    <2>7. DoneInDeque'
      <3> SUFFICES ASSUME transaction_states # <<>>,
                          NEW u \in Transactions, status'[u] = "done"
                   PROVE  u <= FrontId + Len(transaction_states) - 1
        BY <1>2 DEF DoneInDeque, FrontId
      <3>1. CASE u # t
        BY <2>4, <3>1 DEF LifeInv, DoneInDeque
      <3>2. CASE u = t
        <4>1. PICK k \in 1 .. Len(transaction_states) : transaction_states[k].transaction_id = t
          BY <2>3 DEF InDeque
        <4>2. t = FrontId + k - 1
          BY <4>1 DEF OrderInv, ConsecutiveIds
        <4>3. /\ transaction_states \in Seq(TransactionState)
              /\ 1 \in 1 .. Len(transaction_states)
          BY <1>1, <4>1 DEF TypeOK
        <4>4. FrontId \in Nat /\ Len(transaction_states) \in Nat
          BY <1>1, <4>3, DequeTypes DEF FrontId
        <4> QED
          BY <3>2, <4>1, <4>2, <4>4
      <3> QED
        BY <3>1, <3>2
    <2>8. Accepted'
      BY <1>2, <1>5, <2>1, <2>4 DEF LifeInv, Accepted
    <2> QED
      BY <1>2, <1>3, <2>5, <2>6, <2>7, <2>8, SameDeque DEF LifeInv, Lifetimes
  <1> QED
    BY <1>1, <1>4, <1>5, FinalizeStep

\* What a step that changes one task, which is not idle before or after, does to
\* the tasks.
LEMMA OneTask ==
    ASSUME TypeOK, NEW t \in Transactions, NEW c \in Clusters, NEW pc, SetTask(t, c, pc)
    PROVE  \A u \in Transactions, d \in Clusters :
             task'[u][d] = IF u = t /\ d = c THEN pc ELSE task[u][d]
  BY DEF TypeOK, SetTask

\* A free worker takes the task that waits longest.
LEMMA TakeStep ==
    ASSUME TypeOK, PoolOnce, TakeTask
    PROVE  /\ PoolOnce'
           /\ \E t \in Transactions, c \in Clusters :
                task[t][c] = "queued" /\ SetTask(t, c, "taken")
  <1>1. pool \in Seq(Transactions \X Clusters) /\ pool # <<>> /\ pool' = Tail(pool)
    BY DEF TakeTask, TypeOK
  <1>2. /\ Len(pool) \in Nat \ {0}
        /\ 1 \in 1 .. Len(pool)
        /\ Head(pool) = pool[1]
        /\ pool[1] \in Transactions \X Clusters
        /\ Len(pool') = Len(pool) - 1
        /\ \A i \in 1 .. Len(pool') : pool'[i] = pool[i + 1]
        /\ \A i \in 1 .. Len(pool) : pool[i] \in Transactions \X Clusters
    BY <1>1, PopTypes
  <1>3. PICK t \in Transactions : t = pool[1][1]
    BY <1>2
  <1>4. PICK c \in Clusters : c = pool[1][2]
    BY <1>2
  <1>5. pool[1] = <<t, c>> /\ task[t][c] = "queued" /\ SetTask(t, c, "taken")
    BY <1>2, <1>3, <1>4 DEF TakeTask, PoolOnce
  <1>6. ASSUME NEW i \in 1 .. Len(pool')
        PROVE  /\ task'[pool'[i][1]][pool'[i][2]] = "queued"
               /\ \A j \in 1 .. Len(pool') : pool'[i] = pool'[j] => i = j
    <2>1. i + 1 \in 1 .. Len(pool) /\ i + 1 # 1 /\ pool'[i] = pool[i + 1]
      <3>1. pool'[i] = pool[i + 1]
        BY <1>2
      <3>2. i \in 1 .. (Len(pool) - 1) /\ Len(pool) \in Nat
        BY <1>2
      <3>3. i + 1 \in 1 .. Len(pool) /\ i + 1 # 1
        BY <3>2
      <3> QED
        BY <3>1, <3>3
    <2>2. pool[i + 1] # <<t, c>> /\ pool[i + 1] \in Transactions \X Clusters
      BY <1>2, <1>5, <2>1 DEF PoolOnce
    <2>3. ~(pool[i + 1][1] = t /\ pool[i + 1][2] = c)
      BY <2>2
    <2>4. task'[pool[i + 1][1]][pool[i + 1][2]] = task[pool[i + 1][1]][pool[i + 1][2]]
      BY <1>5, <2>2, <2>3, OneTask
    <2>5. ASSUME NEW j \in 1 .. Len(pool'), pool'[i] = pool'[j]
          PROVE  i = j
      <3>1. j + 1 \in 1 .. Len(pool) /\ pool[i + 1] = pool[j + 1]
        BY <1>2, <2>1, <2>5
      <3>2. i + 1 = j + 1
        BY <2>1, <3>1 DEF PoolOnce
      <3> QED
        BY <1>2, <3>2
    <2> QED
      BY <2>1, <2>4, <2>5 DEF PoolOnce
  <1> QED
    BY <1>5, <1>6 DEF PoolOnce

\* The steps of a task change it alone, and a report is on its transaction.
LEMMA TaskSteps ==
    ASSUME TypeOK, NEW t \in Transactions, NEW c \in Clusters, TaskStep(t, c),
           UNCHANGED plannerVars
    PROVE  /\ UNCHANGED <<executor_messages, manager, planner, transaction_states, pool,
                          status, next_transaction_id, transactions, transaction_updatings>>
           /\ \E pc \in TaskPcs \ {"idle", "queued"} :
                task[t][c] \notin {"idle", "queued"} /\ SetTask(t, c, pc)
           /\ \/ Pipe' = Pipe
              \/ \E m \in UpdatesOf(t) :
                   ~Initial(m) /\ m \in PlannerMessage /\ Pipe' = Append(Pipe, m)
  <1> USE DEF plannerVars, userVars, acceptedVars, TaskPcs
  <1>1. futures[t][c] \in SUBSET Clusters
    BY DEF TypeOK
  <1>2. ASSUME NEW now \in SUBSET Clusters, NEW future \in SUBSET Clusters,
               NEW finish \in SUBSET Clusters, now # {} \/ finish # {},
               PushPlanner(Update(t, now, future, finish)), manager' = manager
        PROVE  \E m \in UpdatesOf(t) :
                 ~Initial(m) /\ m \in PlannerMessage /\ Pipe' = Append(Pipe, m)
    <2>1. Update(t, now, future, finish) \in UpdatesOf(t)
          /\ ~Initial(Update(t, now, future, finish))
      BY <1>2 DEF Update, UpdatesOf, UpdateMessage, Initial
    <2>2. Update(t, now, future, finish) \in PlannerMessage
      BY MessageTypes
    <2> QED
      BY <1>2, <2>1, <2>2, PipePush
  <1>3. CASE ReportNow(t, c)
    <2>1. {c} \in SUBSET Clusters /\ {} \in SUBSET Clusters /\ {c} # {}
      OBVIOUS
    <2>2. PushPlanner(Update(t, {c}, {}, {})) /\ manager' = manager
      BY <1>3 DEF ReportNow
    <2>3. \E m \in UpdatesOf(t) :
            ~Initial(m) /\ m \in PlannerMessage /\ Pipe' = Append(Pipe, m)
      BY <1>2, <2>1, <2>2
    <2> QED
      BY <1>3, <2>3 DEF ReportNow
  <1>4. CASE GenerateSubTransaction(t, c)
    BY <1>4 DEF GenerateSubTransaction, Pipe
  <1>5. CASE RegisterExecutionResult(t, c)
    BY <1>5 DEF RegisterExecutionResult, Pipe
  <1>6. CASE ReportFinish(t, c)
    <2>1. {c} \in SUBSET Clusters /\ {} \in SUBSET Clusters /\ {c} # {}
      OBVIOUS
    <2>2. PushPlanner(Update(t, {}, futures[t][c], {c})) /\ manager' = manager
      BY <1>6 DEF ReportFinish
    <2>3. \E m \in UpdatesOf(t) :
            ~Initial(m) /\ m \in PlannerMessage /\ Pipe' = Append(Pipe, m)
      BY <1>1, <1>2, <2>1, <2>2
    <2> QED
      BY <1>6, <2>3 DEF ReportFinish
  <1> QED
    BY <1>3, <1>4, <1>5, <1>6 DEF TaskStep

\* The workers of the pool.
LEMMA WorkerLife ==
    ASSUME OrderInv, LifeInv, WorkerStep, UNCHANGED plannerVars
    PROVE  LifeInv'
  <1>1. TypeOK
    BY DEF OrderInv
  <1>2. CASE TakeTask
    <2>1. /\ UNCHANGED <<executor_messages, planner_messages, manager, planner,
                         transaction_states, status, next_transaction_id, transactions,
                         transaction_updatings>>
          /\ Pipe' = Pipe
      BY <1>2 DEF TakeTask, plannerVars, userVars, acceptedVars, Pipe
    <2>2. /\ PoolOnce'
          /\ \E t \in Transactions, c \in Clusters :
               task[t][c] = "queued" /\ SetTask(t, c, "taken")
      BY <1>1, <1>2, TakeStep DEF LifeInv
    <2>3. \A u \in Transactions, d \in Clusters : task'[u][d] = "idle" <=> task[u][d] = "idle"
      BY <1>1, <2>2, OneTask
    <2>4. \A x : Waiting(x)' => Waiting(x)
      BY <2>1, SameWaiting
    <2>5. \A u \in Transactions : Proposed(u)' => Proposed(u)
      BY <2>3, <2>4 DEF Proposed
    <2>6. Lifetimes' /\ PipeOrdered' /\ DoneInDeque'
      BY <2>1, <2>4, <2>5, QuietLifetimes
    <2> QED
      BY <2>1, <2>2, <2>3, <2>6, SameDeque DEF LifeInv, Accepted
  <1>3. ASSUME NEW t \in Transactions, NEW c \in Clusters, TaskStep(t, c)
        PROVE  LifeInv'
    <2>1. UNCHANGED <<executor_messages, manager, planner, transaction_states, pool,
                      status, next_transaction_id, transactions, transaction_updatings>>
      BY <1>1, <1>3, TaskSteps
    <2>2. PICK pc \in TaskPcs \ {"idle", "queued"} :
            task[t][c] \notin {"idle", "queued"} /\ SetTask(t, c, pc)
      BY <1>1, <1>3, TaskSteps
    <2>3. \A u \in Transactions, d \in Clusters :
            /\ task'[u][d] = "idle" <=> task[u][d] = "idle"
            /\ task'[u][d] = "queued" <=> task[u][d] = "queued"
      BY <1>1, <2>2, OneTask
    <2>4. \A x : Waiting(x)' => Waiting(x)
      BY <2>1, SameWaiting
    <2>5. \A u \in Transactions : Proposed(u)' => Proposed(u)
      BY <2>3, <2>4 DEF Proposed
    <2>6. Lifetimes' /\ PipeOrdered' /\ DoneInDeque'
      <3>1. CASE Pipe' = Pipe
        BY <2>1, <2>4, <2>5, <3>1, QuietLifetimes
      <3>2. ASSUME NEW m \in UpdatesOf(t),
                   ~Initial(m), m \in PlannerMessage, Pipe' = Append(Pipe, m)
            PROVE  Lifetimes' /\ PipeOrdered' /\ DoneInDeque'
        <4>1. m.type = "Update" /\ m.id = t
          BY DEF UpdatesOf, UpdateMessage
        <4>2. t \in transactions \/ status[t] = "done"
          <5>1. Lifetime(t) /\ Proposed(t)
            BY <2>2 DEF LifeInv, Lifetimes, Proposed
          <5> QED
            BY <5>1 DEF Lifetime
        <4>3. ASSUME NEW u \in Transactions
              PROVE  Lifetime(u)'
          <5>1. Lifetime(u)
            BY DEF LifeInv, Lifetimes
          <5>2. /\ Reports(u)' => Reports(u) \/ u = t
                /\ InitialSent(u)' <=> InitialSent(u)
                /\ Starting(u)' <=> Starting(u)
                /\ Ending(u)' <=> Ending(u)
            BY <1>1, <3>2, <4>1, PipePushViews DEF Start, Finish, UpdatesOf
          <5>3. /\ InDeque(u)' <=> InDeque(u)
                /\ Initialized(u)' <=> Initialized(u)
            BY <2>1, SameDequeViews
          <5>4. Waiting(Register(u))' => Waiting(Register(u))
            BY <2>4
          <5> QED
            BY <2>1, <2>5, <4>2, <5>1, <5>2, <5>3, <5>4 DEF Lifetime
        <4>4. PipeOrdered'
          BY <1>1, <3>2, <4>1, OrderedPush DEF LifeInv
        <4>5. DoneInDeque'
          BY <2>1, SameDeque
        <4> QED
          BY <4>3, <4>4, <4>5 DEF Lifetimes
      <3> QED
        BY <1>1, <1>3, <3>1, <3>2, TaskSteps
    <2>7. PoolOnce'
      <3>1. pool \in Seq(Transactions \X Clusters)
        BY <1>1 DEF TypeOK
      <3>2. \A i \in 1 .. Len(pool) : pool[i][1] \in Transactions /\ pool[i][2] \in Clusters
        BY <3>1
      <3> QED
        BY <2>1, <2>3, <3>2 DEF LifeInv, PoolOnce
    <2> QED
      BY <2>1, <2>3, <2>6, <2>7, SameDeque DEF LifeInv, Accepted
  <1> QED
    BY <1>2, <1>3 DEF WorkerStep

\* The planner thread: what it proposes, and from what.
Planned(m) ==
    \E t \in Transactions :
        /\ Initialized(t)
        /\ \/ \E c \in Clusters : HasFuture(t, c) /\ m = StartUpdate(t, c)
           \/ (\A c : ~HasFuture(t, c) /\ ~HasNow(t, c)) /\ m = Finalize(t)

\* All a planner step can do outside the planner: push one proposal (planner.cpp:245-262,
\* 295-327).
LEMMA PlannerPushes ==
    ASSUME OrderInv, PlannerAssigns, PlannerStep
    PROVE  /\ UNCHANGED <<planner_messages, transaction_states, manager>>
           /\ PlannerAssigns'
           /\ \/ executor_messages' = executor_messages
              \/ \E m : Planned(m) /\ executor_messages' = Append(executor_messages, m)
  <1> DEFINE states == transaction_states
             Kept == UNCHANGED <<planner_messages, transaction_states, manager>>
             Goal == /\ Kept
                     /\ PlannerAssigns'
                     /\ \/ executor_messages' = executor_messages
                        \/ \E m : Planned(m) /\ executor_messages' = Append(executor_messages, m)
  <1>1. Deque(states)
    BY DEF OrderInv, TypeOK, ConsecutiveIds, FrontId, Deque
  <1>2. planner.pc # "stopped" => planner.i \in Nat \ {0}
    BY PlannerTypes DEF OrderInv, TypeOK, PlannerPcs
  <1>3. ASSUME NEW k \in 1 .. Len(states), states[k].initialized
        PROVE  /\ \A c \in Clusters : c \in states[k].future =>
                    Planned(StartUpdate(states[k].transaction_id, c))
               /\ states[k].future = {} /\ states[k].now = {} =>
                    Planned(Finalize(states[k].transaction_id))
    BY <1>1, <1>3, ViewsAt DEF Planned
  <1>4. CASE SimpleFinalize \/ SimpleAssign \/ SimpleReturn
    <2>1. Kept /\ PlannerAssigns'
      BY <1>4 DEF SimpleFinalize, SimpleAssign, SimpleReturn, PlannerAssigns, Stopped
    <2>2. SimpleMayPlan => 1 \in 1 .. Len(states) /\ states[1].initialized
                           /\ states[1].now = {}
      BY <1>1 DEF SimpleMayPlan, Deque
    <2>3. CASE SimpleFinalize
      <3>1. Planned(Finalize(FrontId))
        BY <1>3, <2>2, <2>3 DEF SimpleFinalize, FrontId
      <3> QED
        BY <2>1, <2>3, <3>1 DEF SimpleFinalize, PushExecutor
    <2>4. CASE SimpleAssign
      <3>1. PICK c \in Clusters :
              /\ Least(states[1], c)
              /\ executor_messages' = Append(executor_messages, StartUpdate(FrontId, c))
        BY <2>4 DEF SimpleAssign, PushExecutor
      <3>2. Planned(StartUpdate(FrontId, c))
        BY <1>3, <2>2, <2>4, <3>1 DEF SimpleAssign, Least, FrontId
      <3> QED
        BY <2>1, <3>1, <3>2
    <2>5. CASE SimpleReturn
      BY <2>1, <2>5 DEF SimpleReturn
    <2> QED
      BY <1>4, <2>3, <2>4, <2>5
  <1>5. CASE RankReturn
    BY <1>5 DEF RankReturn, PlannerAssigns, Stopped
  <1>6. CASE RankVisit
    <2>1. /\ planner.i \in 1 .. Len(states)
          /\ states[planner.i].initialized
      BY <1>1, <1>2, <1>6 DEF RankVisit, CanVisit, Deque
    <2>2. Kept /\ executor_messages' = executor_messages
      BY <1>6 DEF RankVisit
    <2>3. \E target, used : planner' = Assigning(planner.i, target, used, states[planner.i].future)
      BY <1>6 DEF RankVisit
    <2> QED
      BY <2>1, <2>2, <2>3 DEF PlannerAssigns, Assigning
  <1>7. CASE RankAssign
    <2>1. PICK c \in Clusters :
            /\ IsNext(c)
            /\ executor_messages' =
                 Append(executor_messages, StartUpdate(states[planner.i].transaction_id, c))
            /\ \E used : planner' = Assigning(planner.i, Rank[c], used, planner.todo \ {c})
      BY <1>7 DEF RankAssign, PushExecutor
    <2>2. /\ planner.i \in 1 .. Len(states)
          /\ states[planner.i].initialized
          /\ planner.todo \subseteq states[planner.i].future
      BY <1>7 DEF RankAssign, PlannerAssigns
    <2>3. Kept
      BY <1>7 DEF RankAssign
    <2>4. Planned(StartUpdate(states[planner.i].transaction_id, c))
      BY <1>3, <2>1, <2>2 DEF IsNext
    <2>5. PlannerAssigns'
      BY <2>1, <2>2, <2>3 DEF PlannerAssigns, Assigning
    <2> QED
      BY <2>1, <2>3, <2>4, <2>5
  <1>8. CASE RankSkip
    <2>1. /\ planner.i \in 1 .. Len(states)
          /\ states[planner.i].initialized
          /\ planner.todo \subseteq states[planner.i].future
          /\ planner.pc = "assigning"
      BY <1>8 DEF RankSkip, PlannerAssigns
    <2>2. Kept /\ executor_messages' = executor_messages
      BY <1>8 DEF RankSkip
    <2>3. \E c : planner' = [planner EXCEPT !.todo = planner.todo \ {c}]
      BY <1>8 DEF RankSkip
    <2>4. planner \in [pc : {"assigning"}, i : Nat \ {0}, target : 0 .. NoRank,
                       used : SUBSET Clusters, todo : SUBSET Clusters]
      BY <2>1 DEF OrderInv, TypeOK
    <2>5. /\ planner'.i = planner.i
          /\ planner'.todo \subseteq planner.todo
      BY <2>3, <2>4
    <2> QED
      BY <2>1, <2>2, <2>5 DEF PlannerAssigns
  <1>9. CASE RankNext
    <2>1. /\ planner.i \in 1 .. Len(states)
          /\ states[planner.i].initialized
      BY <1>9 DEF RankNext, PlannerAssigns
    <2>2. Kept /\ PlannerAssigns'
      BY <1>9 DEF RankNext, PlannerAssigns, Visiting
    <2>3. \/ executor_messages' = executor_messages
          \/ /\ states[planner.i].future = {} /\ states[planner.i].now = {}
             /\ executor_messages' =
                  Append(executor_messages, Finalize(states[planner.i].transaction_id))
      BY <1>9 DEF RankNext, PushExecutor
    <2> QED
      BY <1>3, <2>1, <2>2, <2>3
  <1> QED
    BY <1>4, <1>5, <1>6, <1>7, <1>8, <1>9 DEF PlannerStep

\* A proposal is one message, of an initialized transaction.
LEMMA PlannerLife ==
    ASSUME OrderInv, LifeInv, PlannerStep, UNCHANGED executorVars
    PROVE  LifeInv'
  <1>1. TypeOK
    BY DEF OrderInv
  <1>2. /\ UNCHANGED <<planner_messages, transaction_states, manager, status, transactions,
                       next_transaction_id, transaction_updatings, task, pool>>
        /\ PlannerAssigns'
        /\ Pipe' = Pipe
    BY PlannerPushes DEF LifeInv, executorVars, userVars, taskVars, acceptedVars, Pipe
  <1>3. \A t \in Transactions :
          /\ Waiting(Register(t))' => Waiting(Register(t))
          /\ Proposed(t)' => Proposed(t) \/ Initialized(t)
    <2>1. CASE executor_messages' = executor_messages
      <3>1. \A x : Waiting(x)' => Waiting(x)
        BY <2>1, SameWaiting
      <3> QED
        BY <1>2, <3>1 DEF Proposed
    <2>2. ASSUME NEW m, Planned(m), executor_messages' = Append(executor_messages, m)
          PROVE  \A t \in Transactions :
                   /\ Waiting(Register(t))' => Waiting(Register(t))
                   /\ Proposed(t)' => Proposed(t) \/ Initialized(t)
      <3>1. \A x : Waiting(x)' <=> Waiting(x) \/ x = m
        BY <1>1, <2>2, WaitingPush
      <3>2. PICK u \in Transactions :
              Initialized(u) /\ (m = Finalize(u) \/ \E c \in Clusters : m = StartUpdate(u, c))
        BY <2>2 DEF Planned
      <3>3. \A t : m # Register(t)
        BY <3>2, ProposalsDiffer
      <3>4. \A t : m = Finalize(t) => t = u
        BY <3>2, ProposalsDiffer
      <3>5. \A t, c : m = StartUpdate(t, c) => t = u
        BY <3>2, ProposalsDiffer
      <3> QED
        BY <1>2, <3>1, <3>2, <3>3, <3>4, <3>5 DEF Proposed
    <2> QED
      BY <2>1, <2>2, PlannerPushes DEF LifeInv
  <1>4. Lifetimes' /\ PipeOrdered' /\ DoneInDeque'
    BY <1>2, <1>3, QuietLifetimes
  <1> QED
    BY <1>2, <1>4 DEF LifeInv, PoolOnce, Accepted

\* The PlannerManager hears of a transaction: it is the next one of the deque.
LEMMA StartStep ==
    ASSUME OrderInv, LifeInv, ManagerStart
    PROVE  /\ UNCHANGED <<executor_messages, planner>>
           /\ Pipe # <<>> /\ Pipe' = Tail(Pipe)
           /\ \E t \in Transactions :
                /\ Start(t) = Head(Pipe)
                /\ Starting(t)
                /\ transaction_states' = Append(transaction_states, NewTransactionState(t))
                /\ transaction_states # <<>> =>
                     t = FrontId + Len(transaction_states)
  <1>1. /\ TypeOK /\ Deque(transaction_states)
        /\ planner_messages \in Seq(PlannerMessage) /\ planner_messages # <<>>
    BY DEF OrderInv, TypeOK, ManagerStart, Deque, ConsecutiveIds, FrontId
  <1>2. /\ Pipe # <<>>
        /\ Pipe' = Tail(Pipe)
        /\ Pipe = planner_messages
        /\ Head(Pipe) \in PlannerMessage
        /\ Head(Pipe).type = "Start"
        /\ transaction_states' = HandleMessage(transaction_states, Head(Pipe))
    BY <1>1, PipePop DEF Pipe, ManagerStart, Idle
  <1>3. PICK t \in Transactions : Head(Pipe) = Start(t)
    BY <1>2, MessageFields
  <1>4. Starting(t) /\ planner_messages[1] = Start(t) /\ 1 \in 1 .. Len(planner_messages)
    <2>1. Head(Pipe) = Pipe[1] /\ 1 \in 1 .. Len(Pipe)
      BY <1>1, <1>2
    <2> QED
      BY <1>2, <1>3, <2>1 DEF Starting, Has
  <1>5. /\ ~InDeque(t) /\ status[t] # "done"
        /\ \A s \in 0 .. (t - 1) : status[s] = "done" \/ InDeque(s)
    <2>1. Lifetime(t)
      BY DEF LifeInv, Lifetimes
    <2>2. Start(t).type = "Start" /\ Start(t).id = t
      BY DEF Start
    <2>3. \A s \in 0 .. (t - 1) : status[s] = "done" \/ InDeque(s)
      BY <1>4, <2>2 DEF OrderInv, StartsInOrder
    <2> QED
      BY <1>4, <2>1, <2>3 DEF Lifetime
  <1>6. transaction_states' = HandleStart(transaction_states, t)
    BY <1>2, <1>3 DEF HandleMessage, Start
  <1>7. CASE transaction_states = <<>>
    BY <1>1, <1>2, <1>3, <1>4, <1>6, <1>7 DEF HandleStart, ManagerStart
  <1>8. CASE transaction_states # <<>>
    <2> DEFINE size == Len(transaction_states)
               last == transaction_states[size].transaction_id
    <2>1. /\ transaction_states \in Seq(TransactionState)
          /\ size \in Nat \ {0}
          /\ 1 \in 1 .. size /\ size \in 1 .. size
          /\ \A k \in 1 .. size : transaction_states[k].transaction_id = FrontId + k - 1
      BY <1>1, <1>8 DEF Deque, FrontId
    <2>2. FrontId \in Transactions /\ FrontId \in Nat /\ t \in Nat
      BY <1>1, <2>1, DequeTypes, BoundAssumption DEF FrontId, Transactions
    <2>3. last = FrontId + size - 1 /\ last \in Nat
      BY <2>1, <2>2
    <2>4. ~(t < FrontId)
      <3>1. t < FrontId => t \in 0 .. (FrontId - 1)
        BY <2>2
      <3> QED
        BY <1>5, <1>8, <3>1 DEF OrderInv, FrontOldest
    <2>5. ~(t <= last)
      <3> SUFFICES ASSUME t <= last PROVE FALSE
        OBVIOUS
      <3>1. (t - FrontId + 1) \in 1 .. size
        BY <2>1, <2>2, <2>3, <2>4
      <3>2. transaction_states[t - FrontId + 1].transaction_id = t
        BY <2>1, <2>2, <3>1
      <3> QED
        BY <1>5, <3>1, <3>2 DEF InDeque
    <2>6. ~(last + 1 < t)
      <3> SUFFICES ASSUME last + 1 < t PROVE FALSE
        OBVIOUS
      <3>1. last + 1 \in 0 .. (t - 1) /\ last + 1 \in Transactions
        BY <2>2, <2>3, BoundAssumption DEF Transactions
      <3>2. status[last + 1] # "done"
        <4>1. status[last + 1] = "done" => last + 1 <= last
          BY <1>8, <2>3, <3>1 DEF LifeInv, DoneInDeque
        <4> QED
          BY <2>3, <4>1
      <3>3. ~InDeque(last + 1)
        BY <2>1, <2>2, <2>3 DEF InDeque
      <3> QED
        BY <1>5, <3>1, <3>2, <3>3
    <2>7. t = last + 1
      BY <2>2, <2>3, <2>4, <2>5, <2>6
    <2>8. transaction_states' = Append(transaction_states, NewTransactionState(t))
      <3>1. transaction_states' =
              transaction_states \o [k \in 1 .. (t - last) |-> NewTransactionState(last + k)]
        BY <1>6, <1>8 DEF HandleStart
      <3>2. t - last = 1
        BY <2>3, <2>7
      <3>3. [k \in 1 .. (t - last) |-> NewTransactionState(last + k)] = <<NewTransactionState(t)>>
        BY <2>7, <3>2
      <3>4. NewTransactionState(t) \in TransactionState
        BY DEF NewTransactionState, TransactionState
      <3>5. \A n \in TransactionState :
              transaction_states \o <<n>> = Append(transaction_states, n)
        BY <2>1
      <3> QED
        BY <3>1, <3>3, <3>4, <3>5
    <2>9. t = FrontId + size
      BY <2>1, <2>2, <2>3, <2>7
    <2> QED
      BY <1>2, <1>3, <1>4, <2>8, <2>9 DEF ManagerStart
  <1> QED
    BY <1>7, <1>8

\* ManagerStart.
LEMMA ManagerStartLife ==
    ASSUME OrderInv, OrderInv', LifeInv, ManagerStart, UNCHANGED executorVars
    PROVE  LifeInv'
  <1>1. /\ TypeOK /\ \A t \in Transactions : t \in Nat
        /\ Deque(transaction_states) /\ Deque(transaction_states')
    BY Deques, BoundAssumption DEF OrderInv, Transactions
  <1>2. /\ UNCHANGED <<executor_messages, planner, status, transactions,
                       next_transaction_id, transaction_updatings, task, pool>>
        /\ Pipe # <<>> /\ Pipe' = Tail(Pipe)
    BY StartStep DEF executorVars, userVars, taskVars, acceptedVars
  <1>3. PICK t \in Transactions :
          /\ Start(t) = Head(Pipe)
          /\ Starting(t)
          /\ transaction_states' = Append(transaction_states, NewTransactionState(t))
          /\ transaction_states # <<>> => t = FrontId + Len(transaction_states)
    BY StartStep
  <1>4. Start(t) \in PlannerMessage /\ Start(t).type = "Start" /\ Start(t).id = t
    BY MessageTypes DEF Start
  <1>5. PipeOrdered' /\ ~Starting(t)'
    BY <1>1, <1>2, <1>3, <1>4, OrderedPop DEF LifeInv
  <1>6. ASSUME NEW u \in Transactions
        PROVE  Lifetime(u)'
    <2>1. Lifetime(u)
      BY DEF LifeInv, Lifetimes
    <2>2. /\ Reports(u)' => Reports(u)
          /\ InitialSent(u)' => InitialSent(u)
          /\ Starting(u)' => Starting(u)
          /\ Ending(u)' <=> Ending(u)
      <3>1. Start(t) # Finish(u)
        BY DEF Start, Finish
      <3> QED
        BY <1>1, <1>2, <1>3, <3>1, PipePopViews
    <2>3. /\ InDeque(u)' <=> InDeque(u) \/ u = t
          /\ Initialized(u)' <=> Initialized(u)
      BY <1>1, <1>3, DequePush
    <2>4. Proposed(u)' => Proposed(u)
      BY <1>2, SameWaiting DEF Proposed
    <2>5. Waiting(Register(u))' => Waiting(Register(u))
      BY <1>2, SameWaiting
    <2> QED
      BY <1>2, <1>3, <1>5, <2>1, <2>2, <2>3, <2>4, <2>5 DEF Lifetime
  <1>7. /\ transaction_states \in Seq(TransactionState)
        /\ Len(transaction_states) \in Nat
        /\ Len(transaction_states') = Len(transaction_states) + 1
        /\ \A k \in 1 .. Len(transaction_states) :
             transaction_states'[k] = transaction_states[k]
        /\ transaction_states'[Len(transaction_states) + 1] = NewTransactionState(t)
        /\ transaction_states # <<>> =>
             1 \in 1 .. Len(transaction_states) /\ FrontId \in Nat
    <2>1. transaction_states \in Seq(TransactionState)
      BY <1>1 DEF TypeOK
    <2>2. transaction_states # <<>> => 1 \in 1 .. Len(transaction_states)
      BY <2>1
    <2> QED
      BY <1>1, <1>3, <2>1, <2>2, DequeTypes DEF FrontId
  <1>8. DoneInDeque'
    <2> SUFFICES ASSUME NEW u \in Transactions, status[u] = "done"
                 PROVE  u <= (FrontId + Len(transaction_states) - 1)'
      BY <1>2 DEF DoneInDeque
    <2>1. CASE transaction_states = <<>>
      <3>1. (FrontId + Len(transaction_states) - 1)' = t
        BY <1>1, <1>7, <2>1 DEF FrontId, NewTransactionState
      <3>2. status[t] # "done"
        BY <1>3 DEF LifeInv, Lifetimes, Lifetime
      <3>3. ~(t < u)
        BY <3>2 DEF OrderInv, InOrder
      <3> QED
        BY <1>1, <3>1, <3>3
    <2>2. CASE transaction_states # <<>>
      <3>1. u <= FrontId + Len(transaction_states) - 1
        BY <2>2 DEF LifeInv, DoneInDeque
      <3>2. FrontId' = FrontId
        BY <1>7, <2>2 DEF FrontId
      <3> QED
        BY <1>1, <1>7, <2>2, <3>1, <3>2
    <2> QED
      BY <2>1, <2>2
  <1>9. PlannerAssigns'
    <2> SUFFICES ASSUME planner.pc = "assigning"
                 PROVE  /\ planner.i \in 1 .. Len(transaction_states')
                        /\ transaction_states'[planner.i].initialized
                        /\ planner.todo \subseteq transaction_states'[planner.i].future
      BY <1>2 DEF PlannerAssigns
    <2>1. /\ planner.i \in 1 .. Len(transaction_states)
          /\ transaction_states[planner.i].initialized
          /\ planner.todo \subseteq transaction_states[planner.i].future
      BY DEF LifeInv, PlannerAssigns
    <2> QED
      BY <1>7, <2>1
  <1> QED
    BY <1>2, <1>5, <1>6, <1>8, <1>9 DEF LifeInv, Lifetimes, PoolOnce, Accepted

\* ManagerRefresh with an Update message.
LEMMA RefreshUpdateLife ==
    ASSUME OrderInv, OrderInv', LifeInv, ManagerRefresh, UNCHANGED executorVars,
           NEW m \in PlannerMessage, m = Head(Pipe), m.type = "Update"
    PROVE  LifeInv'
  <1>1. /\ TypeOK /\ \A t \in Transactions : t \in Nat
        /\ Deque(transaction_states) /\ Deque(transaction_states')
    BY Deques, BoundAssumption DEF OrderInv, Transactions
  <1>2. /\ UNCHANGED <<executor_messages, status, transactions,
                       next_transaction_id, transaction_updatings, task, pool>>
        /\ planner'.pc = "visiting"
        /\ Pipe # <<>> /\ Pipe' = Tail(Pipe)
        /\ transaction_states' = HandleUpdate(transaction_states, m)
    BY <1>1, PipePop DEF ManagerRefresh, StartPlanning, Visiting, HandleMessage,
       executorVars, userVars, taskVars, acceptedVars
  <1>3. m.id \in Transactions /\ m \in UpdatesOf(m.id)
    BY DEF PlannerMessage, StartMessage, UpdateMessage, FinishMessage, UpdatesOf
  <1>4. PipeOrdered' /\ ~InitialSent(m.id)'
    BY <1>1, <1>2, OrderedPop DEF LifeInv
  <1>5. Reports(m.id)
    BY <1>1, <1>2, <1>3, PipePopViews
  <1>6. ASSUME NEW u \in Transactions
        PROVE  Lifetime(u)'
    <2>1. Lifetime(u)
      BY DEF LifeInv, Lifetimes
    <2>2. /\ Reports(u)' => Reports(u)
          /\ InitialSent(u)' => InitialSent(u)
          /\ Starting(u)' => Starting(u)
          /\ Ending(u)' <=> Ending(u)
      <3>1. m # Finish(u)
        BY DEF Finish
      <3> QED
        BY <1>1, <1>2, <3>1, PipePopViews
    <2>3. /\ InDeque(u)' <=> InDeque(u)
          /\ Initialized(u)' <=> Initialized(u) \/ (u = m.id /\ InDeque(u))
      BY <1>1, <1>2, DequeUpdate
    <2>4. Proposed(u)' => Proposed(u)
      BY <1>2, SameWaiting DEF Proposed
    <2>5. Waiting(Register(u))' => Waiting(Register(u))
      BY <1>2, SameWaiting
    <2> QED
      BY <1>2, <1>4, <1>5, <2>1, <2>2, <2>3, <2>4, <2>5 DEF Lifetime
  <1>7. DoneInDeque'
    <2>1. /\ transaction_states \in Seq(TransactionState)
          /\ Len(transaction_states') = Len(transaction_states)
          /\ \A k \in 1 .. Len(transaction_states) :
               transaction_states'[k].transaction_id = transaction_states[k].transaction_id
      BY <1>1, <1>2, HandleUpdateDeque DEF TypeOK
    <2>2. transaction_states' # <<>> =>
            transaction_states # <<>> /\ 1 \in 1 .. Len(transaction_states)
      BY <2>1
    <2>3. transaction_states' # <<>> => FrontId' = FrontId
      BY <2>1, <2>2 DEF FrontId
    <2> QED
      BY <1>2, <2>1, <2>2, <2>3 DEF LifeInv, DoneInDeque
  <1> QED
    BY <1>2, <1>4, <1>6, <1>7 DEF LifeInv, Lifetimes, PoolOnce, Accepted, PlannerAssigns

\* The PlannerManager hears of an end: it is of the front of the deque.
LEMMA FinishStep ==
    ASSUME OrderInv, LifeInv, ManagerRefresh,
           NEW m \in PlannerMessage, m = Head(Pipe), m.type = "Finish"
    PROVE  /\ m.id \in Transactions /\ m = Finish(m.id)
           /\ Ending(m.id) /\ InDeque(m.id)
           /\ transaction_states # <<>>
           /\ m.id = FrontId
           /\ transaction_states' = Tail(transaction_states)
           /\ PipeOrdered' /\ ~Ending(m.id)'
           /\ \A t \in Transactions : t # m.id => (Ending(t)' <=> Ending(t))
  <1>1. /\ TypeOK /\ \A t \in Transactions : t \in Nat
        /\ transaction_states \in Seq(TransactionState)
    BY BoundAssumption DEF OrderInv, TypeOK, Transactions
  <1>2. /\ Pipe # <<>> /\ Pipe' = Tail(Pipe)
        /\ transaction_states' = HandleFinish(transaction_states, m.id)
    BY <1>1, PipePop DEF HandleMessage
  <1>3. m.id \in Transactions /\ m = Finish(m.id)
    BY DEF PlannerMessage, StartMessage, UpdateMessage, FinishMessage, Finish
  <1>4. PipeOrdered' /\ \A t \in Transactions : Ending(t)' => m.id < t
    BY <1>1, <1>2, OrderedPop DEF LifeInv
  <1>5. \A t : Ending(t) <=> Ending(t)' \/ m = Finish(t)
    BY <1>1, <1>2, PipePopViews
  <1>6. Ending(m.id) /\ InDeque(m.id) /\ status[m.id] = "done"
    BY <1>3, <1>5 DEF LifeInv, Lifetimes, Lifetime
  <1>7. PICK k \in 1 .. Len(transaction_states) : transaction_states[k].transaction_id = m.id
    BY <1>6 DEF InDeque
  <1>8. /\ transaction_states # <<>>
        /\ 1 \in 1 .. Len(transaction_states)
        /\ FrontId \in Transactions
        /\ m.id = FrontId + k - 1
    BY <1>1, <1>7, DequeTypes DEF OrderInv, ConsecutiveIds, FrontId
  <1>9. m.id = FrontId
    <2> SUFFICES ASSUME FrontId < m.id PROVE FALSE
      BY <1>1, <1>3, <1>7, <1>8
    <2>1. PICK f \in Transactions : f = FrontId
      BY <1>8
    <2>2. status[f] = "done"
      BY <1>3, <1>6, <2>1 DEF OrderInv, InOrder
    <2>3. InDeque(f)
      BY <1>8, <2>1 DEF InDeque, FrontId
    <2>4. Ending(f)
      BY <2>2, <2>3 DEF LifeInv, Lifetimes, Lifetime
    <2>5. f # m.id
      BY <1>1, <1>3, <2>1
    <2>6. m # Finish(f)
      BY <2>5 DEF Finish
    <2>7. m.id < f
      BY <1>4, <1>5, <2>4, <2>6
    <2> QED
      BY <1>1, <1>3, <2>1, <2>7
  <1>10. transaction_states' = Tail(transaction_states)
    BY <1>2, <1>8, <1>9 DEF HandleFinish, FrontId
  <1>11. ~Ending(m.id)'
    <2>1. Ending(m.id)' => m.id < m.id
      BY <1>3, <1>4
    <2> QED
      BY <1>1, <1>3, <2>1
  <1>12. \A t \in Transactions : t # m.id => (Ending(t)' <=> Ending(t))
    <2>1. \A t : t # m.id => m # Finish(t)
      BY DEF Finish
    <2> QED
      BY <1>5, <2>1
  <1> QED
    BY <1>3, <1>4, <1>6, <1>8, <1>9, <1>10, <1>11, <1>12

\* ManagerRefresh with a Finish message.
LEMMA RefreshFinishLife ==
    ASSUME OrderInv, OrderInv', LifeInv, ManagerRefresh, UNCHANGED executorVars,
           NEW m \in PlannerMessage, m = Head(Pipe), m.type = "Finish"
    PROVE  LifeInv'
  <1>1. /\ TypeOK /\ \A t \in Transactions : t \in Nat
        /\ Deque(transaction_states) /\ Deque(transaction_states')
    BY Deques, BoundAssumption DEF OrderInv, Transactions
  <1>2. /\ UNCHANGED <<executor_messages, status, transactions,
                       next_transaction_id, transaction_updatings, task, pool>>
        /\ planner'.pc = "visiting"
        /\ Pipe # <<>> /\ Pipe' = Tail(Pipe)
    BY <1>1, PipePop DEF ManagerRefresh, StartPlanning, Visiting,
       executorVars, userVars, taskVars, acceptedVars
  <1>3. /\ m.id \in Transactions /\ m = Finish(m.id)
        /\ Ending(m.id) /\ InDeque(m.id)
        /\ transaction_states # <<>>
        /\ m.id = FrontId
        /\ transaction_states' = Tail(transaction_states)
        /\ PipeOrdered' /\ ~Ending(m.id)'
        /\ \A t \in Transactions : t # m.id => (Ending(t)' <=> Ending(t))
    BY FinishStep
  <1>4. ASSUME NEW u \in Transactions
        PROVE  Lifetime(u)'
    <2>1. Lifetime(u)
      BY DEF LifeInv, Lifetimes
    <2>2. /\ Reports(u)' => Reports(u)
          /\ InitialSent(u)' => InitialSent(u)
          /\ Starting(u)' => Starting(u)
      BY <1>1, <1>2, PipePopViews
    <2>3. /\ InDeque(u)' <=> InDeque(u) /\ u # m.id
          /\ u # m.id => (Initialized(u)' <=> Initialized(u))
          /\ u = m.id => ~Initialized(u)'
      <3>1. InDeque(u)' <=> InDeque(u) /\ u # FrontId
        BY <1>1, <1>3, DequePop
      <3>2. u # FrontId => (Initialized(u)' <=> Initialized(u))
        BY <1>1, <1>3, DequePop
      <3>3. ~InDeque(u)' => ~Initialized(u)'
        BY AbsentAfter
      <3> QED
        BY <1>3, <3>1, <3>2, <3>3
    <2>4. Proposed(u)' => Proposed(u)
      BY <1>2, SameWaiting DEF Proposed
    <2>5. Waiting(Register(u))' => Waiting(Register(u))
      BY <1>2, SameWaiting
    <2> QED
      BY <1>2, <1>3, <2>1, <2>2, <2>3, <2>4, <2>5 DEF Lifetime
  <1>5. DoneInDeque'
    <2> SUFFICES ASSUME transaction_states' # <<>>, NEW u \in Transactions, status[u] = "done"
                 PROVE  u <= (FrontId + Len(transaction_states) - 1)'
      BY <1>2 DEF DoneInDeque
    <2>1. u <= FrontId + Len(transaction_states) - 1
      BY <1>3 DEF LifeInv, DoneInDeque
    <2>2. /\ transaction_states \in Seq(TransactionState)
          /\ Len(transaction_states) \in Nat \ {0}
          /\ Len(transaction_states') = Len(transaction_states) - 1
          /\ \A k \in 1 .. Len(transaction_states') :
               transaction_states'[k] = transaction_states[k + 1]
      BY <1>1, <1>3, PopTypes DEF TypeOK
    <2>3. 1 \in 1 .. Len(transaction_states') /\ 2 \in 1 .. Len(transaction_states)
      BY <1>1, <2>2 DEF Deque
    <2>4. transaction_states'[1] = transaction_states[2]
      BY <2>2, <2>3
    <2>5. FrontId \in Nat /\ transaction_states[2].transaction_id = FrontId + 1
      <3>1. FrontId \in Nat
        BY <1>1, <1>3
      <3>2. transaction_states[2].transaction_id = FrontId + 2 - 1
        BY <2>3 DEF OrderInv, ConsecutiveIds
      <3> QED
        BY <3>1, <3>2
    <2>6. FrontId' = FrontId + 1
      BY <2>4, <2>5 DEF FrontId
    <2> QED
      BY <1>1, <2>1, <2>2, <2>5, <2>6
  <1> QED
    BY <1>2, <1>3, <1>4, <1>5 DEF LifeInv, Lifetimes, PoolOnce, Accepted, PlannerAssigns


-----------------------------------------------------------------------------
(* The invariant, and that a cluster is updated once.                      *)

\* Joining the planner changes no lifetime (planner.cpp:178-185).
LEMMA StopLife ==
    ASSUME OrderInv, LifeInv, ManagerStop, UNCHANGED executorVars
    PROVE  LifeInv'
  <1>1. TypeOK
    BY DEF OrderInv
  <1>2. /\ UNCHANGED <<executor_messages, transaction_states, planner, status, transactions,
                       next_transaction_id, transaction_updatings, task, pool>>
        /\ Pipe' = Pipe
    BY <1>1, PipeStop DEF ManagerStop, executorVars, userVars, taskVars, acceptedVars
  <1>3. \A t \in Transactions :
          /\ Waiting(Register(t))' => Waiting(Register(t))
          /\ Proposed(t)' => Proposed(t)
    BY <1>2, SameWaiting DEF Proposed
  <1>4. Lifetimes' /\ PipeOrdered' /\ DoneInDeque'
    BY <1>2, <1>3, QuietLifetimes
  <1> QED
    BY <1>2, <1>4, SameDeque DEF LifeInv, PoolOnce, Accepted

\* Every step of the program keeps the lifetimes.
LEMMA LifeStep ==
    ASSUME OrderInv, OrderInv', LoopInv, LifeInv, [Next]_vars
    PROVE  LifeInv'
  <1>1. CASE UserStep /\ UNCHANGED plannerVars
    BY <1>1, UserLife
  <1>2. CASE ExecutorStep /\ UNCHANGED plannerVars
    BY <1>2, RegisterLife, ExecuteLife, StartUpdateLife, FinalizeLife DEF ExecutorStep
  <1>3. CASE WorkerStep /\ UNCHANGED plannerVars
    BY <1>3, WorkerLife
  <1>4. CASE ManagerStep /\ UNCHANGED executorVars
    <2>1. CASE ManagerStart
      BY <1>4, <2>1, ManagerStartLife
    <2>2. CASE ManagerStop
      BY <1>4, <2>2, StopLife
    <2>3. CASE ManagerRefresh
      <3>1. PICK m \in PlannerMessage : m = Head(Pipe)
        BY <2>3, PipePop DEF OrderInv
      <3>2. ~ManagerStart
        BY <2>3 DEF ManagerStart, ManagerRefresh, Idle
      <3>3. m.type # "Start"
        BY <2>3, <3>1, <3>2, PipePop DEF OrderInv
      <3>4. m.type = "Update" \/ m.type = "Finish"
        BY <3>3, MessageFields
      <3> QED
        BY <1>4, <2>3, <3>1, <3>4, RefreshUpdateLife, RefreshFinishLife
    <2> QED
      BY <1>4, <2>1, <2>2, <2>3 DEF ManagerStep
  <1>5. CASE PlannerStep /\ UNCHANGED executorVars
    BY <1>5, PlannerLife
  <1>6. CASE UNCHANGED vars
    <2>1. /\ UNCHANGED <<executor_messages, transaction_states, planner, status, transactions,
                         next_transaction_id, transaction_updatings, task, pool>>
          /\ Pipe' = Pipe
      BY <1>6 DEF vars, plannerVars, executorVars, userVars, taskVars, acceptedVars, Pipe
    <2>2. \A t \in Transactions :
            /\ Waiting(Register(t))' => Waiting(Register(t))
            /\ Proposed(t)' => Proposed(t)
      BY <2>1, SameWaiting DEF Proposed
    <2>3. Lifetimes' /\ PipeOrdered' /\ DoneInDeque'
      BY <2>1, <2>2, QuietLifetimes
    <2> QED
      BY <2>1, <2>3, SameDeque DEF LifeInv, PoolOnce, Accepted
  <1> QED
    BY <1>1, <1>2, <1>3, <1>4, <1>5, <1>6 DEF Next, Rest

\* The lifetimes hold before the first transaction.
LEMMA LifeInit == Init => LifeInv
  <1> SUFFICES ASSUME Init PROVE LifeInv
    OBVIOUS
  <1> USE DEF Init, PlannerInit, ExecutorInit
  <1>1. Pipe = <<>>
    BY DEF Pipe, Idle
  <1>2. \A S : ~Has(<<>>, S)
    BY DEF Has
  <1>3. ASSUME NEW t \in Transactions
        PROVE  Lifetime(t)
    <2>1. ~Starting(t) /\ ~Ending(t) /\ ~InitialSent(t) /\ ~Reports(t)
      BY <1>1, <1>2 DEF Starting, Ending, InitialSent, Reports
    <2>2. ~Initialized(t) /\ ~InDeque(t)
      BY <1>2 DEF Initialized, InDeque
    <2>3. \A m : ~Waiting(m)
      BY <1>2 DEF Waiting
    <2>4. ~Proposed(t)
      BY <2>3 DEF Proposed
    <2> QED
      BY <2>1, <2>2, <2>3, <2>4 DEF Lifetime
  <1>4. PipeOrdered
    BY <1>1 DEF PipeOrdered, InSequence
  <1> QED
    BY <1>3, <1>4 DEF LifeInv, Lifetimes, DoneInDeque, PlannerAssigns, PoolOnce, Accepted, Stopped

\* The lifetimes hold in every state.
LEMMA LifeCorrect == Spec => [](OrderInv /\ LoopInv /\ LifeInv)
  <1>1. OrderInv /\ OrderInv' /\ LoopInv /\ LifeInv /\ [Next]_vars => LoopInv' /\ LifeInv'
    BY LoopStep, LifeStep
  <1> QED
    BY <1>1, LoopInit, LifeInit, InitOrder, OrderCorrect, PTL DEF Spec

\* However often a cluster is proposed, the Executor puts it into the pool once
\* in a transaction (executor.cpp:83-87).
THEOREM UpdateOnce == Spec => UpdatedOnce
  <1> DEFINE Once == \A t \in Transactions, c \in Clusters :
                       Len(pool') > Len(pool) /\ pool'[Len(pool')] = <<t, c>> =>
                         task[t][c] = "idle"
  <1>1. OrderInv /\ LifeInv /\ [Next]_vars => [Once]_vars
    <2> SUFFICES ASSUME OrderInv, LifeInv, Next,
                        NEW t \in Transactions, NEW c \in Clusters,
                        Len(pool') > Len(pool), pool'[Len(pool')] = <<t, c>>
                 PROVE  task[t][c] = "idle"
      OBVIOUS
    <2>1. TypeOK /\ pool \in Seq(Transactions \X Clusters) /\ Len(pool) \in Nat
      BY DEF OrderInv, TypeOK
    <2>2. pool' # pool
      BY <2>1
    <2>3. ~TakeTask
      BY <2>1, PopTypes DEF TakeTask
    <2>4. HandleStartUpdate
      BY <2>2, <2>3 DEF Next, UserStep, Begin, Submit, ExecutorStep, HandleRegister,
         HandleExecute, HandleFinalize, WorkerStep, TaskStep, ReportNow,
         GenerateSubTransaction, RegisterExecutionResult, ReportFinish, executorVars,
         taskVars, Rest, vars
    <2>5. PICK u \in transactions : \E d \in Clusters \ transaction_updatings[u] :
            pool' = Append(pool, <<u, d>>)
      BY <2>1, <2>2, <2>4, StartUpdateStep
    <2>6. PICK d \in Clusters \ transaction_updatings[u] : pool' = Append(pool, <<u, d>>)
      BY <2>5
    <2>7. pool'[Len(pool')] = <<u, d>>
      BY <2>1, <2>6
    <2>8. u = t /\ d = c
      BY <2>7
    <2>9. u \in Transactions /\ status[u] = "submitted"
      BY <2>1 DEF TypeOK, OrderInv, HeldWhileSubmitted
    <2> QED
      BY <2>6, <2>8, <2>9 DEF LifeInv, Accepted
  <1> QED
    BY <1>1, LifeCorrect, PTL DEF Spec, UpdatedOnce


-----------------------------------------------------------------------------
(* The life of a cluster in a transaction.                                 *)

\* What a worker is, once it told the planner that it starts.
Late == {"reported", "executing", "registered", "finished"}

\* Cluster c has to be updated in t and no message says so yet.
Unreported(t, c) ==
    \/ Waiting(Execute(t)) /\ c \in targets[t]
    \/ \E d \in Clusters : c \in futures[t][d]

\* A target is unreported, then in a report, then a future of the deque, where it
\* stays while the planner proposes it and its task is made and taken; then the
\* report that its update starts moves it to now, and the report of its finish
\* removes it.
Life(t, c) ==
    /\ c \notin targets[t] =>
         /\ task[t][c] = "idle" /\ ~Unreported(t, c) /\ ~FutureSent(t, c)
         /\ ~HasFuture(t, c) /\ ~HasNow(t, c) /\ ~Waiting(StartUpdate(t, c))
    /\ Unreported(t, c) =>
         /\ task[t][c] = "idle" /\ ~FutureSent(t, c)
         /\ ~HasFuture(t, c) /\ ~HasNow(t, c) /\ ~Waiting(StartUpdate(t, c))
    /\ FutureSent(t, c) =>
         /\ task[t][c] = "idle"
         /\ ~HasFuture(t, c) /\ ~HasNow(t, c) /\ ~Waiting(StartUpdate(t, c))
    /\ HasFuture(t, c) => ~HasNow(t, c)
    /\ HasNow(t, c) => task[t][c] \in Late
    /\ NowSent(t, c) <=> HasFuture(t, c) /\ task[t][c] \in Late
    /\ FinishSent(t, c) <=> (HasFuture(t, c) \/ HasNow(t, c)) /\ task[t][c] = "finished"
    /\ c \in targets[t] /\ task[t][c] # "finished" =>
         Unreported(t, c) \/ FutureSent(t, c) \/ HasFuture(t, c) \/ HasNow(t, c)
    /\ Waiting(StartUpdate(t, c)) => t \in transactions

Lives == \A t \in Transactions, c \in Clusters : Life(t, c)

\* The targets of a transaction are collected while it is open, and written when
\* it is submitted.
TargetsOpen == \A t \in Transactions : status[t] \in {"none", "open"} => targets[t] = {}

\* A task has new futures from its result until its last report, and no two
\* tasks of a transaction have the same.
FuturesApart ==
    \A t \in Transactions, d \in Clusters :
        /\ futures[t][d] # {} => task[t][d] = "registered"
        /\ \A e \in Clusters : e # d => futures[t][d] \cap futures[t][e] = {}

\* No two reports on a transaction in the pipe say the same of a cluster, its
\* finish is not reported before its start, and no report comes before the Start
\* message.
Reported ==
    {p \in PlannerMessage \X PlannerMessage :
        p[1].type = "Update" /\ p[1].id = p[2].id =>
            /\ p[2].type # "Start"
            /\ p[2].type = "Update" =>
                 /\ p[1].future \cap p[2].future = {}
                 /\ p[1].now \cap p[2].now = {}
                 /\ p[1].finish \cap p[2].finish = {}
                 /\ p[1].finish \cap p[2].now = {}}

Twisted == {m \in UpdateMessage : m.now \cap m.finish # {}}

PipeReported == InSequence(Pipe, Reported) /\ ~Has(Pipe, Twisted)

\* The transaction of a report is in the deque, or the Start message is in the pipe.
ReportsKnown == \A t \in Transactions : Reports(t) => InDeque(t) \/ Starting(t)

\* What is proposed of a transaction goes before the proposal to finalize it.
Proposals ==
    {p \in ExecutorMessage \X ExecutorMessage :
        p[1].type = "Finalize" /\ p[2].type = "StartUpdate" => p[1].id # p[2].id}

ProposalsFirst == InSequence(executor_messages, Proposals)

\* Nothing is left to do for transaction t.
Over(t) ==
    \A c \in Clusters :
        /\ task[t][c] = IF c \in targets[t] THEN "finished" ELSE "idle"
        /\ ~Unreported(t, c) /\ ~FutureSent(t, c) /\ ~HasFuture(t, c) /\ ~HasNow(t, c)

\* The planner proposes to finalize only such a transaction, which stays so.
ClosedOver ==
    \A t \in Transactions : status[t] = "done" \/ Waiting(Finalize(t)) => Over(t)

ReportInv ==
    /\ Lives
    /\ TargetsOpen
    /\ FuturesApart
    /\ PipeReported
    /\ ReportsKnown
    /\ ProposalsFirst
    /\ ClosedOver

-----------------------------------------------------------------------------
(* What keeps it.                                                          *)

\* What a step leaves of the life of c in t.
SameLife(t, c) ==
    /\ task'[t][c] = task[t][c]
    /\ c \in targets'[t] <=> c \in targets[t]
    /\ Unreported(t, c)' <=> Unreported(t, c)
    /\ FutureSent(t, c)' <=> FutureSent(t, c)
    /\ NowSent(t, c)' <=> NowSent(t, c)
    /\ FinishSent(t, c)' <=> FinishSent(t, c)
    /\ HasFuture(t, c)' <=> HasFuture(t, c)
    /\ HasNow(t, c)' <=> HasNow(t, c)
    /\ Waiting(StartUpdate(t, c))' => Waiting(StartUpdate(t, c))

\* A cluster's life goes on when nothing it speaks of changed.
LEMMA SameLifeKept ==
    ASSUME NEW t, NEW c, Life(t, c), SameLife(t, c),
           Waiting(StartUpdate(t, c))' /\ t \in transactions => t \in transactions'
    PROVE  Life(t, c)'
  BY DEF SameLife, Life

\* A cluster whose life is over stays so when nothing it speaks of changed.
LEMMA SameOver ==
    ASSUME NEW t, Over(t), \A c \in Clusters : SameLife(t, c)
    PROVE  Over(t)'
  BY DEF SameLife, Over

\* A step that leaves the life of every cluster alone.
LEMMA SameLives ==
    ASSUME ReportInv, \A t \in Transactions, c \in Clusters : SameLife(t, c),
           \A t \in Transactions :
             /\ t \in transactions => t \in transactions'
             /\ status'[t] = "done" => status[t] = "done"
             /\ Waiting(Finalize(t))' => Waiting(Finalize(t))
    PROVE  Lives' /\ ClosedOver'
  <1>1. ASSUME NEW t \in Transactions, NEW c \in Clusters
        PROVE  Life(t, c)'
    BY SameLifeKept DEF ReportInv, Lives
  <1>2. ASSUME NEW t \in Transactions, status'[t] = "done" \/ Waiting(Finalize(t))'
        PROVE  Over(t)'
    <2>1. Over(t)
      BY <1>2 DEF ReportInv, ClosedOver
    <2> QED
      BY <2>1, SameOver
  <1> QED
    BY <1>1, <1>2 DEF Lives, ClosedOver

\* The order of the pipe, after a push and a pop.
LEMMA ReportedPush ==
    ASSUME TypeOK, PipeReported, NEW m \in PlannerMessage, Pipe' = Append(Pipe, m),
           m.type = "Start" => ~Reports(m.id),
           m.type = "Update" =>
             /\ m.now \cap m.finish = {}
             /\ \A c \in Clusters :
                  /\ c \in m.future => ~FutureSent(m.id, c)
                  /\ c \in m.now => ~NowSent(m.id, c) /\ ~FinishSent(m.id, c)
                  /\ c \in m.finish => ~FinishSent(m.id, c)
    PROVE  PipeReported'
  <1>1. Pipe \in Seq(PlannerMessage) /\ \A i \in 1 .. Len(Pipe) : Pipe[i] \in PlannerMessage
    BY PipeType
  <1>2. ASSUME NEW i \in 1 .. Len(Pipe)
        PROVE  <<Pipe[i], m>> \in Reported
    <2> SUFFICES ASSUME Pipe[i].type = "Update", Pipe[i].id = m.id
                 PROVE  /\ m.type # "Start"
                        /\ m.type = "Update" =>
                             /\ Pipe[i].future \cap m.future = {}
                             /\ Pipe[i].now \cap m.now = {}
                             /\ Pipe[i].finish \cap m.finish = {}
                             /\ Pipe[i].finish \cap m.now = {}
      BY <1>1 DEF Reported
    <2>1. Pipe[i] \in UpdatesOf(m.id)
      BY <1>1 DEF PlannerMessage, StartMessage, UpdateMessage, FinishMessage, UpdatesOf
    <2>2. m.type # "Start"
      BY <2>1 DEF Reports, Has
    <2>3. /\ \A c \in Pipe[i].future : FutureSent(m.id, c)
          /\ \A c \in Pipe[i].now : NowSent(m.id, c)
          /\ \A c \in Pipe[i].finish : FinishSent(m.id, c)
      BY <2>1 DEF FutureSent, NowSent, FinishSent, Has
    <2>4. /\ Pipe[i].future \subseteq Clusters
          /\ Pipe[i].now \subseteq Clusters
          /\ Pipe[i].finish \subseteq Clusters
      BY <2>1 DEF UpdatesOf, UpdateMessage
    <2> QED
      BY <2>2, <2>3, <2>4
  <1>3. \A i \in 1 .. Len(Pipe) : <<Pipe[i], m>> \in Reported
    BY <1>2
  <1>4. InSequence(Append(Pipe, m), Reported)
    BY <1>1, <1>3, InSequencePush DEF PipeReported
  <1>5. m \notin Twisted
    BY DEF Twisted, UpdateMessage
  <1>6. ~Has(Append(Pipe, m), Twisted)
    BY <1>1, <1>5, HasPush DEF PipeReported
  <1> QED
    BY <1>4, <1>6 DEF PipeReported

\* A report that is taken from the pipe is the only one about what it names.
LEMMA ReportedPop ==
    ASSUME TypeOK, PipeReported, Pipe # <<>>, Pipe' = Tail(Pipe),
           NEW m \in PlannerMessage, m = Head(Pipe)
    PROVE  /\ PipeReported'
           /\ m.type = "Update" =>
                /\ ~Starting(m.id)'
                /\ m.now \cap m.finish = {}
                /\ \A c : /\ c \in m.future => ~FutureSent(m.id, c)'
                          /\ c \in m.now => ~NowSent(m.id, c)'
                          /\ c \in m.finish => ~FinishSent(m.id, c)' /\ ~NowSent(m.id, c)'
  <1>1. Pipe \in Seq(PlannerMessage)
    BY PipeType
  <1>2. /\ InSequence(Tail(Pipe), Reported)
        /\ \A i \in 1 .. Len(Tail(Pipe)) : <<m, Tail(Pipe)[i]>> \in Reported
    BY <1>1, InSequencePop DEF PipeReported
  <1>3. ~Has(Tail(Pipe), Twisted) /\ m \notin Twisted
    BY <1>1, HasPop DEF PipeReported
  <1>4. PipeReported'
    BY <1>2, <1>3 DEF PipeReported
  <1>5. m.type = "Update" => m.now \cap m.finish = {}
    BY <1>3 DEF Twisted, PlannerMessage, StartMessage, UpdateMessage, FinishMessage
  <1>6. ASSUME m.type = "Update"
        PROVE  ~Starting(m.id)'
    <2>1. Start(m.id).type = "Start" /\ Start(m.id).id = m.id
      BY DEF Start
    <2>2. \A i \in 1 .. Len(Tail(Pipe)) : Tail(Pipe)[i] # Start(m.id)
      BY <1>2, <1>6, <2>1 DEF Reported
    <2> QED
      BY <2>2 DEF Starting, Has
  <1>7. ASSUME m.type = "Update", NEW i \in 1 .. Len(Pipe'), Pipe'[i] \in UpdatesOf(m.id)
        PROVE  /\ m.future \cap Pipe'[i].future = {}
               /\ m.now \cap Pipe'[i].now = {}
               /\ m.finish \cap Pipe'[i].finish = {}
               /\ m.finish \cap Pipe'[i].now = {}
    <2>1. <<m, Pipe'[i]>> \in Reported
      BY <1>2
    <2> QED
      BY <1>7, <2>1 DEF Reported, UpdatesOf, UpdateMessage
  <1>8. ASSUME m.type = "Update", NEW c
        PROVE  /\ c \in m.future => ~FutureSent(m.id, c)'
               /\ c \in m.now => ~NowSent(m.id, c)'
               /\ c \in m.finish => ~FinishSent(m.id, c)' /\ ~NowSent(m.id, c)'
    BY <1>7, <1>8 DEF FutureSent, NowSent, FinishSent, Has
  <1> QED
    BY <1>4, <1>5, <1>6, <1>8

\* The order of the proposals.
LEMMA ProposalsPush ==
    ASSUME TypeOK, ProposalsFirst, NEW m \in ExecutorMessage,
           executor_messages' = Append(executor_messages, m),
           m.type = "StartUpdate" => ~Waiting(Finalize(m.id))
    PROVE  ProposalsFirst'
  <1>1. executor_messages \in Seq(ExecutorMessage)
        /\ \A i \in 1 .. Len(executor_messages) : executor_messages[i] \in ExecutorMessage
    BY DEF TypeOK
  <1>2. ASSUME NEW i \in 1 .. Len(executor_messages)
        PROVE  <<executor_messages[i], m>> \in Proposals
    <2>1. executor_messages[i].type = "Finalize" =>
            executor_messages[i] = Finalize(executor_messages[i].id)
      BY <1>1, ProposalFields
    <2>2. executor_messages[i].type = "Finalize" =>
            Waiting(Finalize(executor_messages[i].id))
      BY <2>1 DEF Waiting, Has
    <2> QED
      BY <1>1, <2>2 DEF Proposals
  <1>3. \A i \in 1 .. Len(executor_messages) : <<executor_messages[i], m>> \in Proposals
    BY <1>2
  <1>4. InSequence(Append(executor_messages, m), Proposals)
    BY <1>1, <1>3, InSequencePush DEF ProposalsFirst
  <1> QED
    BY <1>4 DEF ProposalsFirst

\* A Finalize that is taken leaves no proposal of its transaction behind.
LEMMA ProposalsPop ==
    ASSUME TypeOK, ProposalsFirst, executor_messages # <<>>,
           executor_messages' = Tail(executor_messages)
    PROVE  /\ ProposalsFirst'
           /\ \A t, c : Head(executor_messages) = Finalize(t) => ~Waiting(StartUpdate(t, c))'
  <1>1. executor_messages \in Seq(ExecutorMessage)
    BY DEF TypeOK
  <1>2. /\ InSequence(Tail(executor_messages), Proposals)
        /\ \A i \in 1 .. Len(Tail(executor_messages)) :
             <<Head(executor_messages), Tail(executor_messages)[i]>> \in Proposals
    BY <1>1, InSequencePop DEF ProposalsFirst
  <1>3. ProposalsFirst'
    BY <1>2 DEF ProposalsFirst
  <1>4. ASSUME NEW t, NEW c, Head(executor_messages) = Finalize(t)
        PROVE  ~Waiting(StartUpdate(t, c))'
    <2>1. \A x : <<Finalize(t), x>> \in Proposals => x # StartUpdate(t, c)
      BY DEF Proposals, Finalize, StartUpdate
    <2> QED
      BY <1>2, <1>4, <2>1 DEF Waiting, Has
  <1> QED
    BY <1>3, <1>4


\* A step that leaves the tasks, their futures, the pipe and the deque alone.
LEMMA SameElsewhere ==
    ASSUME UNCHANGED <<task, futures, transaction_states>>, Pipe' = Pipe,
           NEW t \in Transactions, targets'[t] = targets[t],
           Waiting(Execute(t))' <=> Waiting(Execute(t)),
           \A c \in Clusters : Waiting(StartUpdate(t, c))' => Waiting(StartUpdate(t, c))
    PROVE  \A c \in Clusters : SameLife(t, c)
  <1> SUFFICES ASSUME NEW c \in Clusters PROVE SameLife(t, c)
    OBVIOUS
  <1>1. Unreported(t, c)' <=> Unreported(t, c)
    BY DEF Unreported
  <1>2. /\ FutureSent(t, c)' <=> FutureSent(t, c)
        /\ NowSent(t, c)' <=> NowSent(t, c)
        /\ FinishSent(t, c)' <=> FinishSent(t, c)
    BY SamePipeViews
  <1>3. /\ HasFuture(t, c)' <=> HasFuture(t, c)
        /\ HasNow(t, c)' <=> HasNow(t, c)
    BY SameDequeViews
  <1> QED
    BY <1>1, <1>2, <1>3 DEF SameLife

\* What does not change with the pipe and the deque.
LEMMA SameKnown ==
    ASSUME ReportInv, UNCHANGED transaction_states, Pipe' = Pipe
    PROVE  PipeReported' /\ ReportsKnown'
  <1>1. PipeReported'
    BY DEF ReportInv, PipeReported
  <1>2. \A t \in Transactions : Reports(t)' => InDeque(t)' \/ Starting(t)'
    BY SamePipeViews, SameDequeViews DEF ReportInv, ReportsKnown
  <1> QED
    BY <1>1, <1>2 DEF ReportsKnown

\* The messages of the users, by their fields.
LEMMA UsersDiffer ==
    /\ \A t, u : /\ Execute(t) = Execute(u) => t = u
                 /\ Register(t) = Register(u) => t = u
                 /\ Execute(t) # Register(u)
                 /\ Finalize(t) # Execute(u)
    /\ \A t, c, u : StartUpdate(t, c) # Execute(u)
  <1>1. \A t : /\ Execute(t).id = t /\ Execute(t).type = "Execute"
               /\ Register(t).id = t /\ Register(t).type = "Register"
               /\ Finalize(t).type = "Finalize"
    BY DEF Execute, Register, Finalize
  <1>2. \A t, c : StartUpdate(t, c).type = "StartUpdate"
    BY DEF StartUpdate
  <1> QED
    BY <1>1, <1>2

\* Begin: a new transaction has no targets.
LEMMA BeginReports ==
    ASSUME OrderInv, LifeInv, ReportInv, Begin, UNCHANGED plannerVars
    PROVE  ReportInv'
  <1> DEFINE n == next_transaction_id
  <1>1. TypeOK /\ n \in Transactions /\ status[n] = "none" /\ n \in Nat
    <2>1. TypeOK
      BY DEF OrderInv
    <2>2. n \in Transactions /\ n \in Nat
      BY <2>1, BoundAssumption DEF Begin, TypeOK, Transactions
    <2> QED
      BY <2>1, <2>2 DEF OrderInv, HeldWhileSubmitted
  <1>2. /\ UNCHANGED <<planner_messages, manager, transaction_states, task, futures, targets,
                       transactions>>
        /\ status' = [status EXCEPT ![n] = "open"]
        /\ executor_messages' = Append(executor_messages, Register(n))
        /\ Pipe' = Pipe
    BY DEF Begin, PushExecutor, plannerVars, taskVars, acceptedVars, Pipe
  <1>3. \A x : Waiting(x)' <=> Waiting(x) \/ x = Register(n)
    BY <1>1, <1>2, WaitingPush
  <1>4. \A t \in Transactions :
          /\ Waiting(Execute(t))' <=> Waiting(Execute(t))
          /\ Waiting(Finalize(t))' => Waiting(Finalize(t))
          /\ \A c \in Clusters : Waiting(StartUpdate(t, c))' => Waiting(StartUpdate(t, c))
    BY <1>3, UsersDiffer, ProposalsDiffer
  <1>5. \A t \in Transactions : status'[t] = IF t = n THEN "open" ELSE status[t]
    BY <1>1, <1>2 DEF TypeOK
  <1>6. \A t \in Transactions, c \in Clusters : SameLife(t, c)
    BY <1>2, <1>4, SameElsewhere
  <1>7. Lives' /\ ClosedOver'
    BY <1>2, <1>4, <1>5, <1>6, SameLives
  <1>8. TargetsOpen'
    BY <1>1, <1>2, <1>5 DEF ReportInv, TargetsOpen
  <1>9. FuturesApart'
    BY <1>2 DEF ReportInv, FuturesApart
  <1>10. PipeReported' /\ ReportsKnown'
    BY <1>2, SameKnown
  <1>11. ProposalsFirst'
    <2>1. Register(n) \in ExecutorMessage /\ Register(n).type # "StartUpdate"
      BY <1>1, MessageTypes DEF Register
    <2> QED
      BY <1>1, <1>2, <2>1, ProposalsPush DEF ReportInv
  <1> QED
    BY <1>7, <1>8, <1>9, <1>10, <1>11 DEF ReportInv

\* Submit: the targets of a transaction are those its user sent to.
LEMMA SubmitReports ==
    ASSUME OrderInv, LifeInv, ReportInv, UNCHANGED plannerVars,
           NEW s \in Transactions, Submit(s)
    PROVE  ReportInv'
  <1>1. TypeOK /\ status[s] = "open"
    BY DEF OrderInv, Submit
  <1>2. PICK sent \in SUBSET Clusters : targets' = [targets EXCEPT ![s] = sent]
    BY ExecutorAssumption DEF Submit
  <1>3. /\ UNCHANGED <<planner_messages, manager, transaction_states, task, futures,
                       transactions>>
        /\ status' = [status EXCEPT ![s] = "submitted"]
        /\ executor_messages' = Append(executor_messages, Execute(s))
        /\ Pipe' = Pipe
    BY DEF Submit, PushExecutor, plannerVars, acceptedVars, Pipe
  <1>4. \A x : Waiting(x)' <=> Waiting(x) \/ x = Execute(s)
    BY <1>1, <1>3, WaitingPush
  <1>5. \A t \in Transactions :
          /\ Waiting(Execute(t))' <=> Waiting(Execute(t)) \/ t = s
          /\ Waiting(Finalize(t))' => Waiting(Finalize(t))
          /\ \A c \in Clusters : Waiting(StartUpdate(t, c))' => Waiting(StartUpdate(t, c))
    BY <1>4, UsersDiffer
  <1>6. \A t \in Transactions :
          /\ status'[t] = IF t = s THEN "submitted" ELSE status[t]
          /\ targets'[t] = IF t = s THEN sent ELSE targets[t]
    BY <1>1, <1>2, <1>3 DEF TypeOK
  <1>7. ASSUME NEW t \in Transactions, t # s
        PROVE  \A c \in Clusters : SameLife(t, c)
    BY <1>3, <1>5, <1>6, <1>7, SameElsewhere
  <1>8. ASSUME NEW c \in Clusters
        PROVE  Life(s, c)'
    <2>1. /\ Life(s, c) /\ c \notin targets[s]
      BY <1>1 DEF ReportInv, Lives, TargetsOpen
    <2>2. Unreported(s, c)' <=> c \in sent
      BY <1>3, <1>5, <1>6, <2>1 DEF Unreported, Life
    <2>3. /\ FutureSent(s, c)' <=> FutureSent(s, c)
          /\ NowSent(s, c)' <=> NowSent(s, c)
          /\ FinishSent(s, c)' <=> FinishSent(s, c)
      BY <1>3, SamePipeViews
    <2>4. /\ HasFuture(s, c)' <=> HasFuture(s, c)
          /\ HasNow(s, c)' <=> HasNow(s, c)
      BY <1>3, SameDequeViews
    <2>5. ~Waiting(StartUpdate(s, c))'
      BY <1>5, <2>1 DEF Life
    <2> QED
      BY <1>3, <1>6, <2>1, <2>2, <2>3, <2>4, <2>5 DEF Life
  <1>9. Lives'
    <2>1. ASSUME NEW t \in Transactions, NEW c \in Clusters, t # s
          PROVE  Life(t, c)'
      BY <1>3, <1>7, <2>1, SameLifeKept DEF ReportInv, Lives
    <2> QED
      BY <1>8, <2>1 DEF Lives
  <1>10. ClosedOver'
    <2> SUFFICES ASSUME NEW t \in Transactions, status'[t] = "done" \/ Waiting(Finalize(t))'
                 PROVE  Over(t)'
      BY DEF ClosedOver
    <2>1. t # s
      <3>1. Lifetime(s)
        BY DEF LifeInv, Lifetimes
      <3>2. s \notin transactions
        BY <1>1 DEF OrderInv, HeldWhileSubmitted
      <3>3. ~Waiting(Finalize(s))
        BY <1>1, <3>1, <3>2 DEF Lifetime, Proposed
      <3> QED
        BY <1>5, <1>6, <3>3
    <2>2. Over(t)
      BY <1>5, <1>6, <2>1 DEF ReportInv, ClosedOver
    <2> QED
      BY <1>7, <2>1, <2>2, SameOver
  <1>11. TargetsOpen'
    BY <1>6 DEF ReportInv, TargetsOpen
  <1>12. FuturesApart'
    BY <1>3 DEF ReportInv, FuturesApart
  <1>13. PipeReported' /\ ReportsKnown'
    BY <1>3, SameKnown
  <1>14. ProposalsFirst'
    <2>1. Execute(s) \in ExecutorMessage /\ Execute(s).type # "StartUpdate"
      BY MessageTypes DEF Execute
    <2> QED
      BY <1>1, <1>3, <2>1, ProposalsPush DEF ReportInv
  <1> QED
    BY <1>9, <1>10, <1>11, <1>12, <1>13, <1>14 DEF ReportInv

\* HandleRegister: nobody has reported on a transaction yet when it is announced.
LEMMA RegisterReports ==
    ASSUME OrderInv, LifeInv, ReportInv, HandleRegister, UNCHANGED plannerVars
    PROVE  ReportInv'
  <1>1. TypeOK /\ Receive("Register")
    BY DEF OrderInv, HandleRegister
  <1>2. /\ UNCHANGED <<manager, transaction_states, task, futures, targets, transactions, status>>
        /\ executor_messages # <<>> /\ executor_messages' = Tail(executor_messages)
    BY <1>1 DEF HandleRegister, Receive, plannerVars, userVars, taskVars, acceptedVars
  <1>3. PICK m \in ExecutorMessage :
          m = Head(executor_messages) /\ m.type = "Register" /\ Waiting(m)
    BY <1>1, ExecutorHead
  <1>4. PICK s \in Transactions : s = m.id /\ m = Register(s)
    BY <1>3, MessageFields
  <1>5. Start(s) \in PlannerMessage /\ Start(s).type = "Start" /\ Start(s).id = s
    BY MessageTypes DEF Start
  <1>6. Pipe' = Append(Pipe, Start(s))
    BY <1>1, <1>2, <1>3, <1>4, <1>5, PipePush DEF HandleRegister
  <1>7. \A x : Waiting(x) <=> Waiting(x)' \/ x = Register(s)
    BY <1>1, <1>2, <1>3, <1>4, WaitingPop
  <1>8. \A t \in Transactions :
          /\ Waiting(Execute(t))' <=> Waiting(Execute(t))
          /\ Waiting(Finalize(t))' <=> Waiting(Finalize(t))
          /\ \A c \in Clusters : Waiting(StartUpdate(t, c))' <=> Waiting(StartUpdate(t, c))
    BY <1>7, UsersDiffer, ProposalsDiffer
  <1>9. ASSUME NEW t \in Transactions
        PROVE  /\ Reports(t)' <=> Reports(t)
               /\ Starting(t) => Starting(t)'
               /\ InDeque(t)' <=> InDeque(t)
               /\ \A c \in Clusters : SameLife(t, c)
    <2>1. \A u : Start(s) \notin UpdatesOf(u)
      BY <1>5 DEF UpdatesOf, UpdateMessage
    <2>2. /\ Reports(t)' <=> Reports(t)
          /\ Starting(t) => Starting(t)'
          /\ \A c : /\ NowSent(t, c)' <=> NowSent(t, c)
                    /\ FutureSent(t, c)' <=> FutureSent(t, c)
                    /\ FinishSent(t, c)' <=> FinishSent(t, c)
      BY <1>1, <1>6, <2>1, PipePushViews
    <2>3. /\ InDeque(t)' <=> InDeque(t)
          /\ \A c : /\ HasFuture(t, c)' <=> HasFuture(t, c)
                    /\ HasNow(t, c)' <=> HasNow(t, c)
      BY <1>2, SameDequeViews
    <2>4. \A c : Unreported(t, c)' <=> Unreported(t, c)
      BY <1>2, <1>8 DEF Unreported
    <2> QED
      BY <1>2, <1>8, <2>2, <2>3, <2>4 DEF SameLife
  <1>10. Lives' /\ ClosedOver'
    BY <1>2, <1>8, <1>9, SameLives
  <1>11. TargetsOpen' /\ FuturesApart'
    BY <1>2 DEF ReportInv, TargetsOpen, FuturesApart
  <1>12. PipeReported'
    <2>1. ~Reports(s)
      BY <1>3, <1>4 DEF ReportInv, ReportsKnown, LifeInv, Lifetimes, Lifetime
    <2> QED
      BY <1>1, <1>5, <1>6, <2>1, ReportedPush DEF ReportInv
  <1>13. ReportsKnown'
    BY <1>9 DEF ReportInv, ReportsKnown
  <1>14. ProposalsFirst'
    BY <1>1, <1>2, ProposalsPop DEF ReportInv
  <1> QED
    BY <1>10, <1>11, <1>12, <1>13, <1>14 DEF ReportInv

\* A message of the PlannerManager's queue is in the pipe.
LEMMA QueueInPipe ==
    ASSUME TypeOK, NEW t \in Transactions,
           NEW j \in 1 .. Len(planner_messages), planner_messages[j] = Start(t)
    PROVE  Starting(t)
  <1>1. planner_messages \in Seq(PlannerMessage)
    BY DEF TypeOK
  <1>2. CASE manager.pc = "joining"
    <2>1. manager.message \in PlannerMessage
      BY <1>2 DEF TypeOK, PlannerMessage
    <2>2. \A x \in PlannerMessage :
            /\ j + 1 \in 1 .. Len(<<x>> \o planner_messages)
            /\ (<<x>> \o planner_messages)[j + 1] = planner_messages[j]
      BY <1>1
    <2> QED
      BY <1>2, <2>1, <2>2 DEF Starting, Has, Pipe
  <1>3. CASE manager.pc # "joining"
    BY <1>3 DEF Starting, Has, Pipe
  <1> QED
    BY <1>2, <1>3

\* HandleExecute: the targets of a transaction go into its first report.
LEMMA ExecuteReports ==
    ASSUME OrderInv, LoopInv, LifeInv, ReportInv, HandleExecute, UNCHANGED plannerVars
    PROVE  ReportInv'
  <1>1. TypeOK /\ Receive("Execute")
    BY DEF OrderInv, HandleExecute
  <1>2. /\ UNCHANGED <<manager, transaction_states, task, futures, targets, status>>
        /\ executor_messages # <<>> /\ executor_messages' = Tail(executor_messages)
    BY <1>1 DEF HandleExecute, Receive, plannerVars, userVars, taskVars
  <1>3. PICK m \in ExecutorMessage :
          /\ m = Head(executor_messages) /\ m = executor_messages[1] /\ m.type = "Execute"
          /\ 1 \in 1 .. Len(executor_messages) /\ Waiting(m)
    BY <1>1, ExecutorHead
  <1>4. PICK s \in Transactions : s = m.id /\ m = Execute(s)
    BY <1>3, MessageFields
  <1>5. /\ transactions' = transactions \cup {s}
        /\ PushPlanner(Update(s, {}, targets[s], {}))
        /\ targets[s] \in SUBSET Clusters
    BY <1>1, <1>3, <1>4 DEF HandleExecute, TypeOK
  <1>6. PICK r \in PlannerMessage :
          /\ r.type = "Update" /\ r.id = s
          /\ r.now = {} /\ r.future = targets[s] /\ r.finish = {}
          /\ r \in UpdatesOf(s) /\ \A u : u # s => r \notin UpdatesOf(u)
          /\ Pipe' = Append(Pipe, r)
    <2> DEFINE x == Update(s, {}, targets[s], {})
    <2>1. x \in PlannerMessage
      BY <1>5, MessageTypes
    <2>2. Pipe' = Append(Pipe, x)
      BY <1>1, <1>2, <1>5, <2>1, PipePush
    <2>3. x.type = "Update" /\ x.id = s /\ x.now = {} /\ x.future = targets[s] /\ x.finish = {}
      BY DEF Update
    <2>4. x \in UpdatesOf(s) /\ \A u : u # s => x \notin UpdatesOf(u)
      BY <2>1, <2>3 DEF PlannerMessage, StartMessage, FinishMessage, UpdatesOf
    <2> HIDE DEF x
    <2> QED
      BY <2>1, <2>2, <2>3, <2>4
  <1>7. /\ status[s] = "submitted" /\ s \notin transactions
        /\ ~Waiting(Execute(s))'
    <2>1. \A j \in 1 .. Len(executor_messages) : executor_messages[j] = Execute(s) => j = 1
      BY <1>3, <1>4 DEF OrderInv, HeldWhileSubmitted
    <2>2. executor_messages \in Seq(ExecutorMessage)
      BY <1>1 DEF TypeOK
    <2>3. /\ Len(executor_messages) \in Nat \ {0}
          /\ Len(Tail(executor_messages)) = Len(executor_messages) - 1
          /\ \A i \in 1 .. Len(Tail(executor_messages)) :
               Tail(executor_messages)[i] = executor_messages[i + 1]
      BY <1>2, <2>2, PopTypes
    <2>4. \A i \in 1 .. Len(Tail(executor_messages)) : Tail(executor_messages)[i] # Execute(s)
      BY <2>1, <2>3
    <2>5. ~Waiting(Execute(s))'
      BY <1>2, <2>4 DEF Waiting, Has
    <2> QED
      BY <1>3, <1>4, <2>5 DEF OrderInv, HeldWhileSubmitted
  <1>8. \A x : Waiting(x) <=> Waiting(x)' \/ x = Execute(s)
    BY <1>1, <1>2, <1>3, <1>4, WaitingPop
  <1>9. \A t \in Transactions :
          /\ t # s => (Waiting(Execute(t))' <=> Waiting(Execute(t)))
          /\ Waiting(Finalize(t))' <=> Waiting(Finalize(t))
          /\ \A c \in Clusters : Waiting(StartUpdate(t, c))' <=> Waiting(StartUpdate(t, c))
    BY <1>8, UsersDiffer
  <1>10. /\ ~Reports(s) /\ ~Waiting(Finalize(s)) /\ \A c \in Clusters : task[s][c] = "idle"
    <2>1. Lifetime(s)
      BY DEF LifeInv, Lifetimes
    <2> QED
      BY <1>7, <2>1 DEF Lifetime, Proposed
  <1>11. \A t \in Transactions :
           /\ Reports(t)' <=> Reports(t) \/ t = s
           /\ Starting(t)' <=> Starting(t)
           /\ \A c : /\ NowSent(t, c)' <=> NowSent(t, c)
                     /\ FutureSent(t, c)' <=> FutureSent(t, c) \/ (t = s /\ c \in targets[s])
                     /\ FinishSent(t, c)' <=> FinishSent(t, c)
    <2>1. \A u : r # Start(u)
      BY <1>6 DEF Start
    <2> QED
      BY <1>1, <1>6, <2>1, PipePushViews
  <1>12. \A t \in Transactions :
           /\ InDeque(t)' <=> InDeque(t)
           /\ \A c : /\ HasFuture(t, c)' <=> HasFuture(t, c)
                     /\ HasNow(t, c)' <=> HasNow(t, c)
    BY <1>2, SameDequeViews
  <1>13. ASSUME NEW t \in Transactions, t # s, NEW c \in Clusters
         PROVE  SameLife(t, c)
    <2>1. Unreported(t, c)' <=> Unreported(t, c)
      BY <1>2, <1>9, <1>13 DEF Unreported
    <2> QED
      BY <1>2, <1>9, <1>11, <1>12, <1>13, <2>1 DEF SameLife
  <1>14. ASSUME NEW c \in Clusters
         PROVE  Life(s, c)'
    <2>1. Life(s, c)
      BY DEF ReportInv, Lives
    <2>2. \A d \in Clusters : c \notin futures[s][d]
      BY <1>10 DEF ReportInv, FuturesApart
    <2>3. ~Unreported(s, c)'
      BY <1>2, <1>7, <2>2 DEF Unreported
    <2>4. Unreported(s, c) <=> c \in targets[s]
      BY <1>3, <1>4, <2>2 DEF Unreported
    <2> QED
      BY <1>2, <1>5, <1>9, <1>11, <1>12, <2>1, <2>3, <2>4 DEF Life
  <1>15. Lives'
    <2>1. ASSUME NEW t \in Transactions, NEW c \in Clusters, t # s
          PROVE  Life(t, c)'
      BY <1>5, <1>13, <2>1, SameLifeKept DEF ReportInv, Lives
    <2> QED
      BY <1>14, <2>1 DEF Lives
  <1>16. ClosedOver'
    <2> SUFFICES ASSUME NEW t \in Transactions, status'[t] = "done" \/ Waiting(Finalize(t))'
                 PROVE  Over(t)'
      BY DEF ClosedOver
    <2>1. t # s
      BY <1>2, <1>7, <1>9, <1>10
    <2>2. Over(t)
      BY <1>2, <1>9 DEF ReportInv, ClosedOver
    <2> QED
      BY <1>13, <2>1, <2>2, SameOver
  <1>17. TargetsOpen' /\ FuturesApart'
    BY <1>2 DEF ReportInv, TargetsOpen, FuturesApart
  <1>18. PipeReported'
    <2>1. \A c \in Clusters : ~FutureSent(s, c)
      BY <1>10 DEF Reports, FutureSent, Has
    <2> QED
      BY <1>1, <1>6, <2>1, ReportedPush DEF ReportInv
  <1>19. ReportsKnown'
    <2>1. InDeque(s) \/ Starting(s)
      <3>1. s < next_transaction_id
        BY <1>1, <1>7, BoundAssumption DEF OrderInv, HeldWhileSubmitted, TypeOK, Transactions
      <3>2. s \in 0 .. (next_transaction_id - 1)
        BY <1>1, <3>1, BoundAssumption DEF TypeOK, Transactions
      <3>3. CASE \E j \in 1 .. Len(executor_messages) : executor_messages[j] = Register(s)
        <4>1. Waiting(Register(s))
          BY <3>3 DEF Waiting, Has
        <4>2. Waiting(Register(s))'
          BY <1>8, <4>1, UsersDiffer
        <4>3. s < s
          BY <1>1, <1>2, <1>3, <1>4, <4>2, RegistersBehind
        <4> QED
          BY <4>3, BoundAssumption DEF Transactions
      <3>4. CASE Announced(s)
        BY <1>1, <1>7, <3>4, QueueInPipe DEF Announced
      <3> QED
        BY <3>2, <3>3, <3>4 DEF OrderInv, NoneForgotten
    <2> QED
      BY <1>11, <1>12, <2>1 DEF ReportInv, ReportsKnown
  <1>20. ProposalsFirst'
    BY <1>1, <1>2, ProposalsPop DEF ReportInv
  <1> QED
    BY <1>15, <1>16, <1>17, <1>18, <1>19, <1>20 DEF ReportInv

\* HandleStartUpdate: a cluster the Executor accepts is a future of the deque.
LEMMA StartUpdateReports ==
    ASSUME OrderInv, LifeInv, ReportInv, HandleStartUpdate, UNCHANGED plannerVars
    PROVE  ReportInv'
  <1>1. TypeOK /\ Receive("StartUpdate")
    BY DEF OrderInv, HandleStartUpdate
  <1>2. /\ UNCHANGED <<planner_messages, manager, transaction_states, futures, targets, status,
                       transactions>>
        /\ executor_messages # <<>> /\ executor_messages' = Tail(executor_messages)
        /\ Pipe' = Pipe
    BY <1>1, StartUpdateStep DEF Receive, plannerVars, Pipe
  <1>3. PICK m \in ExecutorMessage : m = Head(executor_messages) /\ m.type = "StartUpdate"
    BY <1>1, ExecutorHead
  <1>4. PICK s \in Transactions, e \in Clusters : m = StartUpdate(s, e)
    BY <1>3, ProposalFields
  <1>5. \A x : Waiting(x) <=> Waiting(x)' \/ x = StartUpdate(s, e)
    BY <1>1, <1>2, <1>3, <1>4, WaitingPop
  <1>6. \A t \in Transactions :
          /\ Waiting(Execute(t))' <=> Waiting(Execute(t))
          /\ Waiting(Finalize(t))' <=> Waiting(Finalize(t))
          /\ \A c \in Clusters : Waiting(StartUpdate(t, c))' => Waiting(StartUpdate(t, c))
    BY <1>5, UsersDiffer, ProposalsDiffer
  <1>7. \A t \in Transactions, c \in Clusters : Unreported(t, c)' <=> Unreported(t, c)
    BY <1>2, <1>6 DEF Unreported
  <1>8. \A t \in Transactions, c \in Clusters : task'[t][c] = task[t][c] => SameLife(t, c)
    <2> SUFFICES ASSUME NEW t \in Transactions, NEW c \in Clusters, task'[t][c] = task[t][c]
                 PROVE  SameLife(t, c)
      OBVIOUS
    <2>1. /\ FutureSent(t, c)' <=> FutureSent(t, c)
          /\ NowSent(t, c)' <=> NowSent(t, c)
          /\ FinishSent(t, c)' <=> FinishSent(t, c)
      BY <1>2, SamePipeViews
    <2>2. /\ HasFuture(t, c)' <=> HasFuture(t, c)
          /\ HasNow(t, c)' <=> HasNow(t, c)
      BY <1>2, SameDequeViews
    <2> QED
      BY <1>2, <1>6, <1>7, <2>1, <2>2 DEF SameLife
  <1>9. Lives' /\ ClosedOver' /\ FuturesApart'
    <2>1. CASE task' = task
      <3>1. \A t \in Transactions, c \in Clusters : SameLife(t, c)
        BY <1>8, <2>1
      <3>2. Lives' /\ ClosedOver'
        BY <1>2, <1>6, <3>1, SameLives
      <3> QED
        BY <1>2, <2>1, <3>2 DEF ReportInv, FuturesApart
    <2>2. CASE task' # task
      <3>1. PICK t \in transactions : \E c \in Clusters \ transaction_updatings[t] :
              /\ Waiting(StartUpdate(t, c))
              /\ task' = [task EXCEPT ![t] = [task[t] EXCEPT ![c] = "queued"]]
        BY <1>1, <2>2, StartUpdateStep
      <3>2. PICK c \in Clusters \ transaction_updatings[t] :
              /\ Waiting(StartUpdate(t, c))
              /\ task' = [task EXCEPT ![t] = [task[t] EXCEPT ![c] = "queued"]]
        BY <3>1
      <3>3. t \in Transactions /\ status[t] = "submitted"
        BY <1>1 DEF TypeOK, OrderInv, HeldWhileSubmitted
      <3>4. /\ task'[t][c] = "queued"
            /\ \A u \in Transactions, d \in Clusters :
                 u # t \/ d # c => task'[u][d] = task[u][d]
        BY <1>1, <3>2, <3>3 DEF TypeOK
      <3>5. task[t][c] = "idle"
        BY <3>2, <3>3 DEF LifeInv, Accepted
      <3>6. Life(t, c)
        BY <3>3 DEF ReportInv, Lives
      <3>7. c \in targets[t] /\ ~Unreported(t, c) /\ ~FutureSent(t, c) /\ HasFuture(t, c)
            /\ ~HasNow(t, c) /\ ~NowSent(t, c) /\ ~FinishSent(t, c)
        BY <3>2, <3>5, <3>6 DEF Life, Late
      <3>8. /\ FutureSent(t, c)' <=> FutureSent(t, c)
            /\ NowSent(t, c)' <=> NowSent(t, c)
            /\ FinishSent(t, c)' <=> FinishSent(t, c)
        BY <1>2, SamePipeViews
      <3>9. /\ HasFuture(t, c)' <=> HasFuture(t, c)
            /\ HasNow(t, c)' <=> HasNow(t, c)
        BY <1>2, SameDequeViews
      <3>10. Life(t, c)'
        BY <1>2, <1>7, <3>3, <3>4, <3>7, <3>8, <3>9 DEF Life, Late
      <3>11. Lives'
        <4>1. ASSUME NEW u \in Transactions, NEW d \in Clusters, u # t \/ d # c
              PROVE  Life(u, d)'
          <5>1. SameLife(u, d)
            BY <1>8, <3>4, <4>1
          <5> QED
            BY <1>2, <5>1, SameLifeKept DEF ReportInv, Lives
        <4> QED
          BY <3>10, <4>1 DEF Lives
      <3>12. ClosedOver'
        <4> SUFFICES ASSUME NEW u \in Transactions,
                            status'[u] = "done" \/ Waiting(Finalize(u))'
                     PROVE  Over(u)'
          BY DEF ClosedOver
        <4>1. Over(u)
          BY <1>2, <1>6 DEF ReportInv, ClosedOver
        <4>2. u # t
          BY <3>5, <3>7, <4>1 DEF Over
        <4> QED
          BY <1>8, <3>4, <4>1, <4>2, SameOver
      <3>13. FuturesApart'
        BY <1>2, <3>3, <3>4, <3>5 DEF ReportInv, FuturesApart
      <3> QED
        BY <3>11, <3>12, <3>13
    <2> QED
      BY <2>1, <2>2
  <1>10. TargetsOpen'
    BY <1>2 DEF ReportInv, TargetsOpen
  <1>11. PipeReported' /\ ReportsKnown'
    BY <1>2, SameKnown
  <1>12. ProposalsFirst'
    BY <1>1, <1>2, ProposalsPop DEF ReportInv
  <1> QED
    BY <1>9, <1>10, <1>11, <1>12 DEF ReportInv

\* HandleFinalize: what is proposed for the end of a transaction is over.
LEMMA FinalizeReports ==
    ASSUME OrderInv, LifeInv, ReportInv, HandleFinalize, UNCHANGED plannerVars
    PROVE  ReportInv'
  <1>1. TypeOK /\ Receive("Finalize")
    BY DEF OrderInv, HandleFinalize
  <1>2. /\ UNCHANGED <<manager, transaction_states, futures, targets, task>>
        /\ executor_messages # <<>> /\ executor_messages' = Tail(executor_messages)
    BY <1>1, FinalizeStep DEF Receive, plannerVars
  <1>3. PICK m \in ExecutorMessage : m = Head(executor_messages) /\ m.type = "Finalize"
    BY <1>1, ExecutorHead
  <1>4. PICK s \in Transactions : m = Finalize(s)
    BY <1>3, ProposalFields
  <1>5. \A x : Waiting(x) <=> Waiting(x)' \/ x = Finalize(s)
    BY <1>1, <1>2, <1>3, <1>4, WaitingPop
  <1>6. \A t \in Transactions :
          /\ Waiting(Execute(t))' <=> Waiting(Execute(t))
          /\ Waiting(Finalize(t))' => Waiting(Finalize(t))
          /\ \A c \in Clusters : Waiting(StartUpdate(t, c))' <=> Waiting(StartUpdate(t, c))
    BY <1>5, UsersDiffer, ProposalsDiffer
  <1>7. ProposalsFirst' /\ \A c : ~Waiting(StartUpdate(s, c))'
    BY <1>1, <1>2, <1>3, <1>4, ProposalsPop DEF ReportInv
  <1>8. TargetsOpen' /\ FuturesApart'
    <2>1. FuturesApart'
      BY <1>2 DEF ReportInv, FuturesApart
    <2>2. \A t \in Transactions : status'[t] \in {"none", "open"} => status'[t] = status[t]
      BY <1>1, FinalizeStep DEF TypeOK
    <2> QED
      BY <1>2, <2>1, <2>2 DEF ReportInv, TargetsOpen
  <1>9. CASE UNCHANGED <<planner_messages, status, transactions, transaction_updatings>>
    <2>1. Pipe' = Pipe
      BY <1>2, <1>9 DEF Pipe
    <2>2. \A t \in Transactions, c \in Clusters : SameLife(t, c)
      BY <1>2, <1>6, <2>1, SameElsewhere
    <2>3. Lives' /\ ClosedOver'
      BY <1>6, <1>9, <2>2, SameLives
    <2>4. PipeReported' /\ ReportsKnown'
      BY <1>2, <2>1, SameKnown
    <2> QED
      BY <1>7, <1>8, <2>3, <2>4 DEF ReportInv
  <1>10. CASE ~UNCHANGED <<planner_messages, status, transactions, transaction_updatings>>
    <2>1. PICK t \in transactions :
            /\ Waiting(Finalize(t))
            /\ Finalize(t) = Head(executor_messages)
            /\ status' = [status EXCEPT ![t] = "done"]
            /\ transactions' = transactions \ {t}
            /\ PushPlanner(Finish(t))
      BY <1>1, <1>10, FinalizeStep
    <2>2. t = s
      BY <1>3, <1>4, <2>1, ProposalsDiffer
    <2>3. /\ Finish(s) \in PlannerMessage /\ Finish(s).type = "Finish"
          /\ \A u : Finish(s) \notin UpdatesOf(u) /\ Finish(s) # Start(u)
      BY MessageTypes DEF Finish, Start, UpdatesOf, UpdateMessage
    <2>4. Pipe' = Append(Pipe, Finish(s))
      BY <1>1, <1>2, <2>1, <2>2, <2>3, PipePush
    <2>5. PipeReported'
      BY <1>1, <2>3, <2>4, ReportedPush DEF ReportInv
    <2>6. ASSUME NEW u \in Transactions
          PROVE  /\ Reports(u)' <=> Reports(u)
                 /\ Starting(u) => Starting(u)'
                 /\ InDeque(u)' <=> InDeque(u)
                 /\ \A c \in Clusters : SameLife(u, c)
      <3>1. /\ Reports(u)' <=> Reports(u)
            /\ Starting(u) => Starting(u)'
            /\ \A c : /\ NowSent(u, c)' <=> NowSent(u, c)
                      /\ FutureSent(u, c)' <=> FutureSent(u, c)
                      /\ FinishSent(u, c)' <=> FinishSent(u, c)
        BY <1>1, <2>3, <2>4, PipePushViews
      <3>2. /\ InDeque(u)' <=> InDeque(u)
            /\ \A c : /\ HasFuture(u, c)' <=> HasFuture(u, c)
                      /\ HasNow(u, c)' <=> HasNow(u, c)
        BY <1>2, SameDequeViews
      <3>3. \A c : Unreported(u, c)' <=> Unreported(u, c)
        BY <1>2, <1>6 DEF Unreported
      <3> QED
        BY <1>2, <1>6, <3>1, <3>2, <3>3 DEF SameLife
    <2>7. ReportsKnown'
      BY <2>6 DEF ReportInv, ReportsKnown
    <2>8. ASSUME NEW u \in Transactions, NEW c \in Clusters
          PROVE  Life(u, c)'
      <3>1. Waiting(StartUpdate(u, c))' /\ u \in transactions => u \in transactions'
        BY <1>7, <2>1, <2>2
      <3> QED
        BY <2>6, <3>1, SameLifeKept DEF ReportInv, Lives
    <2>9. ASSUME NEW u \in Transactions, status'[u] = "done" \/ Waiting(Finalize(u))'
          PROVE  Over(u)'
      <3>1. status[u] = "done" \/ Waiting(Finalize(u))
        BY <1>1, <1>6, <2>1, <2>2, <2>9 DEF TypeOK
      <3>2. Over(u)
        BY <3>1 DEF ReportInv, ClosedOver
      <3> QED
        BY <2>6, <3>2, SameOver
    <2> QED
      BY <1>7, <1>8, <2>5, <2>7, <2>8, <2>9 DEF ReportInv, Lives, ClosedOver
  <1> QED
    BY <1>9, <1>10

\* A transaction with a task was registered with the Executor.
LEMMA TaskHeld ==
    ASSUME OrderInv, LifeInv, NEW t \in Transactions, NEW c \in Clusters, task[t][c] # "idle"
    PROVE  status[t] \in {"submitted", "done"} /\ ~Waiting(Execute(t))
  <1>1. t \in transactions \/ status[t] = "done"
    BY DEF LifeInv, Lifetimes, Lifetime, Proposed
  <1>2. status[t] \in {"submitted", "done"}
    BY <1>1 DEF OrderInv, HeldWhileSubmitted
  <1>3. Execute(t).type = "Execute" /\ Execute(t).id = t
    BY DEF Execute
  <1> QED
    BY <1>1, <1>2, <1>3 DEF OrderInv, HeldWhileSubmitted, Waiting, Has

\* A step of a task that neither the pipe nor the transaction shows.
LEMMA QuietTask ==
    ASSUME OrderInv, ReportInv, NEW t \in Transactions, NEW c \in Clusters, NEW pc,
           SetTask(t, c, pc),
           UNCHANGED <<executor_messages, planner_messages, manager, transaction_states,
                       status, transactions, targets, futures>>,
           task[t][c] \notin {"idle", "registered", "finished"}, pc \notin {"idle", "finished"},
           task[t][c] \in Late <=> pc \in Late
    PROVE  ReportInv'
  <1>1. TypeOK /\ Pipe' = Pipe
    BY DEF OrderInv, Pipe
  <1>2. /\ task'[t][c] = pc
        /\ \A u \in Transactions, d \in Clusters : u # t \/ d # c => task'[u][d] = task[u][d]
    BY <1>1, OneTask
  <1>3. \A x : Waiting(x)' <=> Waiting(x)
    BY SameWaiting
  <1>4. ASSUME NEW u \in Transactions, NEW d \in Clusters
        PROVE  /\ Unreported(u, d)' <=> Unreported(u, d)
               /\ FutureSent(u, d)' <=> FutureSent(u, d)
               /\ NowSent(u, d)' <=> NowSent(u, d)
               /\ FinishSent(u, d)' <=> FinishSent(u, d)
               /\ HasFuture(u, d)' <=> HasFuture(u, d)
               /\ HasNow(u, d)' <=> HasNow(u, d)
    <2>1. Unreported(u, d)' <=> Unreported(u, d)
      BY <1>3 DEF Unreported
    <2>2. /\ FutureSent(u, d)' <=> FutureSent(u, d)
          /\ NowSent(u, d)' <=> NowSent(u, d)
          /\ FinishSent(u, d)' <=> FinishSent(u, d)
      BY <1>1, SamePipeViews
    <2>3. /\ HasFuture(u, d)' <=> HasFuture(u, d)
          /\ HasNow(u, d)' <=> HasNow(u, d)
      BY SameDequeViews
    <2> QED
      BY <2>1, <2>2, <2>3
  <1>5. ASSUME NEW u \in Transactions, NEW d \in Clusters, u # t \/ d # c
        PROVE  SameLife(u, d)
    BY <1>2, <1>3, <1>4, <1>5 DEF SameLife
  <1>6. ASSUME NEW u \in Transactions, NEW d \in Clusters
        PROVE  Life(u, d)'
    <2>1. Life(u, d)
      BY DEF ReportInv, Lives
    <2>2. CASE u # t \/ d # c
      BY <1>3, <1>5, <2>1, <2>2, SameLifeKept
    <2>3. CASE u = t /\ d = c
      BY <1>2, <1>3, <1>4, <2>1, <2>3 DEF Life
    <2> QED
      BY <2>2, <2>3
  <1>7. ClosedOver'
    <2> SUFFICES ASSUME NEW u \in Transactions, status'[u] = "done" \/ Waiting(Finalize(u))'
                 PROVE  Over(u)'
      BY DEF ClosedOver
    <2>1. Over(u)
      BY <1>3 DEF ReportInv, ClosedOver
    <2>2. u # t
      BY <2>1 DEF Over
    <2> QED
      BY <1>5, <2>1, <2>2, SameOver
  <1>8. FuturesApart'
    BY <1>2 DEF ReportInv, FuturesApart
  <1>9. TargetsOpen' /\ ProposalsFirst'
    BY DEF ReportInv, TargetsOpen, ProposalsFirst
  <1>10. PipeReported' /\ ReportsKnown'
    BY <1>1, SameKnown
  <1> QED
    BY <1>6, <1>7, <1>8, <1>9, <1>10 DEF ReportInv, Lives

\* What a report adds to the pipe.
LEMMA ReportPushed ==
    ASSUME OrderInv, ReportInv, NEW t \in Transactions, NEW now \in SUBSET Clusters,
           NEW future \in SUBSET Clusters, NEW finish \in SUBSET Clusters,
           PushPlanner(Update(t, now, future, finish)),
           UNCHANGED <<manager, transaction_states>>,
           now \cap finish = {}, InDeque(t),
           \A c \in Clusters :
             /\ c \in future => ~FutureSent(t, c)
             /\ c \in now => ~NowSent(t, c) /\ ~FinishSent(t, c)
             /\ c \in finish => ~FinishSent(t, c)
    PROVE  /\ PipeReported' /\ ReportsKnown'
           /\ \A u \in Transactions, d \in Clusters :
                /\ NowSent(u, d)' <=> NowSent(u, d) \/ (u = t /\ d \in now)
                /\ FutureSent(u, d)' <=> FutureSent(u, d) \/ (u = t /\ d \in future)
                /\ FinishSent(u, d)' <=> FinishSent(u, d) \/ (u = t /\ d \in finish)
                /\ HasFuture(u, d)' <=> HasFuture(u, d)
                /\ HasNow(u, d)' <=> HasNow(u, d)
  <1>1. TypeOK
    BY DEF OrderInv
  <1>2. PICK r \in PlannerMessage :
          /\ r.type = "Update" /\ r.id = t
          /\ r.now = now /\ r.future = future /\ r.finish = finish
          /\ r \in UpdatesOf(t) /\ \A u : (u # t => r \notin UpdatesOf(u)) /\ r # Start(u)
          /\ Pipe' = Append(Pipe, r)
    <2> DEFINE x == Update(t, now, future, finish)
    <2>1. x \in PlannerMessage
      BY MessageTypes
    <2>2. Pipe' = Append(Pipe, x)
      BY <1>1, <2>1, PipePush
    <2>3. x.type = "Update" /\ x.id = t /\ x.now = now /\ x.future = future /\ x.finish = finish
      BY DEF Update
    <2>4. x \in UpdatesOf(t) /\ \A u : (u # t => x \notin UpdatesOf(u)) /\ x # Start(u)
      BY <2>1, <2>3 DEF PlannerMessage, StartMessage, FinishMessage, UpdatesOf, Start
    <2> HIDE DEF x
    <2> QED
      BY <2>1, <2>2, <2>3, <2>4
  <1>3. \A u :
          /\ Reports(u)' <=> Reports(u) \/ u = t
          /\ Starting(u)' <=> Starting(u)
          /\ \A c : /\ NowSent(u, c)' <=> NowSent(u, c) \/ (u = t /\ c \in now)
                    /\ FutureSent(u, c)' <=> FutureSent(u, c) \/ (u = t /\ c \in future)
                    /\ FinishSent(u, c)' <=> FinishSent(u, c) \/ (u = t /\ c \in finish)
    BY <1>1, <1>2, PipePushViews
  <1>4. \A u :
          /\ InDeque(u)' <=> InDeque(u)
          /\ \A c : /\ HasFuture(u, c)' <=> HasFuture(u, c)
                    /\ HasNow(u, c)' <=> HasNow(u, c)
    BY SameDequeViews
  <1>5. PipeReported'
    BY <1>1, <1>2, ReportedPush DEF ReportInv
  <1>6. ReportsKnown'
    BY <1>3, <1>4 DEF ReportInv, ReportsKnown
  <1> QED
    BY <1>3, <1>4, <1>5, <1>6

\* A cluster with an unfinished task is in the deque.
LEMMA TaskKnown ==
    ASSUME ReportInv, NEW t \in Transactions, NEW c \in Clusters,
           task[t][c] \notin {"idle", "finished"}
    PROVE  /\ c \in targets[t] /\ ~Unreported(t, c) /\ ~FutureSent(t, c) /\ ~FinishSent(t, c)
           /\ HasFuture(t, c) \/ HasNow(t, c)
           /\ InDeque(t) /\ ~Over(t)
           /\ task[t][c] \notin Late => HasFuture(t, c) /\ ~HasNow(t, c) /\ ~NowSent(t, c)
  <1>1. Life(t, c)
    BY DEF ReportInv, Lives
  <1>2. /\ c \in targets[t] /\ ~Unreported(t, c) /\ ~FutureSent(t, c) /\ ~FinishSent(t, c)
        /\ HasFuture(t, c) \/ HasNow(t, c)
        /\ task[t][c] \notin Late => HasFuture(t, c) /\ ~HasNow(t, c) /\ ~NowSent(t, c)
    BY <1>1 DEF Life
  <1>3. InDeque(t)
    BY <1>2, AbsentViews
  <1>4. ~Over(t)
    BY DEF Over
  <1> QED
    BY <1>2, <1>3, <1>4

\* What a step of a task of t leaves of ClosedOver.
LEMMA ClosedKept ==
    ASSUME ReportInv, NEW t \in Transactions, ~Over(t),
           UNCHANGED <<status, executor_messages>>,
           \A u \in Transactions : u # t => \A c \in Clusters : SameLife(u, c)
    PROVE  ClosedOver'
  <1> SUFFICES ASSUME NEW u \in Transactions, status'[u] = "done" \/ Waiting(Finalize(u))'
               PROVE  Over(u)'
    BY DEF ClosedOver
  <1>1. Over(u)
    BY SameWaiting DEF ReportInv, ClosedOver
  <1> QED
    BY <1>1, SameOver

\* The report that the update of a cluster starts.
LEMMA ReportNowReports ==
    ASSUME OrderInv, LifeInv, ReportInv, NEW t \in Transactions, NEW c \in Clusters,
           ReportNow(t, c), UNCHANGED plannerVars
    PROVE  ReportInv'
  <1>1. TypeOK
    BY DEF OrderInv
  <1>2. /\ UNCHANGED <<executor_messages, manager, transaction_states, futures, targets, status,
                       transactions>>
        /\ task[t][c] = "taken" /\ SetTask(t, c, "reported")
        /\ PushPlanner(Update(t, {c}, {}, {}))
    BY DEF ReportNow, plannerVars, userVars, acceptedVars
  <1>3. /\ task'[t][c] = "reported"
        /\ \A u \in Transactions, d \in Clusters : u # t \/ d # c => task'[u][d] = task[u][d]
    BY <1>1, <1>2, OneTask
  <1>4. /\ HasFuture(t, c) /\ ~NowSent(t, c) /\ ~FinishSent(t, c) /\ InDeque(t) /\ ~Over(t)
    BY <1>2, TaskKnown DEF Late
  <1>5. {c} \in SUBSET Clusters /\ {} \in SUBSET Clusters
    OBVIOUS
  <1>6. /\ PipeReported' /\ ReportsKnown'
        /\ \A u \in Transactions, d \in Clusters :
             /\ NowSent(u, d)' <=> NowSent(u, d) \/ (u = t /\ d = c)
             /\ FutureSent(u, d)' <=> FutureSent(u, d)
             /\ FinishSent(u, d)' <=> FinishSent(u, d)
             /\ HasFuture(u, d)' <=> HasFuture(u, d)
             /\ HasNow(u, d)' <=> HasNow(u, d)
    <2>1. /\ {c} \cap {} = {}
          /\ \A d \in Clusters :
               /\ d \in {} => ~FutureSent(t, d)
               /\ d \in {c} => ~NowSent(t, d) /\ ~FinishSent(t, d)
               /\ d \in {} => ~FinishSent(t, d)
      BY <1>4
    <2>2. /\ PipeReported' /\ ReportsKnown'
          /\ \A u \in Transactions, d \in Clusters :
               /\ NowSent(u, d)' <=> NowSent(u, d) \/ (u = t /\ d \in {c})
               /\ FutureSent(u, d)' <=> FutureSent(u, d) \/ (u = t /\ d \in {})
               /\ FinishSent(u, d)' <=> FinishSent(u, d) \/ (u = t /\ d \in {})
               /\ HasFuture(u, d)' <=> HasFuture(u, d)
               /\ HasNow(u, d)' <=> HasNow(u, d)
      BY <1>2, <1>4, <1>5, <2>1, ReportPushed
    <2> QED
      BY <2>2
  <1>7. \A x : Waiting(x)' <=> Waiting(x)
    BY <1>2, SameWaiting
  <1>8. \A u \in Transactions, d \in Clusters : Unreported(u, d)' <=> Unreported(u, d)
    BY <1>2, <1>7 DEF Unreported
  <1>9. ASSUME NEW u \in Transactions, NEW d \in Clusters, u # t \/ d # c
        PROVE  SameLife(u, d)
    BY <1>2, <1>3, <1>6, <1>7, <1>8, <1>9 DEF SameLife
  <1>10. ASSUME NEW u \in Transactions, NEW d \in Clusters
         PROVE  Life(u, d)'
    <2>1. Life(u, d)
      BY DEF ReportInv, Lives
    <2>2. CASE u # t \/ d # c
      BY <1>2, <1>9, <2>1, <2>2, SameLifeKept
    <2>3. CASE u = t /\ d = c
      BY <1>2, <1>3, <1>4, <1>6, <1>7, <1>8, <2>1, <2>3 DEF Life, Late
    <2> QED
      BY <2>2, <2>3
  <1>11. ClosedOver'
    BY <1>2, <1>4, <1>9, ClosedKept
  <1>12. FuturesApart'
    BY <1>2, <1>3 DEF ReportInv, FuturesApart
  <1>13. TargetsOpen' /\ ProposalsFirst'
    BY <1>2 DEF ReportInv, TargetsOpen, ProposalsFirst
  <1> QED
    BY <1>6, <1>10, <1>11, <1>12, <1>13 DEF ReportInv, Lives

\* The result of an update: clusters that are new in the transaction are unreported.
LEMMA ResultReports ==
    ASSUME OrderInv, LifeInv, ReportInv, NEW t \in Transactions, NEW c \in Clusters,
           RegisterExecutionResult(t, c), UNCHANGED plannerVars
    PROVE  ReportInv'
  <1>1. TypeOK
    BY DEF OrderInv
  <1>2. /\ UNCHANGED <<executor_messages, planner_messages, manager, transaction_states, status,
                       transactions>>
        /\ task[t][c] = "executing" /\ SetTask(t, c, "registered")
    BY DEF RegisterExecutionResult, plannerVars, userVars, acceptedVars
  <1>3. PICK result \in SUBSET Triggered(c) :
          /\ futures' = [futures EXCEPT ![t] = [futures[t] EXCEPT ![c] = result \ targets[t]]]
          /\ targets' = [targets EXCEPT ![t] = targets[t] \cup result]
    BY DEF RegisterExecutionResult
  <1>4. result \subseteq Clusters /\ c \notin result
    BY <1>3 DEF Triggered
  <1>5. /\ task'[t][c] = "registered"
        /\ \A u \in Transactions, d \in Clusters : u # t \/ d # c => task'[u][d] = task[u][d]
    BY <1>1, <1>2, OneTask
  <1>6. /\ \A u \in Transactions :
             targets'[u] = IF u = t THEN targets[t] \cup result ELSE targets[u]
        /\ \A u \in Transactions, d \in Clusters :
             futures'[u][d] = IF u = t /\ d = c THEN result \ targets[t] ELSE futures[u][d]
    BY <1>1, <1>3 DEF TypeOK
  <1>7. /\ c \in targets[t] /\ ~Unreported(t, c) /\ ~Over(t)
    BY <1>2, TaskKnown
  <1>8. futures[t][c] = {} /\ status[t] \in {"submitted", "done"} /\ ~Waiting(Execute(t))
    BY <1>2, TaskHeld DEF ReportInv, FuturesApart
  <1>9. \A x : Waiting(x)' <=> Waiting(x)
    BY <1>2, SameWaiting
  <1>10. Pipe' = Pipe
    BY <1>2 DEF Pipe
  <1>11. ASSUME NEW u \in Transactions, NEW d \in Clusters
         PROVE  /\ FutureSent(u, d)' <=> FutureSent(u, d)
                /\ NowSent(u, d)' <=> NowSent(u, d)
                /\ FinishSent(u, d)' <=> FinishSent(u, d)
                /\ HasFuture(u, d)' <=> HasFuture(u, d)
                /\ HasNow(u, d)' <=> HasNow(u, d)
    <2>1. /\ FutureSent(u, d)' <=> FutureSent(u, d)
          /\ NowSent(u, d)' <=> NowSent(u, d)
          /\ FinishSent(u, d)' <=> FinishSent(u, d)
      BY <1>10, SamePipeViews
    <2>2. /\ HasFuture(u, d)' <=> HasFuture(u, d)
          /\ HasNow(u, d)' <=> HasNow(u, d)
      BY <1>2, SameDequeViews
    <2> QED
      BY <2>1, <2>2
  <1>12. \A u \in Transactions, d \in Clusters :
           Unreported(u, d)' <=> Unreported(u, d) \/ (u = t /\ d \in result \ targets[t])
    <2> SUFFICES ASSUME NEW u \in Transactions, NEW d \in Clusters
                 PROVE  Unreported(u, d)' <=>
                          Unreported(u, d) \/ (u = t /\ d \in result \ targets[t])
      OBVIOUS
    <2>1. (\E e \in Clusters : d \in futures'[u][e]) <=>
            (\E e \in Clusters : d \in futures[u][e]) \/ (u = t /\ d \in result \ targets[t])
      BY <1>6, <1>8
    <2>2. Waiting(Execute(u))' /\ d \in targets'[u] <=> Waiting(Execute(u)) /\ d \in targets[u]
      BY <1>6, <1>8, <1>9
    <2> QED
      BY <2>1, <2>2 DEF Unreported
  <1>13. ASSUME NEW u \in Transactions, NEW d \in Clusters,
                u # t \/ (d # c /\ d \notin result \ targets[t])
         PROVE  SameLife(u, d)
    BY <1>5, <1>6, <1>9, <1>11, <1>12, <1>13 DEF SameLife
  <1>14. ASSUME NEW u \in Transactions, NEW d \in Clusters
         PROVE  Life(u, d)'
    <2>1. Life(u, d)
      BY DEF ReportInv, Lives
    <2>2. CASE u # t \/ (d # c /\ d \notin result \ targets[t])
      BY <1>2, <1>13, <2>1, <2>2, SameLifeKept
    <2>3. CASE u = t /\ d = c
      BY <1>2, <1>4, <1>5, <1>6, <1>7, <1>9, <1>11, <1>12, <2>1, <2>3 DEF Life, Late
    <2>4. CASE u = t /\ d # c /\ d \in result \ targets[t]
      BY <1>2, <1>5, <1>6, <1>9, <1>11, <1>12, <2>1, <2>4 DEF Life, Late
    <2> QED
      BY <2>2, <2>3, <2>4
  <1>15. ClosedOver'
    BY <1>2, <1>7, <1>13, ClosedKept
  <1>16. FuturesApart'
    <2>1. \A d \in Clusters : futures[t][d] \subseteq targets[t]
      <3>1. ASSUME NEW d \in Clusters, NEW e \in futures[t][d]
            PROVE  e \in targets[t]
        <4>1. e \in Clusters
          BY <1>1, <3>1 DEF TypeOK
        <4>2. Unreported(t, e) /\ Life(t, e)
          BY <3>1, <4>1 DEF Unreported, ReportInv, Lives
        <4> QED
          BY <4>2 DEF Life
      <3> QED
        BY <3>1
    <2> QED
      BY <1>5, <1>6, <2>1 DEF ReportInv, FuturesApart
  <1>17. TargetsOpen' /\ ProposalsFirst'
    BY <1>2, <1>6, <1>8 DEF ReportInv, TargetsOpen, ProposalsFirst
  <1>18. PipeReported' /\ ReportsKnown'
    BY <1>2, <1>10, SameKnown
  <1> QED
    BY <1>14, <1>15, <1>16, <1>17, <1>18 DEF ReportInv, Lives

\* The last report of a task: its finish and its new futures.
LEMMA ReportFinishReports ==
    ASSUME OrderInv, LifeInv, ReportInv, NEW t \in Transactions, NEW c \in Clusters,
           ReportFinish(t, c), UNCHANGED plannerVars
    PROVE  ReportInv'
  <1>1. TypeOK
    BY DEF OrderInv
  <1>2. /\ UNCHANGED <<executor_messages, manager, transaction_states, targets, status,
                       transactions>>
        /\ task[t][c] = "registered" /\ SetTask(t, c, "finished")
        /\ PushPlanner(Update(t, {}, futures[t][c], {c}))
        /\ futures' = [futures EXCEPT ![t] = [futures[t] EXCEPT ![c] = {}]]
    BY DEF ReportFinish, plannerVars, userVars, acceptedVars
  <1>3. /\ task'[t][c] = "finished"
        /\ \A u \in Transactions, d \in Clusters : u # t \/ d # c => task'[u][d] = task[u][d]
    BY <1>1, <1>2, OneTask
  <1>4. \A u \in Transactions, d \in Clusters :
          futures'[u][d] = IF u = t /\ d = c THEN {} ELSE futures[u][d]
    BY <1>1, <1>2 DEF TypeOK
  <1>5. /\ c \in targets[t] /\ ~Unreported(t, c) /\ ~FinishSent(t, c)
        /\ HasFuture(t, c) \/ HasNow(t, c)
        /\ InDeque(t) /\ ~Over(t) /\ ~Waiting(Execute(t))
    BY <1>2, TaskKnown, TaskHeld
  <1>6. \A d \in futures[t][c] : d \in Clusters /\ d # c /\ Unreported(t, d)
    <2>1. futures[t][c] \subseteq Clusters
      BY <1>1 DEF TypeOK
    <2> QED
      BY <1>5, <2>1 DEF Unreported
  <1>7. /\ {c} \in SUBSET Clusters /\ {} \in SUBSET Clusters
        /\ futures[t][c] \in SUBSET Clusters
    BY <1>1 DEF TypeOK
  <1>8. \A d \in Clusters : d \in futures[t][c] => ~FutureSent(t, d)
    BY <1>6 DEF ReportInv, Lives, Life
  <1>9. /\ PipeReported' /\ ReportsKnown'
        /\ \A u \in Transactions, d \in Clusters :
             /\ NowSent(u, d)' <=> NowSent(u, d)
             /\ FutureSent(u, d)' <=> FutureSent(u, d) \/ (u = t /\ d \in futures[t][c])
             /\ FinishSent(u, d)' <=> FinishSent(u, d) \/ (u = t /\ d = c)
             /\ HasFuture(u, d)' <=> HasFuture(u, d)
             /\ HasNow(u, d)' <=> HasNow(u, d)
    <2>1. /\ {} \cap {c} = {}
          /\ \A d \in Clusters :
               /\ d \in futures[t][c] => ~FutureSent(t, d)
               /\ d \in {} => ~NowSent(t, d) /\ ~FinishSent(t, d)
               /\ d \in {c} => ~FinishSent(t, d)
      BY <1>5, <1>8
    <2>2. /\ PipeReported' /\ ReportsKnown'
          /\ \A u \in Transactions, d \in Clusters :
               /\ NowSent(u, d)' <=> NowSent(u, d) \/ (u = t /\ d \in {})
               /\ FutureSent(u, d)' <=> FutureSent(u, d) \/ (u = t /\ d \in futures[t][c])
               /\ FinishSent(u, d)' <=> FinishSent(u, d) \/ (u = t /\ d \in {c})
               /\ HasFuture(u, d)' <=> HasFuture(u, d)
               /\ HasNow(u, d)' <=> HasNow(u, d)
      <3>1. PICK new \in SUBSET Clusters : new = futures[t][c]
        BY <1>7
      <3>2. PushPlanner(Update(t, {}, new, {c}))
        BY <1>2, <3>1
      <3>3. \A d \in Clusters :
              /\ d \in new => ~FutureSent(t, d)
              /\ d \in {} => ~NowSent(t, d) /\ ~FinishSent(t, d)
              /\ d \in {c} => ~FinishSent(t, d)
        BY <2>1, <3>1
      <3>4. /\ PipeReported' /\ ReportsKnown'
            /\ \A u \in Transactions, d \in Clusters :
                 /\ NowSent(u, d)' <=> NowSent(u, d) \/ (u = t /\ d \in {})
                 /\ FutureSent(u, d)' <=> FutureSent(u, d) \/ (u = t /\ d \in new)
                 /\ FinishSent(u, d)' <=> FinishSent(u, d) \/ (u = t /\ d \in {c})
                 /\ HasFuture(u, d)' <=> HasFuture(u, d)
                 /\ HasNow(u, d)' <=> HasNow(u, d)
        BY <1>2, <1>5, <1>7, <2>1, <3>2, <3>3, ReportPushed
      <3> QED
        BY <3>1, <3>4
    <2> QED
      BY <2>2
  <1>10. \A x : Waiting(x)' <=> Waiting(x)
    BY <1>2, SameWaiting
  <1>11. \A u \in Transactions, d \in Clusters :
           Unreported(u, d)' <=> Unreported(u, d) /\ ~(u = t /\ d \in futures[t][c])
    <2> SUFFICES ASSUME NEW u \in Transactions, NEW d \in Clusters
                 PROVE  Unreported(u, d)' <=>
                          Unreported(u, d) /\ ~(u = t /\ d \in futures[t][c])
      OBVIOUS
    <2>1. (\E e \in Clusters : d \in futures'[u][e]) <=>
            (\E e \in Clusters : d \in futures[u][e]) /\ ~(u = t /\ d \in futures[t][c])
      <3>1. CASE u # t
        BY <1>4, <3>1
      <3>2. CASE u = t
        BY <1>4, <3>2 DEF ReportInv, FuturesApart
      <3> QED
        BY <3>1, <3>2
    <2> QED
      BY <1>2, <1>5, <1>10, <2>1 DEF Unreported
  <1>12. ASSUME NEW u \in Transactions, NEW d \in Clusters,
                u # t \/ (d # c /\ d \notin futures[t][c])
         PROVE  SameLife(u, d)
    BY <1>2, <1>3, <1>9, <1>10, <1>11, <1>12 DEF SameLife
  <1>13. ASSUME NEW u \in Transactions, NEW d \in Clusters
         PROVE  Life(u, d)'
    <2>1. Life(u, d)
      BY DEF ReportInv, Lives
    <2>2. CASE u # t \/ (d # c /\ d \notin futures[t][c])
      BY <1>2, <1>12, <2>1, <2>2, SameLifeKept
    <2>3. CASE u = t /\ d = c
      <3>1. c \notin futures[t][c]
        BY <1>6
      <3> QED
        BY <1>2, <1>3, <1>5, <1>9, <1>10, <1>11, <2>1, <2>3, <3>1 DEF Life, Late
    <2>4. CASE u = t /\ d # c /\ d \in futures[t][c]
      BY <1>2, <1>3, <1>6, <1>9, <1>10, <1>11, <2>1, <2>4 DEF Life
    <2> QED
      BY <2>2, <2>3, <2>4
  <1>14. ClosedOver'
    BY <1>2, <1>5, <1>12, ClosedKept
  <1>15. FuturesApart'
    BY <1>2, <1>3, <1>4 DEF ReportInv, FuturesApart
  <1>16. TargetsOpen' /\ ProposalsFirst'
    BY <1>2 DEF ReportInv, TargetsOpen, ProposalsFirst
  <1> QED
    BY <1>9, <1>13, <1>14, <1>15, <1>16 DEF ReportInv, Lives

\* The workers.
LEMMA WorkerReports ==
    ASSUME OrderInv, LifeInv, ReportInv, WorkerStep, UNCHANGED plannerVars
    PROVE  ReportInv'
  <1>1. TypeOK
    BY DEF OrderInv
  <1>2. CASE TakeTask
    <2>1. PICK t \in Transactions, c \in Clusters :
            task[t][c] = "queued" /\ SetTask(t, c, "taken")
      BY <1>1, <1>2, TakeStep DEF LifeInv
    <2>2. UNCHANGED <<executor_messages, planner_messages, manager, transaction_states,
                      status, transactions, targets, futures>>
      BY <1>2 DEF TakeTask, plannerVars, userVars, acceptedVars
    <2> QED
      BY <2>1, <2>2, QuietTask DEF Late
  <1>3. ASSUME NEW t \in Transactions, NEW c \in Clusters, GenerateSubTransaction(t, c)
        PROVE  ReportInv'
    <2>1. /\ UNCHANGED <<executor_messages, planner_messages, manager, transaction_states,
                         status, transactions, futures>>
          /\ task[t][c] = "reported" /\ SetTask(t, c, "executing")
          /\ targets' = [targets EXCEPT ![t] = targets[t] \cup {c}]
      BY <1>3 DEF GenerateSubTransaction, plannerVars, userVars, acceptedVars
    <2>2. c \in targets[t]
      BY <2>1, TaskKnown
    <2>3. targets[t] \cup {c} = targets[t]
      BY <2>2
    <2>4. targets' = targets
      BY <1>1, <2>1, <2>3 DEF TypeOK
    <2> QED
      BY <2>1, <2>4, QuietTask DEF Late
  <1> QED
    BY <1>2, <1>3, ReportNowReports, ResultReports, ReportFinishReports DEF WorkerStep, TaskStep

\* A transaction of which the deque holds no cluster, and whose first report is
\* handled, has no report in the pipe.
LEMMA NoReports ==
    ASSUME TypeOK, ReportInv, NEW t \in Transactions, ~InitialSent(t),
           \A c \in Clusters : ~HasFuture(t, c) /\ ~HasNow(t, c)
    PROVE  ~Reports(t)
  <1> SUFFICES ASSUME NEW i \in 1 .. Len(Pipe), Pipe[i] \in UpdatesOf(t)
               PROVE  FALSE
    BY DEF Reports, Has
  <1>1. ~Initial(Pipe[i])
    BY DEF InitialSent, Has
  <1>2. Pipe[i].now \subseteq Clusters /\ Pipe[i].finish \subseteq Clusters
    BY DEF UpdatesOf, UpdateMessage
  <1>3. PICK c \in Clusters : c \in Pipe[i].now \/ c \in Pipe[i].finish
    BY <1>1, <1>2 DEF Initial
  <1>4. NowSent(t, c) \/ FinishSent(t, c)
    BY <1>3 DEF NowSent, FinishSent, Has
  <1> QED
    BY <1>4 DEF ReportInv, Lives, Life

\* A Start message reaches the PlannerManager.
LEMMA StartReports ==
    ASSUME OrderInv, OrderInv', LifeInv, ReportInv, ManagerStart, UNCHANGED executorVars
    PROVE  ReportInv'
  <1>1. TypeOK /\ Deque(transaction_states) /\ Deque(transaction_states')
    BY Deques DEF OrderInv
  <1>2. /\ UNCHANGED <<executor_messages, task, futures, targets, status, transactions>>
        /\ Pipe # <<>> /\ Pipe' = Tail(Pipe)
    BY StartStep DEF executorVars, userVars, taskVars, acceptedVars
  <1>3. PICK s \in Transactions :
          /\ Start(s) = Head(Pipe)
          /\ transaction_states' = Append(transaction_states, NewTransactionState(s))
    BY StartStep
  <1>4. Start(s) \in PlannerMessage /\ \A u : Start(s) \notin UpdatesOf(u)
    BY MessageTypes DEF Start, UpdatesOf, UpdateMessage
  <1>5. \A x : Waiting(x)' <=> Waiting(x)
    BY <1>2, SameWaiting
  <1>6. ASSUME NEW u \in Transactions
        PROVE  /\ Reports(u)' <=> Reports(u)
               /\ InDeque(u) \/ Starting(u) => InDeque(u)' \/ Starting(u)'
               /\ \A c \in Clusters : SameLife(u, c)
    <2>1. /\ Reports(u)' <=> Reports(u)
          /\ Starting(u) => Starting(u)' \/ Start(s) = Start(u)
          /\ \A c : /\ NowSent(u, c)' <=> NowSent(u, c)
                    /\ FutureSent(u, c)' <=> FutureSent(u, c)
                    /\ FinishSent(u, c)' <=> FinishSent(u, c)
      BY <1>1, <1>2, <1>3, <1>4, PipePopViews
    <2>2. Start(s) = Start(u) => s = u
      BY DEF Start
    <2>3. /\ InDeque(u)' <=> InDeque(u) \/ u = s
          /\ \A c : /\ HasFuture(u, c)' <=> HasFuture(u, c)
                    /\ HasNow(u, c)' <=> HasNow(u, c)
      BY <1>1, <1>3, DequePush
    <2>4. \A c : Unreported(u, c)' <=> Unreported(u, c)
      BY <1>2, <1>5 DEF Unreported
    <2> QED
      BY <1>2, <1>5, <2>1, <2>2, <2>3, <2>4 DEF SameLife
  <1>7. Lives' /\ ClosedOver'
    BY <1>2, <1>5, <1>6, SameLives
  <1>8. PipeReported'
    BY <1>1, <1>2, <1>3, <1>4, ReportedPop DEF ReportInv
  <1>9. ReportsKnown'
    BY <1>6 DEF ReportInv, ReportsKnown
  <1>10. TargetsOpen' /\ FuturesApart' /\ ProposalsFirst'
    BY <1>2 DEF ReportInv, TargetsOpen, FuturesApart, ProposalsFirst
  <1> QED
    BY <1>7, <1>8, <1>9, <1>10 DEF ReportInv

\* ManagerStop handles no message.
LEMMA StopReports ==
    ASSUME OrderInv, LifeInv, ReportInv, ManagerStop, UNCHANGED executorVars
    PROVE  ReportInv'
  <1>1. TypeOK
    BY DEF OrderInv
  <1>2. /\ UNCHANGED <<executor_messages, transaction_states, task, futures, targets, status,
                       transactions>>
        /\ Pipe' = Pipe
    BY <1>1, PipeStop DEF ManagerStop, executorVars, userVars, taskVars, acceptedVars
  <1>3. \A x : Waiting(x)' <=> Waiting(x)
    BY <1>2, SameWaiting
  <1>4. \A u \in Transactions, c \in Clusters : SameLife(u, c)
    BY <1>2, <1>3, SameElsewhere
  <1>5. Lives' /\ ClosedOver'
    BY <1>2, <1>3, <1>4, SameLives
  <1>6. PipeReported' /\ ReportsKnown'
    BY <1>2, SameKnown
  <1>7. TargetsOpen' /\ FuturesApart' /\ ProposalsFirst'
    BY <1>2 DEF ReportInv, TargetsOpen, FuturesApart, ProposalsFirst
  <1> QED
    BY <1>5, <1>6, <1>7 DEF ReportInv

\* An Update message reaches the PlannerManager: what it says of a cluster moves
\* the cluster one step on.
LEMMA RefreshUpdateReports ==
    ASSUME OrderInv, OrderInv', LifeInv, ReportInv, ManagerRefresh, UNCHANGED executorVars,
           NEW m \in PlannerMessage, m = Head(Pipe), m.type = "Update"
    PROVE  ReportInv'
  <1>1. TypeOK /\ Deque(transaction_states) /\ Deque(transaction_states')
    BY Deques DEF OrderInv
  <1>2. /\ UNCHANGED <<executor_messages, task, futures, targets, status, transactions>>
        /\ Pipe # <<>> /\ Pipe' = Tail(Pipe)
        /\ transaction_states' = HandleUpdate(transaction_states, m)
    BY <1>1, PipePop DEF HandleMessage, executorVars, userVars, taskVars, acceptedVars
  <1>3. PICK t \in Transactions : t = m.id
    BY MessageFields
  <1>4. /\ m \in UpdatesOf(t)
        /\ \A u : (u # t => m \notin UpdatesOf(u)) /\ m # Start(u)
    BY <1>3 DEF PlannerMessage, StartMessage, FinishMessage, UpdatesOf, Start
  <1>5. \A x : Waiting(x)' <=> Waiting(x)
    BY <1>2, SameWaiting
  <1>6. \A u : /\ Reports(u) <=> Reports(u)' \/ u = t
               /\ Starting(u) <=> Starting(u)'
               /\ \A c : /\ NowSent(u, c) <=> NowSent(u, c)' \/ (u = t /\ c \in m.now)
                         /\ FutureSent(u, c) <=> FutureSent(u, c)' \/ (u = t /\ c \in m.future)
                         /\ FinishSent(u, c) <=> FinishSent(u, c)' \/ (u = t /\ c \in m.finish)
    BY <1>1, <1>2, <1>4, PipePopViews
  <1>7. /\ PipeReported'
        /\ ~Starting(t)'
        /\ m.now \cap m.finish = {}
        /\ \A c : /\ c \in m.future => ~FutureSent(t, c)'
                  /\ c \in m.now => ~NowSent(t, c)'
                  /\ c \in m.finish => ~FinishSent(t, c)' /\ ~NowSent(t, c)'
    BY <1>1, <1>2, <1>3, ReportedPop DEF ReportInv
  <1>8. InDeque(t)
    BY <1>6, <1>7 DEF ReportInv, ReportsKnown
  <1>9. /\ \A u : InDeque(u)' <=> InDeque(u)
        /\ \A u : u # t => \A c : /\ HasFuture(u, c)' <=> HasFuture(u, c)
                                  /\ HasNow(u, c)' <=> HasNow(u, c)
        /\ \A c : /\ HasFuture(t, c)' <=> (HasFuture(t, c) \/ c \in m.future) /\ c \notin m.now
                  /\ HasNow(t, c)' <=> (HasNow(t, c) \/ c \in m.now) /\ c \notin m.finish
    <2>1. \A u : InDeque(u)' <=> InDeque(u)
      BY <1>1, <1>2, DequeUpdate
    <2>2. \A u : u # m.id \/ ~InDeque(u) =>
            \A c : /\ HasFuture(u, c)' <=> HasFuture(u, c)
                   /\ HasNow(u, c)' <=> HasNow(u, c)
      BY <1>1, <1>2, DequeUpdate
    <2>3. InDeque(m.id) =>
            \A c : /\ HasFuture(m.id, c)' <=>
                        (HasFuture(m.id, c) \/ c \in m.future) /\ c \notin m.now
                   /\ HasNow(m.id, c)' <=>
                        (HasNow(m.id, c) \/ c \in m.now) /\ c \notin m.finish
      BY <1>1, <1>2, DequeUpdate
    <2> QED
      BY <1>3, <1>8, <2>1, <2>2, <2>3
  <1>10. \A u \in Transactions, c \in Clusters : Unreported(u, c)' <=> Unreported(u, c)
    BY <1>2, <1>5 DEF Unreported
  <1>11. ASSUME NEW u \in Transactions, NEW c \in Clusters,
                u # t \/ c \notin m.future \cup m.now \cup m.finish
         PROVE  SameLife(u, c)
    BY <1>2, <1>5, <1>6, <1>9, <1>10, <1>11 DEF SameLife
  <1>12. ASSUME NEW u \in Transactions, NEW c \in Clusters
         PROVE  Life(u, c)'
    <2>1. Life(u, c)
      BY DEF ReportInv, Lives
    <2>2. CASE u # t \/ c \notin m.future \cup m.now \cup m.finish
      BY <1>2, <1>11, <2>1, <2>2, SameLifeKept
    <2>3. CASE u = t /\ c \in m.future
      BY <1>2, <1>5, <1>6, <1>7, <1>9, <1>10, <2>1, <2>3 DEF Life, Late
    <2>4. CASE u = t /\ c \notin m.future /\ c \in m.now
      BY <1>2, <1>5, <1>6, <1>7, <1>9, <1>10, <2>1, <2>4 DEF Life, Late
    <2>5. CASE u = t /\ c \notin m.future /\ c \notin m.now /\ c \in m.finish
      BY <1>2, <1>5, <1>6, <1>7, <1>9, <1>10, <2>1, <2>5 DEF Life, Late
    <2> QED
      BY <2>2, <2>3, <2>4, <2>5
  <1>13. ClosedOver'
    <2> SUFFICES ASSUME NEW u \in Transactions, status'[u] = "done" \/ Waiting(Finalize(u))'
                 PROVE  Over(u)'
      BY DEF ClosedOver
    <2>1. Over(u)
      BY <1>2, <1>5 DEF ReportInv, ClosedOver
    <2>2. ASSUME NEW c \in Clusters
          PROVE  SameLife(u, c)
      <3>1. Life(u, c)
        BY DEF ReportInv, Lives
      <3>2. u # t \/ c \notin m.future \cup m.now \cup m.finish
        BY <1>6, <2>1, <3>1 DEF Over, Life
      <3> QED
        BY <1>11, <3>2
    <2> QED
      BY <2>1, <2>2, SameOver
  <1>14. ReportsKnown'
    BY <1>6, <1>9 DEF ReportInv, ReportsKnown
  <1>15. TargetsOpen' /\ FuturesApart' /\ ProposalsFirst'
    BY <1>2 DEF ReportInv, TargetsOpen, FuturesApart, ProposalsFirst
  <1> QED
    BY <1>7, <1>12, <1>13, <1>14, <1>15 DEF ReportInv, Lives

\* A Finish message reaches the PlannerManager: its transaction leaves the deque
\* without a cluster or a report left.
LEMMA RefreshFinishReports ==
    ASSUME OrderInv, OrderInv', LifeInv, ReportInv, ManagerRefresh, UNCHANGED executorVars,
           NEW m \in PlannerMessage, m = Head(Pipe), m.type = "Finish"
    PROVE  ReportInv'
  <1>1. TypeOK /\ Deque(transaction_states) /\ Deque(transaction_states')
    BY Deques DEF OrderInv
  <1>2. /\ UNCHANGED <<executor_messages, task, futures, targets, status, transactions>>
        /\ Pipe # <<>> /\ Pipe' = Tail(Pipe)
    BY <1>1, PipePop DEF executorVars, userVars, taskVars, acceptedVars
  <1>3. PICK t \in Transactions : t = m.id
    BY FinishStep
  <1>4. /\ m = Finish(t) /\ Ending(t)
        /\ transaction_states # <<>>
        /\ t = FrontId
        /\ transaction_states' = Tail(transaction_states)
    BY <1>3, FinishStep
  <1>5. \A u : m \notin UpdatesOf(u) /\ m # Start(u)
    BY DEF UpdatesOf, UpdateMessage, Start
  <1>6. \A x : Waiting(x)' <=> Waiting(x)
    BY <1>2, SameWaiting
  <1>7. status[t] = "done" /\ Over(t) /\ ~Reports(t)
    <2>1. Lifetime(t)
      BY DEF LifeInv, Lifetimes
    <2>2. status[t] = "done" /\ ~InitialSent(t)
      BY <1>4, <2>1 DEF Lifetime
    <2>3. Over(t)
      BY <2>2 DEF ReportInv, ClosedOver
    <2> QED
      BY <1>1, <2>2, <2>3, NoReports DEF Over
  <1>8. ASSUME NEW u \in Transactions
        PROVE  /\ Reports(u)' <=> Reports(u)
               /\ Starting(u) => Starting(u)'
               /\ InDeque(u) /\ u # t => InDeque(u)'
               /\ \A c \in Clusters : SameLife(u, c)
    <2>1. /\ Reports(u)' <=> Reports(u)
          /\ Starting(u) => Starting(u)'
          /\ \A c : /\ NowSent(u, c)' <=> NowSent(u, c)
                    /\ FutureSent(u, c)' <=> FutureSent(u, c)
                    /\ FinishSent(u, c)' <=> FinishSent(u, c)
      BY <1>1, <1>2, <1>5, PipePopViews
    <2>2. /\ InDeque(u)' <=> InDeque(u) /\ u # t
          /\ u # t => \A c : /\ HasFuture(u, c)' <=> HasFuture(u, c)
                             /\ HasNow(u, c)' <=> HasNow(u, c)
      BY <1>1, <1>4, DequePop
    <2>3. u = t => \A c \in Clusters : /\ HasFuture(u, c)' <=> HasFuture(u, c)
                                       /\ HasNow(u, c)' <=> HasNow(u, c)
      BY <1>7, <2>2, AbsentAfter DEF Over
    <2>4. \A c : Unreported(u, c)' <=> Unreported(u, c)
      BY <1>2, <1>6 DEF Unreported
    <2> QED
      BY <1>2, <1>6, <2>1, <2>2, <2>3, <2>4 DEF SameLife
  <1>9. Lives' /\ ClosedOver'
    BY <1>2, <1>6, <1>8, SameLives
  <1>10. PipeReported'
    BY <1>1, <1>2, ReportedPop DEF ReportInv
  <1>11. ReportsKnown'
    BY <1>7, <1>8 DEF ReportInv, ReportsKnown
  <1>12. TargetsOpen' /\ FuturesApart' /\ ProposalsFirst'
    BY <1>2 DEF ReportInv, TargetsOpen, FuturesApart, ProposalsFirst
  <1> QED
    BY <1>9, <1>10, <1>11, <1>12 DEF ReportInv

\* The planner proposes futures of the deque, and to finalize what is over.
LEMMA PlannerReports ==
    ASSUME OrderInv, LifeInv, ReportInv, PlannerStep, UNCHANGED executorVars
    PROVE  ReportInv'
  <1>1. TypeOK
    BY DEF OrderInv
  <1>2. /\ UNCHANGED <<planner_messages, transaction_states, manager, task, futures, targets,
                       status, transactions>>
        /\ Pipe' = Pipe
    BY PlannerPushes DEF LifeInv, executorVars, userVars, taskVars, acceptedVars, Pipe
  <1>3. PipeReported' /\ ReportsKnown'
    BY <1>2, SameKnown
  <1>4. TargetsOpen' /\ FuturesApart'
    BY <1>2 DEF ReportInv, TargetsOpen, FuturesApart
  <1>5. CASE executor_messages' = executor_messages
    <2>1. \A x : Waiting(x)' <=> Waiting(x)
      BY <1>5, SameWaiting
    <2>2. \A u \in Transactions, c \in Clusters : SameLife(u, c)
      BY <1>2, <2>1, SameElsewhere
    <2>3. Lives' /\ ClosedOver'
      BY <1>2, <2>1, <2>2, SameLives
    <2>4. ProposalsFirst'
      BY <1>5 DEF ReportInv, ProposalsFirst
    <2> QED
      BY <1>3, <1>4, <2>3, <2>4 DEF ReportInv
  <1>6. CASE executor_messages' # executor_messages
    <2>1. PICK m : Planned(m) /\ executor_messages' = Append(executor_messages, m)
      BY <1>6, PlannerPushes DEF LifeInv
    <2>2. PICK t \in Transactions :
            /\ Initialized(t)
            /\ \/ \E c \in Clusters : HasFuture(t, c) /\ m = StartUpdate(t, c)
               \/ (\A c : ~HasFuture(t, c) /\ ~HasNow(t, c)) /\ m = Finalize(t)
      BY <2>1 DEF Planned
    <2>3. \A x : Waiting(x)' <=> Waiting(x) \/ x = m
      BY <1>1, <2>1, WaitingPush
    <2>4. t \in transactions \/ status[t] = "done"
      BY <2>2 DEF LifeInv, Lifetimes, Lifetime
    <2>5. ASSUME NEW c \in Clusters, HasFuture(t, c), m = StartUpdate(t, c)
          PROVE  ReportInv'
      <3>1. Life(t, c) /\ ~Over(t)
        BY <2>5 DEF ReportInv, Lives, Over
      <3>2. t \in transactions /\ ~Waiting(Finalize(t))
        BY <2>4, <3>1 DEF ReportInv, ClosedOver
      <3>3. \A u \in Transactions :
              /\ Waiting(Execute(u))' <=> Waiting(Execute(u))
              /\ Waiting(Finalize(u))' <=> Waiting(Finalize(u))
              /\ \A d \in Clusters : Waiting(StartUpdate(u, d))' <=>
                   Waiting(StartUpdate(u, d)) \/ (u = t /\ d = c)
        BY <2>3, <2>5, UsersDiffer, ProposalsDiffer
      <3>4. ASSUME NEW u \in Transactions, NEW d \in Clusters
            PROVE  /\ Unreported(u, d)' <=> Unreported(u, d)
                   /\ FutureSent(u, d)' <=> FutureSent(u, d)
                   /\ NowSent(u, d)' <=> NowSent(u, d)
                   /\ FinishSent(u, d)' <=> FinishSent(u, d)
                   /\ HasFuture(u, d)' <=> HasFuture(u, d)
                   /\ HasNow(u, d)' <=> HasNow(u, d)
        <4>1. Unreported(u, d)' <=> Unreported(u, d)
          BY <1>2, <3>3 DEF Unreported
        <4>2. /\ FutureSent(u, d)' <=> FutureSent(u, d)
              /\ NowSent(u, d)' <=> NowSent(u, d)
              /\ FinishSent(u, d)' <=> FinishSent(u, d)
          BY <1>2, SamePipeViews
        <4>3. /\ HasFuture(u, d)' <=> HasFuture(u, d)
              /\ HasNow(u, d)' <=> HasNow(u, d)
          BY <1>2, SameDequeViews
        <4> QED
          BY <4>1, <4>2, <4>3
      <3>5. ASSUME NEW u \in Transactions, NEW d \in Clusters, u # t \/ d # c
            PROVE  SameLife(u, d)
        BY <1>2, <3>3, <3>4, <3>5 DEF SameLife
      <3>6. ASSUME NEW u \in Transactions, NEW d \in Clusters
            PROVE  Life(u, d)'
        <4>1. Life(u, d)
          BY DEF ReportInv, Lives
        <4>2. CASE u # t \/ d # c
          BY <1>2, <3>5, <4>1, <4>2, SameLifeKept
        <4>3. CASE u = t /\ d = c
          BY <1>2, <2>5, <3>2, <3>3, <3>4, <4>1, <4>3 DEF Life
        <4> QED
          BY <4>2, <4>3
      <3>7. ClosedOver'
        <4> SUFFICES ASSUME NEW u \in Transactions,
                            status'[u] = "done" \/ Waiting(Finalize(u))'
                     PROVE  Over(u)'
          BY DEF ClosedOver
        <4>1. Over(u) /\ u # t
          BY <1>2, <3>1, <3>3 DEF ReportInv, ClosedOver
        <4> QED
          BY <3>5, <4>1, SameOver
      <3>8. ProposalsFirst'
        <4>1. m \in ExecutorMessage /\ m.id = t
          BY <2>5, MessageTypes DEF StartUpdate
        <4> QED
          BY <1>1, <2>1, <3>2, <4>1, ProposalsPush DEF ReportInv
      <3> QED
        BY <1>3, <1>4, <3>6, <3>7, <3>8 DEF ReportInv, Lives
    <2>6. ASSUME \A c : ~HasFuture(t, c) /\ ~HasNow(t, c), m = Finalize(t)
          PROVE  ReportInv'
      <3>1. \A u \in Transactions :
              /\ Waiting(Execute(u))' <=> Waiting(Execute(u))
              /\ Waiting(Finalize(u))' <=> Waiting(Finalize(u)) \/ u = t
              /\ \A d \in Clusters : Waiting(StartUpdate(u, d))' <=> Waiting(StartUpdate(u, d))
        BY <2>3, <2>6, UsersDiffer, ProposalsDiffer
      <3>2. \A u \in Transactions, d \in Clusters : SameLife(u, d)
        BY <1>2, <3>1, SameElsewhere
      <3>3. Lives'
        BY <1>2, <3>2, SameLifeKept DEF ReportInv, Lives
      <3>4. ~Reports(t)
        <4>1. ~InitialSent(t)
          BY <2>2 DEF LifeInv, Lifetimes, Lifetime
        <4> QED
          BY <1>1, <2>6, <4>1, NoReports
      <3>5. ~Waiting(Execute(t))
        <4>1. Execute(t).type = "Execute" /\ Execute(t).id = t
          BY DEF Execute
        <4> QED
          BY <2>4, <4>1 DEF OrderInv, HeldWhileSubmitted, Waiting, Has
      <3>6. ASSUME NEW c \in Clusters
            PROVE  /\ task[t][c] = IF c \in targets[t] THEN "finished" ELSE "idle"
                   /\ ~Unreported(t, c) /\ ~FutureSent(t, c)
        <4>1. ~FutureSent(t, c)
          BY <3>4 DEF FutureSent, Reports, Has
        <4>2. ~Unreported(t, c)
          <5>1. \A d \in Clusters : task[t][d] # "registered"
            BY <2>6, TaskKnown
          <5> QED
            BY <3>5, <5>1 DEF Unreported, ReportInv, FuturesApart
        <4>3. Life(t, c)
          BY DEF ReportInv, Lives
        <4> QED
          BY <2>6, <4>1, <4>2, <4>3 DEF Life
      <3>7. Over(t)
        BY <2>6, <3>6 DEF Over
      <3>8. ClosedOver'
        <4> SUFFICES ASSUME NEW u \in Transactions,
                            status'[u] = "done" \/ Waiting(Finalize(u))'
                     PROVE  Over(u)'
          BY DEF ClosedOver
        <4>1. Over(u)
          BY <1>2, <3>1, <3>7 DEF ReportInv, ClosedOver
        <4> QED
          BY <3>2, <4>1, SameOver
      <3>9. ProposalsFirst'
        <4>1. m \in ExecutorMessage /\ m.type = "Finalize"
          BY <2>6, MessageTypes DEF Finalize
        <4> QED
          BY <1>1, <2>1, <4>1, ProposalsPush DEF ReportInv
      <3> QED
        BY <1>3, <1>4, <3>3, <3>8, <3>9 DEF ReportInv
    <2> QED
      BY <2>2, <2>5, <2>6
  <1> QED
    BY <1>5, <1>6

\* One step of the engine keeps all of it.
LEMMA ReportStep ==
    ASSUME OrderInv, OrderInv', LoopInv, LifeInv, ReportInv, [Next]_vars
    PROVE  ReportInv'
  <1>1. CASE UserStep /\ UNCHANGED plannerVars
    BY <1>1, BeginReports, SubmitReports DEF UserStep
  <1>2. CASE ExecutorStep /\ UNCHANGED plannerVars
    BY <1>2, RegisterReports, ExecuteReports, StartUpdateReports, FinalizeReports
       DEF ExecutorStep
  <1>3. CASE WorkerStep /\ UNCHANGED plannerVars
    BY <1>3, WorkerReports
  <1>4. CASE ManagerStep /\ UNCHANGED executorVars
    <2>1. CASE ManagerRefresh
      <3>1. PICK m \in PlannerMessage : m = Head(Pipe)
        BY <2>1, PipePop DEF OrderInv
      <3>2. ~ManagerStart
        BY <2>1 DEF ManagerStart, ManagerRefresh, Idle
      <3>3. m.type # "Start"
        BY <2>1, <3>1, <3>2, PipePop DEF OrderInv
      <3>4. m.type = "Update" \/ m.type = "Finish"
        BY <3>3, MessageFields
      <3> QED
        BY <1>4, <2>1, <3>1, <3>4, RefreshUpdateReports, RefreshFinishReports
    <2> QED
      BY <1>4, <2>1, StartReports, StopReports DEF ManagerStep
  <1>5. CASE PlannerStep /\ UNCHANGED executorVars
    BY <1>5, PlannerReports
  <1>6. CASE UNCHANGED vars
    <2>1. /\ UNCHANGED <<executor_messages, transaction_states, task, futures, targets, status,
                         transactions>>
          /\ Pipe' = Pipe
      BY <1>6 DEF vars, plannerVars, executorVars, userVars, taskVars, acceptedVars, Pipe
    <2>2. \A x : Waiting(x)' <=> Waiting(x)
      BY <2>1, SameWaiting
    <2>3. \A u \in Transactions, c \in Clusters : SameLife(u, c)
      BY <2>1, <2>2, SameElsewhere
    <2>4. Lives' /\ ClosedOver'
      BY <2>1, <2>2, <2>3, SameLives
    <2>5. PipeReported' /\ ReportsKnown'
      BY <2>1, SameKnown
    <2> QED
      BY <2>1, <2>4, <2>5 DEF ReportInv, TargetsOpen, FuturesApart, ProposalsFirst
  <1> QED
    BY <1>1, <1>2, <1>3, <1>4, <1>5, <1>6 DEF Next, Rest

\* At the start no transaction has a target.
LEMMA ReportInit == Init => ReportInv
  <1> SUFFICES ASSUME Init PROVE ReportInv
    OBVIOUS
  <1> USE DEF Init, PlannerInit, ExecutorInit
  <1>1. Pipe = <<>>
    BY DEF Pipe, Idle
  <1>2. \A S : ~Has(<<>>, S)
    BY DEF Has
  <1>3. \A m : ~Waiting(m)
    BY <1>2 DEF Waiting
  <1>4. ASSUME NEW t \in Transactions, NEW c \in Clusters
        PROVE  Life(t, c)
    <2>1. ~FutureSent(t, c) /\ ~NowSent(t, c) /\ ~FinishSent(t, c)
      BY <1>1, <1>2 DEF FutureSent, NowSent, FinishSent
    <2>2. ~HasFuture(t, c) /\ ~HasNow(t, c)
      BY <1>2 DEF HasFuture, HasNow
    <2>3. ~Unreported(t, c) /\ ~Waiting(StartUpdate(t, c))
      BY <1>3 DEF Unreported
    <2> QED
      BY <2>1, <2>2, <2>3 DEF Life, Late
  <1>5. TargetsOpen /\ FuturesApart
    BY DEF TargetsOpen, FuturesApart
  <1>6. PipeReported
    BY <1>1, <1>2 DEF PipeReported, InSequence
  <1>7. ReportsKnown
    BY <1>1, <1>2 DEF ReportsKnown, Reports
  <1>8. ProposalsFirst
    BY DEF ProposalsFirst, InSequence
  <1>9. ClosedOver
    BY <1>3 DEF ClosedOver
  <1> QED
    BY <1>4, <1>5, <1>6, <1>7, <1>8, <1>9 DEF ReportInv, Lives

\* The reports hold in every state.
LEMMA ReportCorrect == Spec => [](OrderInv /\ LoopInv /\ LifeInv /\ ReportInv)
  <1>1. OrderInv /\ OrderInv' /\ LoopInv /\ LifeInv /\ ReportInv /\ [Next]_vars => ReportInv'
    BY ReportStep
  <1> QED
    BY <1>1, LifeCorrect, ReportInit, PTL DEF Spec

\* When a transaction ends, each of its targets is updated and no task refers to it
\* (rank_based_planner's can_finish, planner.cpp:281, 323-327; executor.cpp:142-178).
THEOREM EndsAllDone == Spec => []EndsComplete
  <1>1. ReportInv => EndsComplete
    BY DEF ReportInv, ClosedOver, Over, EndsComplete
  <1> QED
    BY <1>1, ReportCorrect, PTL

\* Where the messages of the pipe are.
LEMMA PipeParts ==
    ASSUME TypeOK, NEW S
    PROVE  Has(Pipe, S) <=>
             \/ manager.pc = "joining" /\ manager.message \in S
             \/ Has(planner_messages, S)
  <1>1. planner_messages \in Seq(PlannerMessage)
    BY DEF TypeOK
  <1>2. CASE manager.pc = "joining"
    <2>1. PICK x \in PlannerMessage : x = manager.message
      BY <1>2 DEF TypeOK, PlannerMessage
    <2>2. <<x>> \o planner_messages \in Seq(PlannerMessage)
          /\ <<x>> \o planner_messages # <<>>
          /\ Head(<<x>> \o planner_messages) = x
          /\ Tail(<<x>> \o planner_messages) = planner_messages
      BY <1>1
    <2>3. PICK q \in Seq(PlannerMessage) :
            q = Pipe /\ q # <<>> /\ Head(q) = x /\ Tail(q) = planner_messages
      BY <1>2, <2>1, <2>2 DEF Pipe
    <2>4. Has(q, S) <=> Has(Tail(q), S) \/ Head(q) \in S
      BY <2>3, HasPop
    <2> QED
      BY <1>2, <2>1, <2>3, <2>4
  <1>3. CASE manager.pc # "joining"
    BY <1>3 DEF Pipe
  <1> QED
    BY <1>2, <1>3

\* An initialized transaction has sent its Execute message.
LEMMA InitializedHeld ==
    ASSUME OrderInv, LifeInv, NEW t \in Transactions, Initialized(t)
    PROVE  ~Waiting(Execute(t)) /\ (t \in transactions \/ status[t] = "done")
  <1>1. t \in transactions \/ status[t] = "done"
    BY DEF LifeInv, Lifetimes, Lifetime
  <1>2. Execute(t).type = "Execute" /\ Execute(t).id = t
    BY DEF Execute
  <1> QED
    BY <1>1, <1>2 DEF OrderInv, HeldWhileSubmitted, Waiting, Has

\* The planner knows of every pending cluster, or will be told: the union of the
\* reports of a transaction is what its tasks did (planner.cpp:98-135).
THEOREM PlannerTold == Spec => []PlannerKnows
  <1>1. OrderInv /\ LifeInv /\ ReportInv => PlannerKnows
    <2> SUFFICES ASSUME OrderInv, LifeInv, ReportInv,
                        NEW i \in 1 .. Len(transaction_states),
                        transaction_states[i].initialized,
                        NEW c \in Clusters, Pending(transaction_states[i].transaction_id, c)
                 PROVE  \/ c \in transaction_states[i].future \cup transaction_states[i].now
                        \/ Reporting(transaction_states[i].transaction_id, c)
      BY DEF PlannerKnows
    <2>1. TypeOK /\ Deque(transaction_states)
      BY DEF OrderInv, TypeOK, ConsecutiveIds, FrontId, Deque
    <2>2. PICK t \in Transactions :
            /\ t = transaction_states[i].transaction_id
            /\ Initialized(t)
            /\ HasFuture(t, c) => c \in transaction_states[i].future
            /\ HasNow(t, c) => c \in transaction_states[i].now
      BY <2>1, ViewsAt
    <2>3. Life(t, c) /\ ~Waiting(Execute(t))
      BY <2>2, InitializedHeld DEF ReportInv, Lives
    <2>4. c \in targets[t] /\ task[t][c] # "finished"
      BY <2>2 DEF Pending
    <2>5. (\E d \in Clusters : c \in futures[t][d]) \/ FutureSent(t, c)
             \/ HasFuture(t, c) \/ HasNow(t, c)
      BY <2>3, <2>4 DEF Life, Unreported
    <2>6. ASSUME FutureSent(t, c)
          PROVE  Reporting(t, c)
      <3>1. \/ /\ manager.pc = "joining"
               /\ manager.message \in {m \in UpdatesOf(t) : c \in m.future}
            \/ Has(planner_messages, {m \in UpdatesOf(t) : c \in m.future})
        BY <2>1, <2>6, PipeParts DEF FutureSent
      <3>2. manager.pc = "joining" => manager # Idle
        BY DEF Idle
      <3> QED
        BY <3>1, <3>2 DEF Reporting, Has, UpdatesOf, UpdateMessage
    <2> QED
      BY <2>2, <2>5, <2>6 DEF Reporting
  <1> QED
    BY <1>1, ReportCorrect, PTL

\* Random access by ID finds the state of a transaction that is in the deque.
LEMMA HeldState ==
    ASSUME Deque(transaction_states), NEW t \in Transactions, InDeque(t)
    PROVE  /\ Holds(transaction_states, t)
           /\ t - FrontId + 1 \in 1 .. Len(transaction_states)
           /\ transaction_states[t - FrontId + 1].transaction_id = t
           /\ FrontId \in Transactions /\ FrontId <= t /\ InDeque(FrontId)
           /\ FrontId \in Nat /\ t \in Nat
  <1>1. PICK k \in 1 .. Len(transaction_states) : transaction_states[k].transaction_id = t
    BY DEF InDeque
  <1>2. /\ transaction_states \in Seq(TransactionState)
        /\ Len(transaction_states) \in Nat /\ transaction_states # <<>>
        /\ 1 \in 1 .. Len(transaction_states)
        /\ Len(transaction_states) \in 1 .. Len(transaction_states)
        /\ \A j \in 1 .. Len(transaction_states) :
             transaction_states[j].transaction_id = FrontId + j - 1
    BY <1>1 DEF Deque, FrontId
  <1>3. FrontId \in Transactions /\ FrontId \in Nat /\ t \in Nat
    <2>1. transaction_states[1] \in TransactionState
      BY <1>2
    <2> QED
      BY <2>1, BoundAssumption DEF TransactionState, FrontId, Transactions
  <1>4. t = FrontId + k - 1
    BY <1>1, <1>2
  <1>5. t - FrontId + 1 = k
    BY <1>3, <1>4
  <1>6. InDeque(FrontId)
    BY <1>2 DEF InDeque, FrontId
  <1>7. FrontId <= t /\ t <= FrontId + Len(transaction_states) - 1
    BY <1>2, <1>3, <1>4
  <1>8. Holds(transaction_states, t)
    BY <1>2, <1>7 DEF Holds, FrontId
  <1> QED
    BY <1>1, <1>3, <1>5, <1>6, <1>7, <1>8

\* The message in the hand of the PlannerManager is the head of the pipe.
LEMMA InHand ==
    ASSUME TypeOK, manager # Idle
    PROVE  \E m \in PlannerMessage :
             /\ m = manager.message /\ m.type \in {"Update", "Finish"}
             /\ Has(Pipe, {m})
             /\ 1 \in 1 .. Len(Pipe) /\ Pipe[1] = m
  <1>1. manager.pc = "joining" /\ planner_messages \in Seq(PlannerMessage)
    BY DEF TypeOK, Idle
  <1>2. PICK x \in PlannerMessage : x = manager.message /\ x.type \in {"Update", "Finish"}
    BY <1>1 DEF TypeOK, PlannerMessage, UpdateMessage, FinishMessage
  <1>3. 1 \in 1 .. Len(<<x>> \o planner_messages) /\ (<<x>> \o planner_messages)[1] = x
    BY <1>1
  <1>4. 1 \in 1 .. Len(Pipe) /\ Pipe[1] = x
    BY <1>1, <1>2, <1>3 DEF Pipe
  <1> QED
    BY <1>2, <1>4 DEF Has

\* No handler is about to take one of its warning branches.
LEMMA NoneWarns == OrderInv /\ LifeInv /\ ReportInv => NoWarning
  <1>1. ASSUME OrderInv, LifeInv, ReportInv, manager # Idle
        PROVE  LET m == manager.message
               IN  /\ Holds(transaction_states, m.id)
                   /\ LET s == transaction_states[m.id - FrontId + 1]
                      IN  /\ m.type = "Update" =>
                               /\ m.now \subseteq s.future \cup m.future
                               /\ m.finish \subseteq s.now
                          /\ m.type = "Finish" => m.id = FrontId /\ s.initialized
    <2>1. TypeOK /\ Deque(transaction_states)
      BY <1>1 DEF OrderInv, TypeOK, ConsecutiveIds, FrontId, Deque
    <2>2. PICK m \in PlannerMessage :
            /\ m = manager.message /\ m.type \in {"Update", "Finish"}
            /\ Has(Pipe, {m})
            /\ 1 \in 1 .. Len(Pipe) /\ Pipe[1] = m
      BY <1>1, <2>1, InHand
    <2>3. PICK t \in Transactions : t = m.id
      BY MessageFields
    <2>4. Lifetime(t) /\ \A c \in Clusters : Life(t, c)
      BY <1>1 DEF LifeInv, Lifetimes, ReportInv, Lives
    <2>5. \A j \in 1 .. Len(Pipe) : j = 1 \/ 1 < j
      BY <2>1, PipeType
    <2>6. CASE m.type = "Update"
      <3>1. /\ m \in UpdatesOf(t)
            /\ m.now \subseteq Clusters /\ m.finish \subseteq Clusters
        BY <2>3, <2>6 DEF PlannerMessage, StartMessage, UpdateMessage, FinishMessage, UpdatesOf
      <3>2. Reports(t)
        BY <2>2, <3>1 DEF Reports, Has
      <3>3. \A j \in 1 .. Len(Pipe) :
              /\ Pipe[j] # Start(t)
              /\ Pipe[j] \in UpdatesOf(t) => m.finish \cap Pipe[j].now = {}
        <4> SUFFICES ASSUME NEW j \in 1 .. Len(Pipe)
                     PROVE  /\ Pipe[j] # Start(t)
                            /\ Pipe[j] \in UpdatesOf(t) => m.finish \cap Pipe[j].now = {}
          OBVIOUS
        <4>1. CASE j = 1
          <5>1. m \notin Twisted
            BY <1>1, <2>2 DEF ReportInv, PipeReported, Has
          <5> QED
            BY <2>2, <2>6, <3>1, <4>1, <5>1 DEF Start, Twisted, UpdatesOf
        <4>2. CASE 1 < j
          <5>1. <<m, Pipe[j]>> \in Reported
            BY <1>1, <2>2, <4>2 DEF ReportInv, PipeReported, InSequence
          <5> QED
            BY <2>3, <2>6, <5>1 DEF Reported, Start, UpdatesOf, UpdateMessage
        <4> QED
          BY <2>5, <4>1, <4>2
      <3>4. InDeque(t)
        BY <1>1, <3>2, <3>3 DEF ReportInv, ReportsKnown, Starting, Has
      <3>5. /\ Holds(transaction_states, t)
            /\ t - FrontId + 1 \in 1 .. Len(transaction_states)
            /\ transaction_states[t - FrontId + 1].transaction_id = t
        BY <2>1, <3>4, HeldState
      <3>6. PICK s \in TransactionState :
              /\ s = transaction_states[t - FrontId + 1]
              /\ \A c : /\ HasFuture(t, c) <=> c \in s.future
                        /\ HasNow(t, c) <=> c \in s.now
        BY <2>1, <3>5, ViewsAt
      <3>7. \A c \in m.now : c \in s.future
        <4>1. \A c \in m.now : NowSent(t, c)
          BY <2>2, <3>1 DEF NowSent, Has
        <4> QED
          BY <2>4, <3>1, <3>6, <4>1 DEF Life
      <3>8. \A c \in m.finish : c \in s.now
        <4>1. \A c \in m.finish : FinishSent(t, c) /\ ~NowSent(t, c)
          BY <2>2, <3>1, <3>3 DEF FinishSent, NowSent, Has
        <4> QED
          BY <2>4, <3>1, <3>6, <4>1 DEF Life, Late
      <3> QED
        BY <2>2, <2>3, <2>6, <3>5, <3>6, <3>7, <3>8
    <2>7. CASE m.type = "Finish"
      <3>1. m = Finish(t)
        BY <2>3, <2>7 DEF PlannerMessage, StartMessage, UpdateMessage, FinishMessage, Finish
      <3>2. Ending(t)
        BY <2>2, <3>1 DEF Ending
      <3>3. InDeque(t) /\ status[t] = "done" /\ Initialized(t)
        BY <2>4, <3>2 DEF Lifetime
      <3>4. /\ Holds(transaction_states, t)
            /\ t - FrontId + 1 \in 1 .. Len(transaction_states)
            /\ transaction_states[t - FrontId + 1].transaction_id = t
            /\ FrontId \in Transactions /\ FrontId <= t /\ InDeque(FrontId)
            /\ FrontId \in Nat /\ t \in Nat
        BY <2>1, <3>3, HeldState
      <3>5. transaction_states[t - FrontId + 1].initialized
        BY <2>1, <3>3, <3>4, ViewsAt
      <3>6. t = FrontId
        <4> SUFFICES ASSUME FrontId < t PROVE FALSE
          BY <3>4
        <4>1. status[FrontId] = "done"
          BY <1>1, <3>3, <3>4 DEF OrderInv, InOrder
        <4>2. Ending(FrontId)
          BY <1>1, <3>4, <4>1 DEF LifeInv, Lifetimes, Lifetime
        <4>3. PICK j \in 1 .. Len(Pipe) : Pipe[j] = Finish(FrontId)
          BY <4>2 DEF Ending, Has
        <4>4. \A u : Finish(u).id = u /\ Finish(u).type = "Finish"
          BY DEF Finish
        <4>5. j # 1
          BY <2>2, <2>3, <3>4, <4>3, <4>4
        <4>6. <<m, Pipe[j]>> \in Ordered
          BY <1>1, <2>2, <2>5, <4>5 DEF LifeInv, PipeOrdered, InSequence
        <4>7. t < FrontId
          BY <2>3, <2>7, <4>3, <4>4, <4>6 DEF Ordered
        <4> QED
          BY <3>4, <4>7
      <3> QED
        BY <2>2, <2>3, <2>7, <3>4, <3>5, <3>6
    <2> QED
      BY <2>2, <2>6, <2>7
  <1>2. ASSUME OrderInv, ReportInv, NEW i \in 1 .. Len(executor_messages),
               executor_messages[i].type = "StartUpdate"
        PROVE  /\ executor_messages[i].id \in transactions
               /\ executor_messages[i].cluster \in targets[executor_messages[i].id]
    <2>1. executor_messages[i] \in ExecutorMessage
      BY <1>2 DEF OrderInv, TypeOK
    <2>2. PICK t \in Transactions, c \in Clusters :
            /\ t = executor_messages[i].id /\ c = executor_messages[i].cluster
            /\ executor_messages[i] = StartUpdate(t, c)
      BY <1>2, <2>1, ProposalFields
    <2>3. Waiting(StartUpdate(t, c))
      BY <2>2 DEF Waiting, Has
    <2>4. t \in transactions /\ c \in targets[t]
      BY <1>2, <2>3 DEF ReportInv, Lives, Life
    <2> QED
      BY <2>2, <2>4
  <1> QED
    BY <1>1, <1>2 DEF NoWarning

\* No handler is about to take one of its warning branches (planner.cpp:73-76,
\* 82-88, 104-110, 116-121, 141-157; executor.cpp:78-82).
THEOREM NothingWarns == Spec => []NoWarning
  BY NoneWarns, ReportCorrect, PTL

-----------------------------------------------------------------------------
(* The numbers of clusters by rank.                                        *)

\* target_ranks counts the clusters of future and now.
Counted(s) ==
    \A r \in Ranks : s.target_ranks[r] = Cardinality(OfRank(s.future \cup s.now, r))

CountsExact ==
    \A k \in 1 .. Len(transaction_states) : Counted(transaction_states[k])

\* An update that adds clusters that are new, and takes clusters of now away.
LEMMA CountUpdate ==
    ASSUME NEW s \in TransactionState, Counted(s),
           NEW m, m.now \in SUBSET Clusters, m.future \in SUBSET Clusters,
           m.finish \in SUBSET Clusters,
           s.future \cap s.now = {},
           m.future \cap (s.future \cup s.now) = {},
           m.now \subseteq s.future \cup m.future,
           m.finish \subseteq s.now,
           m.now \cap m.finish = {}
    PROVE  Counted(ApplyUpdate(s, m))
  <1> SUFFICES ASSUME NEW r \in Ranks
               PROVE  ApplyUpdate(s, m).target_ranks[r] =
                        Cardinality(OfRank(ApplyUpdate(s, m).future \cup ApplyUpdate(s, m).now, r))
    BY DEF Counted
  <1>1. s.future \in SUBSET Clusters /\ s.now \in SUBSET Clusters
    BY DEF TransactionState
  <1>2. m.future \ s.future = m.future /\ m.finish \cap (s.now \cup m.now) = m.finish
    OBVIOUS
  <1>3. /\ ApplyUpdate(s, m).future = (s.future \cup m.future) \ m.now
        /\ ApplyUpdate(s, m).now = (s.now \cup m.now) \ m.finish
        /\ ApplyUpdate(s, m).target_ranks[r] =
             s.target_ranks[r] + Cardinality(OfRank(m.future, r))
                               - Cardinality(OfRank(m.finish, r))
    BY <1>2 DEF ApplyUpdate, TransactionState
  <1> DEFINE A == OfRank(s.future \cup s.now, r)
             B == OfRank(m.future, r)
             C == OfRank(m.finish, r)
             D == OfRank(ApplyUpdate(s, m).future \cup ApplyUpdate(s, m).now, r)
  <1>4. A \in SUBSET Clusters /\ B \in SUBSET Clusters /\ C \in SUBSET Clusters
    BY <1>1 DEF OfRank
  <1>5. A \cap B = {} /\ (A \cup B) \cap C = C
    BY DEF OfRank
  <1>6. D = (A \cup B) \ C
    BY <1>3 DEF OfRank
  <1>7. s.target_ranks[r] = Cardinality(A)
    BY DEF Counted
  <1> HIDE DEF A, B, C, D
  <1>8. IsFiniteSet(A) /\ IsFiniteSet(B) /\ IsFiniteSet(C)
    BY <1>4, ClustersAssumption, FS_Subset
  <1>9. /\ Cardinality(A) \in Nat /\ Cardinality(B) \in Nat /\ Cardinality(C) \in Nat
        /\ Cardinality({}) = 0
    BY <1>8, FS_CardinalityType, FS_EmptySet
  <1>10. /\ IsFiniteSet(A \cup B)
         /\ Cardinality(A \cup B) = Cardinality(A) + Cardinality(B) - Cardinality(A \cap B)
    BY <1>8, FS_Union
  <1>11. Cardinality((A \cup B) \ C) = Cardinality(A \cup B) - Cardinality((A \cup B) \cap C)
    BY <1>10, FS_Difference
  <1>12. Cardinality(D) = Cardinality(A) + Cardinality(B) - Cardinality(C)
    <2>1. Cardinality(A \cap B) = 0 /\ Cardinality((A \cup B) \cap C) = Cardinality(C)
      BY <1>5, <1>9
    <2>2. Cardinality(D) = Cardinality(A \cup B) - Cardinality(C)
      BY <1>6, <1>11, <2>1
    <2>3. Cardinality(A \cup B) = Cardinality(A) + Cardinality(B)
      BY <1>9, <1>10, <2>1
    <2> QED
      BY <1>9, <2>2, <2>3
  <1> QED
    BY <1>3, <1>7, <1>12 DEF B, C, D

\* Every step keeps the counts.
LEMMA CountsStep ==
    ASSUME OrderInv, LifeInv, ReportInv, CountsExact, [Next]_vars
    PROVE  CountsExact'
  <1>1. /\ TypeOK /\ Deque(transaction_states)
        /\ \A k \in 1 .. Len(transaction_states) : Counted(transaction_states[k])
        /\ \A k \in 1 .. Len(transaction_states) : transaction_states[k] \in TransactionState
        /\ transaction_states \in Seq(TransactionState)
    BY DEF OrderInv, TypeOK, ConsecutiveIds, FrontId, Deque, CountsExact
  <1>2. CASE transaction_states' = transaction_states
    BY <1>2 DEF CountsExact
  <1>3. CASE ManagerStart
    <2>1. PICK t \in Transactions :
            transaction_states' = Append(transaction_states, NewTransactionState(t))
      BY <1>3, StartStep
    <2>2. Counted(NewTransactionState(t))
      <3>1. \A r \in Ranks : OfRank({} \cup {}, r) = {}
        BY DEF OfRank
      <3> QED
        BY <3>1, FS_EmptySet DEF Counted, NewTransactionState
    <2>3. \A s : \A k \in 1 .. Len(Append(transaction_states, s)) :
            \/ k \in 1 .. Len(transaction_states)
                 /\ Append(transaction_states, s)[k] = transaction_states[k]
            \/ Append(transaction_states, s)[k] = s
      BY <1>1
    <2>4. ASSUME NEW k \in 1 .. Len(transaction_states')
          PROVE  Counted(transaction_states'[k])
      BY <1>1, <2>1, <2>2, <2>3
    <2>5. \A k \in 1 .. Len(transaction_states') : Counted(transaction_states'[k])
      BY <2>4
    <2> QED
      BY <2>5 DEF CountsExact, Counted
  <1>4. CASE ManagerRefresh
    <2>1. manager # Idle
      BY <1>4 DEF ManagerRefresh, Idle
    <2>2. PICK m \in PlannerMessage :
            /\ m = manager.message /\ m.type \in {"Update", "Finish"}
            /\ Has(Pipe, {m})
            /\ 1 \in 1 .. Len(Pipe) /\ Pipe[1] = m
      BY <1>1, <2>1, InHand
    <2>3. transaction_states' = HandleMessage(transaction_states, m)
      BY <1>4, <2>2 DEF ManagerRefresh
    <2>4. CASE m.type = "Finish"
      <3>1. transaction_states' = HandleFinish(transaction_states, m.id)
        BY <2>3, <2>4 DEF HandleMessage
      <3>2. CASE transaction_states' = transaction_states
        BY <3>2, <1>2
      <3>3. CASE transaction_states # <<>> /\ transaction_states' = Tail(transaction_states)
        <4>1. /\ Len(transaction_states) \in Nat \ {0}
              /\ Len(Tail(transaction_states)) = Len(transaction_states) - 1
              /\ \A k \in 1 .. Len(Tail(transaction_states)) :
                   Tail(transaction_states)[k] = transaction_states[k + 1]
          BY <1>1, <3>3, PopTypes
        <4>2. \A k \in 1 .. Len(transaction_states') :
                /\ k + 1 \in 1 .. Len(transaction_states)
                /\ transaction_states'[k] = transaction_states[k + 1]
          BY <3>3, <4>1
        <4>3. \A k \in 1 .. Len(transaction_states') : Counted(transaction_states'[k])
          BY <1>1, <4>2
        <4> QED
          BY <4>3 DEF CountsExact, Counted
      <3> QED
        BY <3>1, <3>2, <3>3 DEF HandleFinish
    <2>5. CASE m.type = "Update"
      <3>1. transaction_states' = HandleUpdate(transaction_states, m)
        BY <2>3, <2>5 DEF HandleMessage
      <3>2. Len(transaction_states') = Len(transaction_states)
        BY <1>1, <2>5, <3>1, HandleUpdateDeque
      <3>3. /\ m.id \in Transactions /\ m \in UpdatesOf(m.id)
            /\ m.now \in SUBSET Clusters /\ m.future \in SUBSET Clusters
            /\ m.finish \in SUBSET Clusters
        BY <2>5 DEF PlannerMessage, StartMessage, FinishMessage, UpdateMessage, UpdatesOf
      <3>4. ASSUME NEW k \in 1 .. Len(transaction_states)
            PROVE  Counted(transaction_states'[k])
        <4> DEFINE s == transaction_states[k]
        <4>1. transaction_states'[k] = IF s.transaction_id = m.id THEN ApplyUpdate(s, m) ELSE s
          BY <1>1, <2>5, <3>1, UpdatedState
        <4>2. CASE s.transaction_id # m.id
          BY <1>1, <4>1, <4>2
        <4>3. CASE s.transaction_id = m.id
          <5>1. /\ s \in TransactionState /\ Counted(s)
                /\ \A c : /\ HasFuture(m.id, c) <=> c \in s.future
                          /\ HasNow(m.id, c) <=> c \in s.now
            BY <1>1, <4>3, ViewsAt
          <5>2. InDeque(m.id) /\ m.id - FrontId + 1 = k
            <6>1. InDeque(m.id)
              BY <4>3 DEF InDeque
            <6>2. FrontId \in Nat
              BY <1>1, <3>3, <6>1, HeldState
            <6>3. s.transaction_id = FrontId + k - 1
              BY <1>1 DEF Deque, FrontId
            <6> QED
              BY <4>3, <6>1, <6>2, <6>3
          <5>3. m.now \subseteq s.future \cup m.future /\ m.finish \subseteq s.now
            BY <2>1, <2>2, <2>5, <5>2, NoneWarns DEF NoWarning
          <5>4. s.future \subseteq Clusters /\ s.now \subseteq Clusters
            BY <5>1 DEF TransactionState
          <5>5. \A c \in Clusters : Life(m.id, c)
            BY <3>3 DEF ReportInv, Lives
          <5>6. s.future \cap s.now = {}
            BY <5>1, <5>4, <5>5 DEF Life
          <5>7. \A c \in m.future : FutureSent(m.id, c)
            BY <2>2, <3>3 DEF FutureSent, Has
          <5>8. m.future \cap (s.future \cup s.now) = {}
            BY <3>3, <5>1, <5>5, <5>7 DEF Life
          <5>9. m.now \cap m.finish = {}
            BY <2>2, <3>3 DEF ReportInv, PipeReported, Has, Twisted, UpdatesOf
          <5>10. Counted(ApplyUpdate(s, m))
            BY <3>3, <5>1, <5>3, <5>6, <5>8, <5>9, CountUpdate
          <5> QED
            BY <4>1, <4>3, <5>10
        <4> QED
          BY <4>2, <4>3
      <3>5. \A k \in 1 .. Len(transaction_states') : Counted(transaction_states'[k])
        BY <3>2, <3>4
      <3> QED
        BY <3>5 DEF CountsExact, Counted
    <2> QED
      BY <2>2, <2>4, <2>5
  <1>5. ManagerStart \/ ManagerRefresh \/ transaction_states' = transaction_states
    <2>1. CASE UserStep /\ UNCHANGED plannerVars
      BY <2>1 DEF plannerVars
    <2>2. CASE ExecutorStep /\ UNCHANGED plannerVars
      BY <2>2 DEF plannerVars
    <2>3. CASE WorkerStep /\ UNCHANGED plannerVars
      BY <2>3 DEF plannerVars
    <2>4. CASE ManagerStep /\ UNCHANGED executorVars
      BY <2>4 DEF ManagerStep, ManagerStop
    <2>5. CASE PlannerStep /\ UNCHANGED executorVars
      BY <2>5, PlannerPushes DEF LifeInv
    <2>6. CASE UNCHANGED vars
      BY <2>6 DEF vars, plannerVars
    <2> QED
      BY <2>1, <2>2, <2>3, <2>4, <2>5, <2>6 DEF Next, Rest
  <1> QED
    BY <1>2, <1>3, <1>4, <1>5

\* The planner's counts are exact in every state.
LEMMA CountsCorrect ==
    Spec => [](OrderInv /\ LoopInv /\ LifeInv /\ ReportInv /\ CountsExact)
  <1>1. Init => CountsExact
    BY DEF Init, PlannerInit, CountsExact
  <1>2. OrderInv /\ LifeInv /\ ReportInv /\ CountsExact /\ [Next]_vars => CountsExact'
    BY CountsStep
  <1> QED
    BY <1>1, <1>2, ReportCorrect, PTL DEF Spec

\* The deque holds consecutive IDs, which handleUpdateMessage indexes by, and
\* target_ranks counts exactly future and now (planner.cpp:93-132).
THEOREM DequeConsistent == Spec => []StatesConsistent
  <1>1. OrderInv /\ ReportInv /\ CountsExact => StatesConsistent
    <2> SUFFICES ASSUME OrderInv, ReportInv, CountsExact,
                        NEW i \in 1 .. Len(transaction_states)
                 PROVE  /\ transaction_states[i].transaction_id = FrontId + i - 1
                        /\ transaction_states[i].future \cap transaction_states[i].now = {}
                        /\ \A r \in Ranks :
                             transaction_states[i].target_ranks[r] =
                               Cardinality(OfRank(transaction_states[i].future
                                                    \cup transaction_states[i].now, r))
      BY DEF StatesConsistent
    <2>1. Deque(transaction_states)
      BY DEF OrderInv, TypeOK, ConsecutiveIds, FrontId, Deque
    <2>2. PICK t \in Transactions :
            \A c : /\ HasFuture(t, c) <=> c \in transaction_states[i].future
                   /\ HasNow(t, c) <=> c \in transaction_states[i].now
      BY <2>1, ViewsAt
    <2>3. transaction_states[i].future \subseteq Clusters
      BY <2>1, ViewsAt DEF TransactionState
    <2>4. \A c \in Clusters : HasFuture(t, c) => ~HasNow(t, c)
      BY DEF ReportInv, Lives, Life
    <2> QED
      BY <2>2, <2>3, <2>4 DEF OrderInv, ConsecutiveIds, CountsExact, Counted
  <1> QED
    BY <1>1, CountsCorrect, PTL

=============================================================================
