---------------------------- MODULE ThreadProofs ----------------------------
(***************************************************************************)
(* Theorems about ThreadControl, for a pool of any size and any number of  *)
(* messages and builds.                                                    *)
(***************************************************************************)
EXTENDS ThreadControl, TLAPS, FiniteSetTheorems

\* What the proofs need to know of the types.
Typed ==
    /\ pc \in [Threads -> PopPcs \cup {"joining", "stopped"}]
    /\ data \in [Queues -> Nat]
    /\ stop_the_threads \in BOOLEAN
    /\ planning \in BOOLEAN

\* The loops that have not ended.
Alive(t) == IF pc[t] = "stopped" THEN 0 ELSE 1

\* The flag is up from StopFlag to StopReturn; a thread leaves its loop only
\* under the flag; in the meantime wait_threads counts the loops that have not
\* ended, each of which joins, before it counts itself out, what it started.
StopInv ==
    /\ stop_the_threads <=> stopper \in {"flagged", "planner_notified", "spinning"}
    /\ stopper \in {"running", "counted"} =>
         \A t \in Threads : pc[t] \notin {"halting", "joining", "stopped"}
    /\ stopper \in {"counted", "flagged", "planner_notified", "spinning", "returned"} =>
         wait_threads = Alive("manager") + Alive("executor")
    /\ pc["manager"] = "stopped" => ~planning
    /\ pc["executor"] = "stopped" => \A w \in Pool : pc[w] = "stopped"
    /\ stopper = "returned" => pc["manager"] = "stopped" /\ pc["executor"] = "stopped"

\* One thread at a time is inside pop of a queue; one that sleeps found no
\* element, and one that takes under no flag found one.
MutexInv ==
    /\ \A s, t \in Threads :
         /\ Source[s] = Source[t]
         /\ pc[s] \in {"blocking", "ready"}
         /\ pc[t] \in {"blocking", "ready"}
         => s = t
    /\ NoEmptyPop

Inv == Typed /\ StopInv /\ MutexInv

\* The manager, the executor and the pool's threads are different threads.
LEMMA Distinct ==
    /\ "manager" \in Threads /\ "executor" \in Threads
    /\ \A w \in Pool : w \in Threads /\ w # "manager" /\ w # "executor"
    /\ \A t \in Threads : t = "manager" \/ t = "executor" \/ t \in Pool
    /\ Source \in [Threads -> Queues]
    /\ \A t \in Threads : Source[t] = "pool" <=> t \in Pool
  BY ThreadAssumption DEF Threads, Source, Queues

\* A notification only wakes sleepers, so it changes nothing the invariants
\* tell apart.
LEMMA NotifyOneOnlyWakes ==
    ASSUME NEW q, pc \in [Threads -> PopPcs \cup {"joining", "stopped"}],
           NEW p \in NotifyOne(q)
    PROVE  /\ p \in [Threads -> PopPcs \cup {"joining", "stopped"}]
           /\ \A t \in Threads : p[t] = pc[t] \/ (pc[t] = "waiting" /\ p[t] = "popping")
  BY DEF NotifyOne, Readers, PopPcs

\* notify_all moves only the threads that sleep (concurrent_queue.hpp:61).
LEMMA NotifyAllOnlyWakes ==
    ASSUME NEW q, pc \in [Threads -> PopPcs \cup {"joining", "stopped"}]
    PROVE  /\ NotifyAll(q) \in [Threads -> PopPcs \cup {"joining", "stopped"}]
           /\ \A t \in Threads :
                \/ NotifyAll(q)[t] = pc[t]
                \/ pc[t] = "waiting" /\ NotifyAll(q)[t] = "popping"
  BY DEF NotifyAll, Readers, PopPcs

\* Threads that only wake up leave the invariant, whatever else of the control
\* state stays.
OnlyWakes ==
    /\ pc' \in [Threads -> PopPcs \cup {"joining", "stopped"}]
    /\ \A t \in Threads : pc'[t] = pc[t] \/ (pc[t] = "waiting" /\ pc'[t] = "popping")

\* A push: some thread may wake up, and no element is gone.
LEMMA PushKeeps ==
    ASSUME Inv, NEW q \in Queues, push(q),
           stop_the_threads' = stop_the_threads, wait_threads' = wait_threads,
           stopper' = stopper, planning' = planning
    PROVE  Inv'
  <1>1. OnlyWakes
    BY NotifyOneOnlyWakes DEF Inv, Typed, push, OnlyWakes
  <1>2. data' \in [Queues -> Nat] /\ \A r \in Queues : data'[r] >= data[r]
    BY DEF push, Inv, Typed
  <1>3. Typed'
    BY <1>1, <1>2 DEF Inv, Typed, OnlyWakes
  <1>4. StopInv'
    BY <1>1, Distinct DEF Inv, StopInv, OnlyWakes, Alive
  <1>5. MutexInv'
    BY <1>1, <1>2, Distinct DEF Inv, Typed, MutexInv, NoEmptyPop, OnlyWakes
  <1> QED BY <1>3, <1>4, <1>5 DEF Inv

\* The steps of pop, but for a thread that takes an element.
LEMMA EvaluateKeeps ==
    ASSUME Inv, NEW t \in Threads, Evaluate(t), UNCHANGED <<planning, control>>
    PROVE  Inv'
  <1>1. PICK s \in {"ready", "blocking"} :
           /\ pc' = [pc EXCEPT ![t] = s]
           /\ s = "ready" => data[Source[t]] > 0 \/ stop_the_threads
    BY DEF Evaluate
  <1>2. \A s1 \in Threads : Source[s1] = Source[t] => pc[s1] \notin {"blocking", "ready"}
    BY DEF Evaluate, Unlocked, Readers
  <1>3. pc[t] = "popping" /\ data' = data
    BY DEF Evaluate
  <1>4. Typed'
    BY <1>1, <1>3 DEF Inv, Typed, PopPcs, control
  <1>5. StopInv'
    BY <1>1, <1>3, Distinct DEF Inv, Typed, StopInv, Alive, control
  <1>6. MutexInv'
    BY <1>1, <1>2, <1>3, Distinct DEF Inv, Typed, MutexInv, NoEmptyPop, control
  <1> QED BY <1>4, <1>5, <1>6 DEF Inv

\* A thread that leaves "from" for "to" without touching a queue.
LEMMA MoveKeeps ==
    ASSUME Inv, NEW t \in Threads, NEW from, NEW to,
           MoveTo(t, from, to),
           <<from, to>> \in {<<"busy", "popping">>, <<"blocking", "waiting">>,
                             <<"waiting", "popping">>},
           UNCHANGED control,
           planning' = planning \/ (t = "manager" /\ planning' = TRUE)
    PROVE  Inv'
  <1>1. pc[t] = from /\ pc' = [pc EXCEPT ![t] = to] /\ data' = data
    BY DEF MoveTo
  <1>2. from # to /\ from # "stopped" /\ to # "stopped" /\ to # "ready" /\ to # "blocking"
        /\ to \in PopPcs /\ to # "halting" /\ to # "joining"
    BY DEF PopPcs
  <1>3. Typed'
    BY <1>1, <1>2 DEF Inv, Typed, control
  <1>4. StopInv'
    BY <1>1, <1>2, Distinct DEF Inv, Typed, StopInv, Alive, control
  <1>5. MutexInv'
    BY <1>1, <1>2, Distinct DEF Inv, Typed, MutexInv, NoEmptyPop, control
  <1> QED BY <1>3, <1>4, <1>5 DEF Inv

\* A thread that takes an element holds the mutex alone, so no other one is
\* about to take the same.
LEMMA TakeKeeps ==
    ASSUME Inv, NEW t \in Threads, Take(t), UNCHANGED <<planning, control>>
    PROVE  Inv'
  <1>1. pc[t] = "ready"
    BY DEF Take
  <1>2. \A s \in Threads : Source[s] = Source[t] /\ s # t => pc[s] \notin {"blocking", "ready"}
    BY <1>1 DEF Inv, MutexInv
  <1>3. CASE stop_the_threads
    <2>1. pc' = [pc EXCEPT ![t] = "halting"] /\ data' = data
      BY <1>3 DEF Take
    <2>2. Typed'
      BY <2>1 DEF Inv, Typed, PopPcs, control
    <2>3. StopInv'
      BY <1>1, <1>3, <2>1, Distinct DEF Inv, Typed, StopInv, Alive, control
    <2>4. MutexInv'
      BY <2>1, Distinct DEF Inv, Typed, MutexInv, NoEmptyPop, control
    <2> QED BY <2>2, <2>3, <2>4 DEF Inv
  <1>4. CASE ~stop_the_threads
    <2>1. data[Source[t]] \in Nat \ {0} /\ Source[t] \in Queues
      BY <1>1, <1>4, Distinct DEF Inv, Typed, MutexInv, NoEmptyPop
    <2>2. data' = [data EXCEPT ![Source[t]] = @ - 1]
      BY <1>4 DEF Take
    <2>3. PICK woken \in NotifyOne(Source[t]) \cup {pc} : pc' = [woken EXCEPT ![t] = "busy"]
      BY <1>4 DEF Take
    <2>4. /\ woken \in [Threads -> PopPcs \cup {"joining", "stopped"}]
          /\ \A s \in Threads : woken[s] = pc[s] \/ (pc[s] = "waiting" /\ woken[s] = "popping")
      BY <2>3, NotifyOneOnlyWakes DEF Inv, Typed
    <2>5. /\ pc' \in [Threads -> PopPcs \cup {"joining", "stopped"}]
          /\ pc'[t] = "busy"
          /\ \A s \in Threads \ {t} :
               pc'[s] = pc[s] \/ (pc[s] = "waiting" /\ pc'[s] = "popping")
      BY <2>3, <2>4 DEF PopPcs
    <2>6. Typed'
      BY <2>1, <2>2, <2>5 DEF Inv, Typed, control
    <2>7. StopInv'
      BY <1>1, <2>5, Distinct DEF Inv, StopInv, Alive, control
    <2>8. \A s \in Threads \ {t} : pc'[s] = "ready" => data'[Source[s]] = data[Source[s]]
      BY <1>2, <2>2, <2>5, Distinct DEF Inv, Typed
    <2>9. MutexInv'
      BY <2>5, <2>8 DEF Inv, MutexInv, NoEmptyPop, control
    <2> QED BY <2>6, <2>7, <2>9 DEF Inv
  <1> QED BY <1>3, <1>4

\* No step of a pop breaks the invariant (concurrent_queue.hpp:34-48).
LEMMA PopKeeps ==
    ASSUME Inv, NEW t \in Threads, Pop(t)
    PROVE  Inv'
  <1>1. UNCHANGED <<planning, control>>
    BY DEF Pop
  <1>2. CASE Evaluate(t)
    BY <1>1, <1>2, EvaluateKeeps
  <1>3. CASE Block(t)
    <2>1. MoveTo(t, "blocking", "waiting")
      BY <1>3 DEF Block, MoveTo
    <2> QED BY <1>1, <2>1, MoveKeeps
  <1>4. CASE Take(t)
    BY <1>1, <1>4, TakeKeeps
  <1> QED BY <1>2, <1>3, <1>4 DEF Pop

\* The end of a loop, for each kind of thread.
LEMMA HaltKeeps ==
    ASSUME Inv,
           ManagerHalt \/ ExecutorHalt \/ ExecutorJoined \/ (\E w \in Pool : WorkerHalt(w))
    PROVE  Inv'
  <1>1. CASE ManagerHalt
    <2>1. /\ pc["manager"] = "halting" /\ pc' = [pc EXCEPT !["manager"] = "stopped"]
          /\ data' = data /\ ~planning /\ planning' = planning
          /\ wait_threads' = wait_threads - 1
          /\ stop_the_threads' = stop_the_threads /\ stopper' = stopper
      BY <1>1 DEF ManagerHalt, MoveTo
    <2>2. Typed'
      BY <2>1 DEF Inv, Typed
    <2>3. stopper \notin {"running", "counted", "returned"}
      BY <2>1, Distinct DEF Inv, StopInv
    <2>4. StopInv'
      BY <2>1, <2>3, Distinct DEF Inv, Typed, StopInv, Alive
    <2>5. MutexInv'
      BY <2>1, Distinct DEF Inv, Typed, MutexInv, NoEmptyPop
    <2> QED BY <2>2, <2>4, <2>5 DEF Inv
  <1>2. CASE ExecutorHalt
    <2>1. /\ pc["executor"] = "halting"
          /\ pc' = [NotifyAll("pool") EXCEPT !["executor"] = "joining"]
          /\ data' = data /\ planning' = planning /\ wait_threads' = wait_threads
          /\ stop_the_threads' = stop_the_threads /\ stopper' = stopper
      BY <1>2 DEF ExecutorHalt
    <2>2. /\ NotifyAll("pool") \in [Threads -> PopPcs \cup {"joining", "stopped"}]
          /\ \A t \in Threads :
               \/ NotifyAll("pool")[t] = pc[t]
               \/ pc[t] = "waiting" /\ NotifyAll("pool")[t] = "popping"
      BY NotifyAllOnlyWakes DEF Inv, Typed
    <2>3. /\ pc' \in [Threads -> PopPcs \cup {"joining", "stopped"}]
          /\ pc'["executor"] = "joining"
          /\ \A t \in Threads \ {"executor"} :
               pc'[t] = pc[t] \/ (pc[t] = "waiting" /\ pc'[t] = "popping")
      BY <2>1, <2>2, Distinct DEF PopPcs
    <2>4. Typed'
      BY <2>1, <2>3 DEF Inv, Typed
    <2>5. StopInv'
      BY <2>1, <2>3, Distinct DEF Inv, StopInv, Alive
    <2>6. MutexInv'
      BY <2>1, <2>3 DEF Inv, MutexInv, NoEmptyPop
    <2> QED BY <2>4, <2>5, <2>6 DEF Inv
  <1>3. CASE ExecutorJoined
    <2>1. /\ pc["executor"] = "joining" /\ pc' = [pc EXCEPT !["executor"] = "stopped"]
          /\ \A w \in Pool : pc[w] = "stopped"
          /\ data' = data /\ planning' = planning
          /\ wait_threads' = wait_threads - 1
          /\ stop_the_threads' = stop_the_threads /\ stopper' = stopper
      BY <1>3 DEF ExecutorJoined, MoveTo
    <2>2. Typed'
      BY <2>1 DEF Inv, Typed
    <2>3. stopper \notin {"running", "counted", "returned"}
      BY <2>1, Distinct DEF Inv, StopInv
    <2>4. StopInv'
      BY <2>1, <2>3, Distinct DEF Inv, Typed, StopInv, Alive
    <2>5. MutexInv'
      BY <2>1, Distinct DEF Inv, Typed, MutexInv, NoEmptyPop
    <2> QED BY <2>2, <2>4, <2>5 DEF Inv
  <1>4. ASSUME NEW w \in Pool, WorkerHalt(w) PROVE Inv'
    <2>1. /\ pc[w] = "halting" /\ pc' = [pc EXCEPT ![w] = "stopped"]
          /\ data' = data /\ UNCHANGED <<planning, control>>
      BY <1>4 DEF WorkerHalt, MoveTo
    <2>2. Typed'
      BY <2>1 DEF Inv, Typed, control
    <2>3. stopper \notin {"running", "counted"}
      BY <2>1, Distinct DEF Inv, StopInv
    <2>4. StopInv'
      BY <2>1, <2>3, Distinct DEF Inv, Typed, StopInv, Alive, control
    <2>5. MutexInv'
      BY <2>1, Distinct DEF Inv, Typed, MutexInv, NoEmptyPop, control
    <2> QED BY <2>2, <2>4, <2>5 DEF Inv
  <1> QED BY <1>1, <1>2, <1>3, <1>4

\* stop_execution and the build after it.
LEMMA StopperKeeps ==
    ASSUME Inv, StopperStep
    PROVE  Inv'
  <1>1. CASE StopCount \/ StopFlag
    <2>1. /\ pc' = pc /\ data' = data /\ planning' = planning
          /\ \/ /\ stopper = "running" /\ stopper' = "counted"
                /\ wait_threads' = 2 /\ stop_the_threads' = stop_the_threads
             \/ /\ stopper = "counted" /\ stopper' = "flagged"
                /\ wait_threads' = wait_threads /\ stop_the_threads' = TRUE
      BY <1>1 DEF StopCount, StopFlag
    <2>2. Typed'
      BY <2>1 DEF Inv, Typed
    <2>3. StopInv'
      BY <2>1, Distinct DEF Inv, StopInv, Alive
    <2>4. MutexInv'
      BY <2>1 DEF Inv, Typed, MutexInv, NoEmptyPop
    <2> QED BY <2>2, <2>3, <2>4 DEF Inv
  <1>2. CASE StopNotifyPlanner \/ StopNotifyExecutor
    <2>1. /\ \E q \in Queues : pc' = NotifyAll(q)
          /\ data' = data /\ planning' = planning
          /\ wait_threads' = wait_threads /\ stop_the_threads' = stop_the_threads
          /\ stopper \in {"flagged", "planner_notified"}
          /\ stopper' \in {"planner_notified", "spinning"}
      BY <1>2 DEF StopNotifyPlanner, StopNotifyExecutor, NotifyStop, notify_stop, Queues
    <2>2. OnlyWakes
      BY <2>1, NotifyAllOnlyWakes DEF Inv, Typed, OnlyWakes
    <2>3. Typed'
      BY <2>1, <2>2 DEF Inv, Typed, OnlyWakes
    <2>4. StopInv'
      BY <2>1, <2>2, Distinct DEF Inv, StopInv, Alive, OnlyWakes
    <2>5. MutexInv'
      BY <2>1, <2>2 DEF Inv, MutexInv, NoEmptyPop, OnlyWakes
    <2> QED BY <2>3, <2>4, <2>5 DEF Inv
  <1>3. CASE StopReturn
    <2>1. /\ stopper = "spinning" /\ wait_threads = 0
          /\ stopper' = "returned" /\ stop_the_threads' = FALSE
          /\ pc' = pc /\ data' = data /\ planning' = planning
          /\ wait_threads' = wait_threads
      BY <1>3 DEF StopReturn
    <2>2. \A t \in Threads : pc[t] = "stopped"
      BY <2>1, Distinct DEF Inv, StopInv, Alive
    <2>3. Typed'
      BY <2>1 DEF Inv, Typed
    <2>4. StopInv'
      BY <2>1, <2>2, Distinct DEF Inv, StopInv, Alive
    <2>5. MutexInv'
      BY <2>1, <2>2 DEF Inv, MutexInv, NoEmptyPop
    <2> QED BY <2>3, <2>4, <2>5 DEF Inv
  <1>4. CASE Rebuild
    <2>1. /\ stopper = "returned" /\ stopper' = "running" /\ planning' = FALSE
          /\ stop_the_threads' = stop_the_threads
          /\ pc' = [t \in Threads |-> "popping"]
          /\ data' = [q \in Queues |-> IF q = "executor" THEN 2 ELSE 0]
      BY <1>4 DEF Rebuild
    <2>2. Typed'
      BY <2>1 DEF Inv, Typed, PopPcs
    <2>3. StopInv'
      BY <2>1, Distinct DEF Inv, StopInv
    <2>4. MutexInv'
      BY <2>1 DEF MutexInv, NoEmptyPop
    <2> QED BY <2>2, <2>3, <2>4 DEF Inv
  <1> QED BY <1>1, <1>2, <1>3, <1>4 DEF StopperStep

\* The invariant holds when the threads are created.
LEMMA InitInv == Init => Inv
  <1> SUFFICES ASSUME Init PROVE Inv
    OBVIOUS
  <1>1. Typed
    BY DEF Init, Typed, PopPcs
  <1>2. StopInv
    BY Distinct DEF Init, StopInv
  <1>3. MutexInv
    BY DEF Init, MutexInv, NoEmptyPop
  <1> QED BY <1>1, <1>2, <1>3 DEF Inv

\* Every step of a thread keeps the invariant.
LEMMA NextInv == Inv /\ [Next]_vars => Inv'
  <1> SUFFICES ASSUME Inv, [Next]_vars PROVE Inv'
    OBVIOUS
  <1>1. CASE UNCHANGED vars
    <2>1. UNCHANGED <<pc, data, planning, stop_the_threads, wait_threads, stopper>>
      BY <1>1 DEF vars, control
    <2>2. Typed'
      BY <2>1 DEF Inv, Typed
    <2>3. StopInv'
      BY <2>1 DEF Inv, StopInv, Alive
    <2>4. MutexInv'
      BY <2>1 DEF Inv, MutexInv, NoEmptyPop
    <2> QED BY <2>2, <2>3, <2>4 DEF Inv
  <1>2. ASSUME NEW t \in Threads, Pop(t) PROVE Inv'
    BY <1>2, PopKeeps
  <1>3. ASSUME NEW t \in Threads, Return(t) \/ SpuriousWakeUp(t) PROVE Inv'
    <2>1. CASE Return(t)
      <3>1. MoveTo(t, "busy", "popping") /\ UNCHANGED <<planning, control>>
        BY <2>1 DEF Return
      <3> QED BY <3>1, MoveKeeps
    <2>2. CASE SpuriousWakeUp(t)
      <3>1. MoveTo(t, "waiting", "popping") /\ UNCHANGED <<planning, control>>
        BY <2>2 DEF SpuriousWakeUp, WakeUp, MoveTo
      <3> QED BY <3>1, MoveKeeps
    <2> QED BY <1>3, <2>1, <2>2
  <1>4. CASE ManagerReturn
    <2>1. /\ MoveTo("manager", "busy", "popping")
          /\ UNCHANGED control
          /\ planning' = planning \/ planning' = TRUE
      BY <1>4 DEF ManagerReturn
    <2> QED BY <2>1, MoveKeeps, Distinct
  <1>5. CASE UserPush \/ ExecutorPush \/ PlannerPush \/ (\E w \in Pool : WorkerPush(w))
    <2>1. /\ \E q \in Queues : push(q)
          /\ UNCHANGED <<planning, control>>
      BY <1>5 DEF UserPush, ExecutorPush, PlannerPush, WorkerPush, Push, Queues
    <2> QED BY <2>1, PushKeeps DEF control
  <1>6. CASE PlannerEnd
    <2>1. /\ UNCHANGED <<pc, data, stop_the_threads, wait_threads, stopper>>
          /\ planning' = FALSE
      BY <1>6 DEF PlannerEnd, control
    <2>2. Typed'
      BY <2>1 DEF Inv, Typed
    <2>3. StopInv'
      BY <2>1 DEF Inv, StopInv, Alive
    <2>4. MutexInv'
      BY <2>1 DEF Inv, MutexInv, NoEmptyPop
    <2> QED BY <2>2, <2>3, <2>4 DEF Inv
  <1>7. CASE ManagerHalt \/ ExecutorHalt \/ ExecutorJoined \/ (\E w \in Pool : WorkerHalt(w))
    BY <1>7, HaltKeeps
  <1>8. CASE StopperStep
    BY <1>8, StopperKeeps
  <1>9. CASE Next
    BY <1>2, <1>3, <1>4, <1>5, <1>6, <1>7, <1>8, <1>9, Distinct
       DEF Next, ManagerStep, ExecutorStep, WorkerStep, PlannerStep
  <1> QED BY <1>1, <1>9

\* The invariant holds in every state of the shutdown.
LEMMA AlwaysInv == Spec => []Inv
  BY InitInv, NextInv, PTL DEF Spec

\* When stop_execution returns no thread of the library is left (thread.cpp:12-22).
THEOREM StopSafe == Spec => []StoppedMeansStopped
  <1>1. Inv => StoppedMeansStopped
    BY Distinct DEF Inv, StopInv, StoppedMeansStopped
  <1> QED BY <1>1, AlwaysInv, PTL

\* Whoever is about to take from an empty queue still sees the flag
\* (concurrent_queue.hpp:36-43).
THEOREM PopSafe == Spec => []NoEmptyPop
  <1>1. Inv => NoEmptyPop
    BY DEF Inv, MutexInv
  <1> QED BY <1>1, AlwaysInv, PTL

-----------------------------------------------------------------------------
(* The types.                                                              *)

\* The counters and the stopper stay in their types; wait_threads does because it
\* counts loops.
LEMMA NextType ==
    ASSUME TypeOK, Inv, Inv', [Next]_vars
    PROVE  TypeOK'
  <1>1. /\ pc' \in [Threads -> PopPcs \cup {"joining", "stopped"}]
        /\ data' \in [Queues -> Nat]
        /\ stop_the_threads' \in BOOLEAN
        /\ planning' \in BOOLEAN
    BY DEF Inv, Typed
  <1>2. stopper' \in StopperPcs
    BY DEF Next, ManagerStep, ExecutorStep, WorkerStep, PlannerStep, StopperStep, Pop, ManagerReturn,
           ManagerHalt, ExecutorPush, Return, ExecutorHalt, ExecutorJoined, WorkerPush, WorkerHalt,
           PlannerPush, PlannerEnd, UserPush, SpuriousWakeUp, StopCount, StopFlag,
           StopNotifyPlanner, StopNotifyExecutor, StopReturn, Rebuild, control, vars,
           TypeOK, StopperPcs
  <1>3. wait_threads' \in 0 .. 2
    <2>1. CASE stopper' = "running"
      <3>1. stopper = "running" => pc["manager"] # "halting" /\ pc["executor"] # "joining"
        BY Distinct DEF Inv, StopInv
      <3>2. stopper = "running" \/ Rebuild
        BY <2>1 DEF Next, ManagerStep, ExecutorStep, WorkerStep, PlannerStep, StopperStep, Pop,
           ManagerReturn, ManagerHalt, ExecutorPush, Return, ExecutorHalt, ExecutorJoined,
           WorkerPush, WorkerHalt, PlannerPush, PlannerEnd, UserPush, SpuriousWakeUp, StopCount,
           StopFlag, StopNotifyPlanner, StopNotifyExecutor, StopReturn, control, vars
      <3>3. wait_threads' = wait_threads
        BY <2>1, <3>1, <3>2
           DEF Next, ManagerStep, ExecutorStep, WorkerStep, PlannerStep, StopperStep, Pop,
           ManagerReturn, ManagerHalt, ExecutorPush, Return, ExecutorHalt, ExecutorJoined,
           WorkerPush, WorkerHalt, PlannerPush, PlannerEnd, UserPush, SpuriousWakeUp, StopCount,
           StopFlag, StopNotifyPlanner, StopNotifyExecutor, StopReturn, Rebuild, control, vars,
           MoveTo
      <3> QED
        BY <3>3 DEF TypeOK
    <2>2. CASE stopper' # "running"
      BY <1>2, <2>2 DEF Inv, StopInv, Alive, StopperPcs
    <2> QED
      BY <2>1, <2>2
  <1>4. missed' \in BOOLEAN
    BY DEF Next, ManagerStep, ExecutorStep, WorkerStep, PlannerStep, StopperStep, Pop, ManagerReturn,
           ManagerHalt, ExecutorPush, Return, ExecutorHalt, ExecutorJoined, WorkerPush, WorkerHalt,
           PlannerPush, PlannerEnd, UserPush, SpuriousWakeUp, StopCount, StopFlag, NotifyStop,
           StopNotifyPlanner, StopNotifyExecutor, StopReturn, Rebuild, control, vars, TypeOK
  <1>5. pushes' \in 0 .. MaxPushes /\ builds' \in 1 .. MaxBuilds
    BY ThreadAssumption
       DEF Next, ManagerStep, ExecutorStep, WorkerStep, PlannerStep, StopperStep, Pop, ManagerReturn,
           ManagerHalt, ExecutorPush, Return, ExecutorHalt, ExecutorJoined, WorkerPush, WorkerHalt,
           PlannerPush, PlannerEnd, UserPush, SpuriousWakeUp, StopCount, StopFlag, Push,
           StopNotifyPlanner, StopNotifyExecutor, StopReturn, Rebuild, counters, vars, TypeOK
  <1> QED
    BY <1>1, <1>2, <1>3, <1>4, <1>5 DEF TypeOK

\* The type of every variable; that wait_threads is never decremented below 0 is
\* part of it (thread.cpp:12-22).
THEOREM ThreadTypes == Spec => []TypeOK
  <1>1. Init => TypeOK
    <2> SUFFICES ASSUME Init PROVE TypeOK
      OBVIOUS
    <2>1. Typed
      BY InitInv DEF Inv
    <2>2. /\ stopper = "running" /\ missed = FALSE /\ wait_threads = 0
          /\ pushes = 0 /\ builds = 1
      BY DEF Init
    <2>3. pushes \in 0 .. MaxPushes /\ builds \in 1 .. MaxBuilds /\ wait_threads \in 0 .. 2
      BY <2>2, ThreadAssumption
    <2> QED
      BY <2>1, <2>2, <2>3 DEF Typed, TypeOK, StopperPcs
  <1>2. TypeOK /\ Inv /\ Inv' /\ [Next]_vars => TypeOK'
    BY NextType
  <1> QED
    BY <1>1, <1>2, AlwaysInv, PTL DEF Spec


-----------------------------------------------------------------------------
(* Sleepers.                                                               *)

\* The threads that are on their way to an element of q.
Coming(q) == Readers(q, {"popping", "ready"})

\* A thread that is about to sleep found no element, and it holds the mutex.
BlockedEmpty == \A t \in Threads : pc[t] = "blocking" => data[Source[t]] = 0

\* What no step breaks: sleepers are not needed, and who is about to sleep is right.
SleepInv == SleepersNotNeeded /\ BlockedEmpty

\* There are finitely many threads at any place.
LEMMA FewThreads ==
    ASSUME NEW S \in SUBSET Threads
    PROVE  IsFiniteSet(S) /\ Cardinality(S) \in Nat
  <1>1. Threads = (Pool \cup {"manager"}) \cup {"executor"}
    BY DEF Threads
  <1>2. IsFiniteSet(Threads)
    BY <1>1, ThreadAssumption, FS_AddElement
  <1> QED
    BY <1>2, FS_Subset, FS_CardinalityType

\* What a set's size does when its members change by one.
LEMMA Sizes ==
    ASSUME NEW A, NEW B, IsFiniteSet(A), IsFiniteSet(B)
    PROVE  /\ Cardinality(A) \in Nat /\ Cardinality(B) \in Nat
           /\ A \subseteq B => Cardinality(A) <= Cardinality(B)
           /\ \A x : x \in B \ A /\ A \subseteq B => Cardinality(A) + 1 <= Cardinality(B)
           /\ \A x : A \ {x} \subseteq B => Cardinality(A) - 1 <= Cardinality(B)
  <1>1. Cardinality(A) \in Nat /\ Cardinality(B) \in Nat
    BY FS_CardinalityType
  <1>2. A \subseteq B => Cardinality(A) <= Cardinality(B)
    BY FS_Subset
  <1>3. ASSUME NEW x, x \in B \ A, A \subseteq B
        PROVE  Cardinality(A) + 1 <= Cardinality(B)
    <2>1. Cardinality(A \cup {x}) = Cardinality(A) + 1
      BY <1>3, FS_AddElement
    <2>2. A \cup {x} \in SUBSET B
      BY <1>3
    <2>3. Cardinality(A \cup {x}) <= Cardinality(B)
      BY <2>2, FS_Subset
    <2> QED
      BY <2>1, <2>3
  <1>4. ASSUME NEW x, A \ {x} \subseteq B
        PROVE  Cardinality(A) - 1 <= Cardinality(B)
    <2>1. /\ IsFiniteSet(A \ {x})
          /\ Cardinality(A \ {x}) \in {Cardinality(A) - 1, Cardinality(A)}
      BY FS_RemoveElement
    <2>2. Cardinality(A \ {x}) <= Cardinality(B)
      BY <1>4, FS_Subset
    <2> QED
      BY <1>1, <2>1, <2>2
  <1> QED
    BY <1>1, <1>2, <1>3, <1>4

\* What a thread may do while the queues keep their elements: come to its queue,
\* see an element or the flag there, or sleep because there is none.
Quiet(t) ==
    \/ pc'[t] = pc[t]
    \/ pc[t] \notin {"popping", "ready"} /\ pc'[t] \notin {"waiting", "blocking"}
    \/ pc[t] = "popping" /\ pc'[t] = "ready"
    \/ pc'[t] \in {"waiting", "blocking"} /\ data[Source[t]] = 0
    \/ stop_the_threads' /\ pc'[t] # "blocking"

\* Such steps leave no sleeper whose element nobody fetches.
LEMMA QuietSleep ==
    ASSUME Typed, SleepInv, data' = data, stop_the_threads => stop_the_threads',
           \A t \in Threads : Quiet(t)
    PROVE  SleepInv'
  <1>1. BlockedEmpty'
    BY DEF SleepInv, BlockedEmpty, Quiet
  <1>2. ASSUME NEW q \in Queues, ~stop_the_threads', Readers(q, {"waiting"})' # {}
        PROVE  data'[q] <= Cardinality(Readers(q, {"popping", "ready"})')
    <2>1. /\ IsFiniteSet(Coming(q)) /\ Cardinality(Coming(q)) \in Nat
          /\ IsFiniteSet(Coming(q)') /\ Cardinality(Coming(q)') \in Nat
      <3>1. Coming(q) \in SUBSET Threads /\ Coming(q)' \in SUBSET Threads
        BY DEF Coming, Readers
      <3> QED
        BY <3>1, FewThreads
    <2>2. CASE data[q] = 0
      BY <2>1, <2>2 DEF Coming
    <2>3. CASE data[q] # 0
      <3>1. \A t \in Threads : Source[t] = q =>
              \/ pc'[t] = pc[t]
              \/ pc[t] \notin {"popping", "ready"} /\ pc'[t] \notin {"waiting", "blocking"}
              \/ pc[t] = "popping" /\ pc'[t] = "ready"
        BY <1>2, <2>3 DEF Quiet
      <3>2. Readers(q, {"waiting"}) # {}
        BY <1>2, <3>1 DEF Readers
      <3>3. Coming(q) \subseteq Coming(q)'
        BY <3>1 DEF Coming, Readers
      <3>4. data[q] <= Cardinality(Coming(q))
        BY <1>2, <3>2 DEF SleepInv, SleepersNotNeeded, Coming
      <3>5. Cardinality(Coming(q)) <= Cardinality(Coming(q)')
        BY <2>1, <3>3, Sizes
      <3> QED
        BY <2>1, <3>4, <3>5 DEF Coming, Typed
    <2> QED
      BY <2>2, <2>3
  <1> QED
    BY <1>1, <1>2 DEF SleepInv, SleepersNotNeeded

\* A push to a queue with a sleeper wakes one: one more element, and one more thread
\* that comes for it (concurrent_queue.hpp:28-32).
LEMMA PushSleep ==
    ASSUME Inv, SleepInv, NEW q \in Queues, push(q), stop_the_threads' = stop_the_threads
    PROVE  SleepInv'
  <1>1. OnlyWakes
    BY NotifyOneOnlyWakes DEF Inv, Typed, push, OnlyWakes
  <1>2. data' = [data EXCEPT ![q] = @ + 1] /\ data \in [Queues -> Nat]
    BY DEF push, Inv, Typed
  <1>3. \A t \in Threads : Source[t] = q => pc[t] # "blocking"
    BY DEF push, Unlocked, Readers
  <1>4. BlockedEmpty'
    BY <1>1, <1>2, <1>3, Distinct DEF OnlyWakes, SleepInv, BlockedEmpty
  <1>5. ASSUME NEW r \in Queues, ~stop_the_threads', Readers(r, {"waiting"})' # {}
        PROVE  data'[r] <= Cardinality(Readers(r, {"popping", "ready"})')
    <2>1. /\ IsFiniteSet(Coming(r)) /\ Cardinality(Coming(r)) \in Nat
          /\ IsFiniteSet(Coming(r)') /\ Cardinality(Coming(r)') \in Nat
      <3>1. Coming(r) \in SUBSET Threads /\ Coming(r)' \in SUBSET Threads
        BY DEF Coming, Readers
      <3> QED
        BY <3>1, FewThreads
    <2>2. Readers(r, {"waiting"}) # {}
      BY <1>1, <1>5 DEF OnlyWakes, Readers
    <2>3. data[r] <= Cardinality(Coming(r))
      BY <1>5, <2>2 DEF SleepInv, SleepersNotNeeded, Coming
    <2>4. Coming(r) \subseteq Coming(r)'
      BY <1>1 DEF OnlyWakes, Coming, Readers
    <2>5. CASE r # q
      <3>1. Cardinality(Coming(r)) <= Cardinality(Coming(r)')
        BY <2>1, <2>4, Sizes
      <3> QED
        BY <1>2, <2>1, <2>3, <2>5, <3>1 DEF Coming
    <2>6. CASE r = q
      <3>1. PICK w \in Readers(q, {"waiting"}) : pc' = [pc EXCEPT ![w] = "popping"]
        BY <2>2, <2>6 DEF push, NotifyOne
      <3>2. w \in Coming(r)' \ Coming(r)
        BY <2>6, <3>1 DEF Coming, Readers, Inv, Typed
      <3>3. Cardinality(Coming(r)) + 1 <= Cardinality(Coming(r)')
        BY <2>1, <2>4, <3>2, Sizes
      <3> QED
        BY <1>2, <2>1, <2>3, <2>6, <3>3 DEF Coming
    <2> QED
      BY <2>5, <2>6
  <1> QED
    BY <1>4, <1>5 DEF SleepInv, SleepersNotNeeded

\* A thread that takes an element no longer comes for one (concurrent_queue.hpp:34-48).
LEMMA TakeSleep ==
    ASSUME Inv, SleepInv, NEW t \in Threads, Take(t), ~stop_the_threads,
           stop_the_threads' = stop_the_threads
    PROVE  SleepInv'
  <1> DEFINE q == Source[t]
  <1>1. pc[t] = "ready" /\ q \in Queues /\ data[q] \in Nat \ {0}
    BY Distinct DEF Take, Inv, Typed, MutexInv, NoEmptyPop
  <1>2. data' = [data EXCEPT ![q] = @ - 1] /\ data \in [Queues -> Nat]
    BY DEF Take, Inv, Typed
  <1>3. PICK woken \in NotifyOne(q) \cup {pc} : pc' = [woken EXCEPT ![t] = "busy"]
    BY DEF Take
  <1>4. /\ woken \in [Threads -> PopPcs \cup {"joining", "stopped"}]
        /\ \A s \in Threads : woken[s] = pc[s] \/ (pc[s] = "waiting" /\ woken[s] = "popping")
    BY <1>3, NotifyOneOnlyWakes DEF Inv, Typed
  <1>5. /\ pc'[t] = "busy"
        /\ \A s \in Threads \ {t} : pc'[s] = pc[s] \/ (pc[s] = "waiting" /\ pc'[s] = "popping")
    BY <1>3, <1>4
  <1>6. \A s \in Threads : Source[s] = q /\ s # t => pc[s] # "blocking"
    BY <1>1 DEF Inv, MutexInv
  <1>7. BlockedEmpty'
    BY <1>2, <1>5, <1>6, Distinct DEF SleepInv, BlockedEmpty
  <1>8. ASSUME NEW r \in Queues, Readers(r, {"waiting"})' # {}
        PROVE  data'[r] <= Cardinality(Readers(r, {"popping", "ready"})')
    <2>1. /\ IsFiniteSet(Coming(r)) /\ Cardinality(Coming(r)) \in Nat
          /\ IsFiniteSet(Coming(r)') /\ Cardinality(Coming(r)') \in Nat
      <3>1. Coming(r) \in SUBSET Threads /\ Coming(r)' \in SUBSET Threads
        BY DEF Coming, Readers
      <3> QED
        BY <3>1, FewThreads
    <2>2. Readers(r, {"waiting"}) # {}
      BY <1>5, <1>8 DEF Readers
    <2>3. data[r] <= Cardinality(Coming(r))
      BY <2>2 DEF SleepInv, SleepersNotNeeded, Coming
    <2>4. CASE r # q
      <3>1. Coming(r) \subseteq Coming(r)'
        BY <1>5, <2>4 DEF Coming, Readers
      <3>2. Cardinality(Coming(r)) <= Cardinality(Coming(r)')
        BY <2>1, <3>1, Sizes
      <3> QED
        BY <1>2, <2>1, <2>3, <2>4, <3>2 DEF Coming
    <2>5. CASE r = q
      <3>1. Coming(r) \ {t} \subseteq Coming(r)'
        BY <1>5 DEF Coming, Readers
      <3>2. Cardinality(Coming(r)) - 1 <= Cardinality(Coming(r)')
        BY <2>1, <3>1, Sizes
      <3>3. data'[r] = data[r] - 1 /\ data[r] \in Nat
        BY <1>2, <2>5
      <3> QED
        BY <2>1, <2>3, <3>2, <3>3 DEF Coming
    <2> QED
      BY <2>4, <2>5
  <1> QED
    BY <1>7, <1>8 DEF SleepInv, SleepersNotNeeded

\* Every step of a thread keeps the invariant of the sleepers.
LEMMA NextSleep ==
    ASSUME Inv, Inv', SleepInv, [Next]_vars
    PROVE  SleepInv'
  <1>1. Typed
    BY DEF Inv
  <1>2. ASSUME data' = data, stop_the_threads => stop_the_threads', \A t \in Threads : Quiet(t)
        PROVE  SleepInv'
    BY <1>1, <1>2, QuietSleep
  <1>3. ASSUME NEW t \in Threads, NEW to,
               pc' = [pc EXCEPT ![t] = to], data' = data, UNCHANGED stop_the_threads,
               \/ pc[t] \notin {"popping", "ready"} /\ to \notin {"waiting", "blocking"}
               \/ pc[t] = "popping" /\ to = "ready"
               \/ to \in {"waiting", "blocking"} /\ data[Source[t]] = 0
               \/ stop_the_threads /\ to # "blocking"
        PROVE  SleepInv'
    <2>1. \A s \in Threads : Quiet(s)
      BY <1>1, <1>3 DEF Quiet, Typed
    <2> QED
      BY <1>2, <1>3, <2>1
  <1>4. ASSUME NEW t \in Threads, Pop(t) PROVE SleepInv'
    <2>1. UNCHANGED stop_the_threads
      BY <1>4 DEF Pop, control
    <2>2. CASE Evaluate(t)
      <3>1. CASE data[Source[t]] > 0 \/ stop_the_threads
        <4>1. pc[t] = "popping" /\ pc' = [pc EXCEPT ![t] = "ready"] /\ data' = data
          BY <2>2, <3>1 DEF Evaluate
        <4> QED
          BY <1>3, <2>1, <4>1
      <3>2. CASE ~(data[Source[t]] > 0 \/ stop_the_threads)
        <4>1. pc' = [pc EXCEPT ![t] = "blocking"] /\ data' = data
          BY <2>2, <3>2 DEF Evaluate
        <4>2. data[Source[t]] = 0
          BY <1>1, <3>2, Distinct DEF Typed
        <4> QED
          BY <1>3, <2>1, <4>1, <4>2
      <3> QED
        BY <3>1, <3>2
    <2>3. CASE Block(t)
      <3>1. pc' = [pc EXCEPT ![t] = "waiting"] /\ data' = data /\ data[Source[t]] = 0
        BY <2>3 DEF Block, SleepInv, BlockedEmpty
      <3> QED
        BY <1>3, <2>1, <3>1
    <2>4. CASE Take(t) /\ stop_the_threads
      <3>1. pc' = [pc EXCEPT ![t] = "halting"] /\ data' = data
        BY <2>4 DEF Take
      <3> QED
        BY <1>3, <2>1, <2>4, <3>1
    <2>5. CASE Take(t) /\ ~stop_the_threads
      BY <2>1, <2>5, TakeSleep
    <2> QED
      BY <1>4, <2>2, <2>3, <2>4, <2>5 DEF Pop
  <1>5. ASSUME NEW t \in Threads, NEW from, NEW to, MoveTo(t, from, to),
               from \notin {"popping", "ready"}, to \notin {"waiting", "blocking"},
               UNCHANGED stop_the_threads
        PROVE  SleepInv'
    BY <1>3, <1>5 DEF MoveTo
  <1>6. ASSUME NEW t \in Threads, Return(t) \/ SpuriousWakeUp(t) PROVE SleepInv'
    <2>1. CASE Return(t)
      <3>1. MoveTo(t, "busy", "popping") /\ UNCHANGED stop_the_threads
        BY <2>1 DEF Return, control
      <3> QED
        BY <1>5, <3>1
    <2>2. CASE SpuriousWakeUp(t)
      <3>1. MoveTo(t, "waiting", "popping") /\ UNCHANGED stop_the_threads
        BY <2>2 DEF SpuriousWakeUp, WakeUp, MoveTo, control
      <3> QED
        BY <1>5, <3>1
    <2> QED
      BY <1>6, <2>1, <2>2
  <1>7. CASE ManagerReturn \/ ManagerHalt \/ ExecutorJoined \/ (\E w \in Pool : WorkerHalt(w))
    <2>1. \E t \in Threads, from \in {"busy", "halting", "joining"},
             to \in {"popping", "stopped"} : MoveTo(t, from, to)
      BY <1>7, Distinct DEF ManagerReturn, ManagerHalt, ExecutorJoined, WorkerHalt
    <2>2. UNCHANGED stop_the_threads
      BY <1>7 DEF ManagerReturn, ManagerHalt, ExecutorJoined, WorkerHalt, control
    <2> QED
      BY <1>5, <2>1, <2>2
  <1>8. CASE UserPush \/ ExecutorPush \/ PlannerPush \/ (\E w \in Pool : WorkerPush(w))
    <2>1. \E q \in Queues : push(q)
      BY <1>8 DEF UserPush, ExecutorPush, PlannerPush, WorkerPush, Push, Queues
    <2>2. UNCHANGED stop_the_threads
      BY <1>8 DEF UserPush, ExecutorPush, PlannerPush, WorkerPush, control
    <2> QED
      BY <2>1, <2>2, PushSleep
  <1>9. CASE ExecutorHalt \/ StopNotifyPlanner \/ StopNotifyExecutor
    <2>1. /\ data' = data /\ UNCHANGED stop_the_threads
          /\ \E q \in Queues : \/ pc' = NotifyAll(q)
                               \/ /\ pc["executor"] = "halting"
                                  /\ pc' = [NotifyAll(q) EXCEPT !["executor"] = "joining"]
      BY <1>9 DEF ExecutorHalt, StopNotifyPlanner, StopNotifyExecutor, NotifyStop, notify_stop,
                  Queues
    <2>2. PICK q \in Queues :
            \/ pc' = NotifyAll(q)
            \/ /\ pc["executor"] = "halting"
               /\ pc' = [NotifyAll(q) EXCEPT !["executor"] = "joining"]
      BY <2>1
    <2>3. \A t \in Threads : \/ NotifyAll(q)[t] = pc[t]
                             \/ pc[t] = "waiting" /\ NotifyAll(q)[t] = "popping"
      BY <1>1, NotifyAllOnlyWakes DEF Typed
    <2>4. NotifyAll(q) \in [Threads -> PopPcs \cup {"joining", "stopped"}]
      BY <1>1, NotifyAllOnlyWakes DEF Typed
    <2>5. \A t \in Threads : Quiet(t)
      BY <2>2, <2>3, <2>4, Distinct DEF Quiet
    <2> QED
      BY <1>2, <2>1, <2>5
  <1>10. CASE PlannerEnd \/ StopCount \/ StopFlag \/ UNCHANGED vars
    <2>1. pc' = pc /\ data' = data /\ (stop_the_threads => stop_the_threads')
      BY <1>10 DEF PlannerEnd, StopCount, StopFlag, vars, control
    <2> QED
      BY <1>2, <2>1 DEF Quiet
  <1>11. CASE StopReturn
    <2>1. stopper' = "returned" /\ pc' = pc
      BY <1>11 DEF StopReturn
    <2>2. \A t \in Threads : pc'[t] = "stopped"
      BY <2>1, Distinct DEF Inv, StopInv
    <2> QED
      BY <2>2 DEF SleepInv, SleepersNotNeeded, BlockedEmpty, Readers
  <1>12. CASE Rebuild
    <2>1. \A t \in Threads : pc'[t] = "popping"
      BY <1>12 DEF Rebuild
    <2> QED
      BY <2>1 DEF SleepInv, SleepersNotNeeded, BlockedEmpty, Readers
  <1> QED
    BY <1>4, <1>6, <1>7, <1>8, <1>9, <1>10, <1>11, <1>12, Distinct
       DEF Next, ManagerStep, ExecutorStep, WorkerStep, PlannerStep, StopperStep

\* No element waits for a busy thread while another one sleeps: every wake-up that
\* is needed is sent (concurrent_queue.hpp:31, 44-46).
THEOREM NoneOversleeps == Spec => []SleepersNotNeeded
  <1>1. Init => SleepInv
    BY DEF Init, SleepInv, SleepersNotNeeded, BlockedEmpty, Readers
  <1>2. Inv /\ Inv' /\ SleepInv /\ [Next]_vars => SleepInv'
    BY NextSleep
  <1>3. SleepInv => SleepersNotNeeded
    BY DEF SleepInv
  <1> QED
    BY <1>1, <1>2, <1>3, AlwaysInv, PTL DEF Spec

=============================================================================
