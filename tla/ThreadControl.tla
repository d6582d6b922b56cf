---------------------------- MODULE ThreadControl ----------------------------
(***************************************************************************)
(* The threads of the library and how they are stopped (thread.cpp,        *)
(* thread_pool.cpp, and the ends of the loops in executor.cpp and          *)
(* planner.cpp).  What the messages say is left out: a thread that handles *)
(* one may push messages, as many as the bound allows.                     *)
(***************************************************************************)
EXTENDS Integers, FiniteSets

CONSTANTS
    Pool,       \* the threads of the Executor's ThreadPool
    MaxPushes,  \* bound on the pushes between two builds
    MaxBuilds   \* bound on the number of builds

ASSUME ThreadAssumption ==
    /\ IsFiniteSet(Pool)
    /\ Pool # {}
    /\ Pool \cap {"manager", "executor"} = {}
    /\ MaxPushes \in Nat
    /\ MaxBuilds \in Nat \ {0}

Queues == {"planner", "executor", "pool"}
Threads == {"manager", "executor"} \cup Pool
Source ==
    [t \in Threads |-> CASE t = "manager" -> "planner"
                         [] t = "executor" -> "executor"
                         [] OTHER -> "pool"]

VARIABLES
    stop_the_threads, data, pc,
    wait_threads,  \* the loops stop_execution waits for
    planning,      \* whether a planner thread runs
    stopper,       \* where the thread that calls stop_execution is
    missed,        \* whether a notify_stop found a thread between test and sleep
    pushes,        \* number of pushes since the last build
    builds         \* number of builds

INSTANCE ConcurrentQueue

counters == <<pushes, builds>>
control == <<stop_the_threads, wait_threads, stopper, missed>>
vars == <<data, pc, planning, control, counters>>

StopperPcs == {"running", "counted", "flagged", "planner_notified", "spinning", "returned"}

-----------------------------------------------------------------------------
(* Messages.                                                               *)

Push(q) ==
    /\ pushes < MaxPushes
    /\ pushes' = pushes + 1
    /\ push(q)

\* A user's thread registers or executes a transaction.
UserPush ==
    /\ Push("executor")
    /\ UNCHANGED <<planning, control, builds>>

\* The handlers of the Executor tell the planner and hand tasks to the pool.
ExecutorPush ==
    /\ pc["executor"] = "busy"
    /\ Push("planner") \/ Push("pool")
    /\ UNCHANGED <<planning, control, builds>>

\* A task reports to the planner.
WorkerPush(w) ==
    /\ pc[w] = "busy"
    /\ Push("planner")
    /\ UNCHANGED <<planning, control, builds>>

\* The planner thread proposes work.
PlannerPush ==
    /\ planning
    /\ Push("executor")
    /\ UNCHANGED <<planning, control, builds>>

PlannerEnd ==
    /\ planning
    /\ planning' = FALSE
    /\ UNCHANGED <<data, pc, control, counters>>

-----------------------------------------------------------------------------
(* The loops.                                                              *)

Pop(t) ==
    /\ Evaluate(t) \/ Block(t) \/ Take(t)
    /\ UNCHANGED <<planning, control, counters>>

SpuriousWakeUp(t) ==
    /\ WakeUp(t)
    /\ UNCHANGED <<planning, control, counters>>

MoveTo(t, from, to) ==
    /\ pc[t] = from
    /\ pc' = [pc EXCEPT ![t] = to]
    /\ UNCHANGED data

\* A message was handled: pop the next one.
Return(t) ==
    /\ t # "manager"
    /\ MoveTo(t, "busy", "popping")
    /\ UNCHANGED <<planning, control, counters>>

\* A message that needs no refresh leaves the planner thread alone; another one
\* is handled after the planner thread is joined, and starts a new one.
ManagerReturn ==
    /\ MoveTo("manager", "busy", "popping")
    /\ \/ UNCHANGED planning
       \/ ~planning /\ planning' = TRUE
    /\ UNCHANGED <<control, counters>>

WorkerHalt(w) ==
    /\ MoveTo(w, "halting", "stopped")
    /\ UNCHANGED <<planning, control, counters>>

\* Mutant of ManagerHalt: the planner thread is not joined.
ManagerHaltWithoutJoin ==
    /\ MoveTo("manager", "halting", "stopped")
    /\ wait_threads' = wait_threads - 1
    /\ UNCHANGED <<planning, stop_the_threads, stopper, missed, counters>>

\* start_loop of the manager ends with stop_planning.
ManagerHalt ==
    /\ ~planning
    /\ MoveTo("manager", "halting", "stopped")
    /\ wait_threads' = wait_threads - 1
    /\ UNCHANGED <<planning, stop_the_threads, stopper, missed, counters>>

\* notify_stop, with a note of a thread that will sleep all the same.
NotifyStop(q) ==
    /\ notify_stop(q)
    /\ missed' = (missed \/ Readers(q, {"blocking"}) # {})

\* Mutant of ExecutorHalt: the pool is joined but not notified.
ExecutorHaltSilently ==
    /\ MoveTo("executor", "halting", "joining")
    /\ UNCHANGED <<planning, control, counters>>

\* ThreadPool::stop notifies the workers, then joins every one of them.
ExecutorHalt ==
    /\ pc["executor"] = "halting"
    /\ pc' = [NotifyAll("pool") EXCEPT !["executor"] = "joining"]
    /\ missed' = (missed \/ Readers("pool", {"blocking"}) # {})
    /\ UNCHANGED <<data, planning, stop_the_threads, wait_threads, stopper, counters>>

\* Mutant of ExecutorJoined: the workers are left alone.
ExecutorJoinedNone ==
    /\ MoveTo("executor", "joining", "stopped")
    /\ wait_threads' = wait_threads - 1
    /\ UNCHANGED <<planning, stop_the_threads, stopper, missed, counters>>

ExecutorJoined ==
    /\ \A w \in Pool : pc[w] = "stopped"
    /\ MoveTo("executor", "joining", "stopped")
    /\ wait_threads' = wait_threads - 1
    /\ UNCHANGED <<planning, stop_the_threads, stopper, missed, counters>>

-----------------------------------------------------------------------------
(* stop_execution, statement by statement.                                 *)

\* Mutant of StopCount: one loop is forgotten.
StopCountOne ==
    /\ stopper = "running"
    /\ stopper' = "counted"
    /\ wait_threads' = 1
    /\ UNCHANGED <<data, pc, planning, stop_the_threads, missed, counters>>

StopCount ==
    /\ stopper = "running"
    /\ stopper' = "counted"
    /\ wait_threads' = 2
    /\ UNCHANGED <<data, pc, planning, stop_the_threads, missed, counters>>

StopFlag ==
    /\ stopper = "counted"
    /\ stopper' = "flagged"
    /\ stop_the_threads' = TRUE
    /\ UNCHANGED <<data, pc, planning, wait_threads, missed, counters>>

StopNotifyPlanner ==
    /\ stopper = "flagged"
    /\ stopper' = "planner_notified"
    /\ NotifyStop("planner")
    /\ UNCHANGED <<planning, stop_the_threads, wait_threads, counters>>

StopNotifyExecutor ==
    /\ stopper = "planner_notified"
    /\ stopper' = "spinning"
    /\ NotifyStop("executor")
    /\ UNCHANGED <<planning, stop_the_threads, wait_threads, counters>>

StopReturn ==
    /\ stopper = "spinning"
    /\ wait_threads = 0
    /\ stopper' = "returned"
    /\ stop_the_threads' = FALSE
    /\ UNCHANGED <<data, pc, planning, wait_threads, missed, counters>>

\* initialize empties the two static queues; build starts new threads, and its
\* after_build_hooks register and execute a transaction.
Rebuild ==
    /\ stopper = "returned"
    /\ builds < MaxBuilds
    /\ stopper' = "running"
    /\ data' = [q \in Queues |-> IF q = "executor" THEN 2 ELSE 0]
    /\ pc' = [t \in Threads |-> "popping"]
    /\ planning' = FALSE
    /\ missed' = FALSE
    /\ pushes' = 0
    /\ builds' = builds + 1
    /\ UNCHANGED <<stop_the_threads, wait_threads>>

-----------------------------------------------------------------------------
\* The state a build leaves.
Init ==
    /\ stop_the_threads = FALSE
    /\ data = [q \in Queues |-> IF q = "executor" THEN 2 ELSE 0]
    /\ pc = [t \in Threads |-> "popping"]
    /\ wait_threads = 0
    /\ planning = FALSE
    /\ stopper = "running"
    /\ missed = FALSE
    /\ pushes = 0
    /\ builds = 1

ManagerStep == Pop("manager") \/ ManagerReturn \/ ManagerHalt

ExecutorStep ==
    \/ Pop("executor") \/ ExecutorPush \/ Return("executor")
    \/ ExecutorHalt \/ ExecutorJoined

WorkerStep(w) == Pop(w) \/ WorkerPush(w) \/ Return(w) \/ WorkerHalt(w)

PlannerStep == PlannerPush \/ PlannerEnd

StopperStep ==
    StopCount \/ StopFlag \/ StopNotifyPlanner \/ StopNotifyExecutor \/ StopReturn \/ Rebuild

Next ==
    \/ ManagerStep
    \/ ExecutorStep
    \/ \E w \in Pool : WorkerStep(w)
    \/ PlannerStep
    \/ StopperStep
    \/ UserPush
    \/ \E t \in Threads : SpuriousWakeUp(t)

Spec == Init /\ [][Next]_vars

\* Every thread runs.  Nothing is assumed of users, nor of spurious wake-ups.
Fairness ==
    /\ WF_vars(ManagerStep)
    /\ WF_vars(ExecutorStep)
    /\ \A w \in Pool : WF_vars(WorkerStep(w))
    /\ WF_vars(PlannerStep)
    /\ WF_vars(StopperStep)

FairSpec == Spec /\ Fairness

-----------------------------------------------------------------------------
\* The type of every variable (thread.hpp:11-16, concurrent_queue.hpp:10-12).
TypeOK ==
    /\ stop_the_threads \in BOOLEAN
    /\ data \in [Queues -> Nat]
    /\ pc \in [Threads -> PopPcs \cup {"joining", "stopped"}]
    /\ wait_threads \in 0 .. 2
    /\ planning \in BOOLEAN
    /\ stopper \in StopperPcs
    /\ missed \in BOOLEAN
    /\ pushes \in 0 .. MaxPushes
    /\ builds \in 1 .. MaxBuilds

\* pop reads stop_the_threads twice.  A thread the flag let through reaches the
\* front of an empty queue if stop_execution takes the flag back in between:
\* whoever is about to take from an empty queue still sees the flag
\* (concurrent_queue.hpp:36-43, thread.cpp:21).
NoEmptyPop ==
    \A t \in Threads : pc[t] = "ready" /\ data[Source[t]] = 0 => stop_the_threads

\* When stop_execution returns no thread of the library is left: the next
\* initialize resets what they use (prf.cpp:21-31, test_utils.hpp:4-11).
StoppedMeansStopped ==
    stopper = "returned" => ~planning /\ \A t \in Threads : pc[t] = "stopped"

\* No element waits for a busy thread while another one sleeps: to the elements
\* of a queue with a sleeper correspond threads that are on their way to it
\* (concurrent_queue.hpp:31, 44-46).
SleepersNotNeeded ==
    \A q \in Queues :
        ~stop_the_threads /\ Readers(q, {"waiting"}) # {} =>
            data[q] <= Cardinality(Readers(q, {"popping", "ready"}))

\* stop_execution returns, unless a thread went to sleep on a notification that
\* came between its test of the predicate and its wait.
StopReturnsUnlessMissed ==
    stopper = "counted" ~> stopper = "returned" \/ missed

\* stop_execution stops the threads and returns (document.md:36; thread.hpp:20
\* excepts only threads that are stopped already).
StopReturns == stopper = "counted" ~> stopper = "returned"

=============================================================================
