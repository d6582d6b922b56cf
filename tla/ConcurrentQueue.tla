--------------------------- MODULE ConcurrentQueue ---------------------------
(***************************************************************************)
(* ConcurrentQueue (concurrent_queue.hpp): the queue a thread sleeps on    *)
(* until it gets an element or is told to stop.  A queue is the number of  *)
(* its elements; its mutex is held by the thread that is between the       *)
(* evaluation of pop's predicate and the end of pop, or of the wait.       *)
(***************************************************************************)
EXTENDS Integers, FiniteSets

CONSTANTS
    Queues,   \* the instances of ConcurrentQueue
    Threads,  \* the threads that pop from one
    Source    \* the queue each of them pops from

VARIABLES
    stop_the_threads,  \* the flag of thread.hpp
    data,              \* number of elements of each queue
    pc                 \* where each thread is

\* busy: not in pop; popping: before the mutex; blocking: the predicate was
\* false; waiting: asleep; ready: the predicate was true; halting: pop returned
\* nullopt.  Blocking and ready threads hold the mutex.
PopPcs == {"busy", "popping", "blocking", "waiting", "ready", "halting"}

Readers(q, pcs) == {t \in Threads : Source[t] = q /\ pc[t] \in pcs}

Unlocked(q) == Readers(q, {"blocking", "ready"}) = {}

\* notify_one and notify_all: where the threads may be afterwards.
NotifyOne(q) ==
    IF Readers(q, {"waiting"}) = {}
      THEN {pc}
      ELSE {[pc EXCEPT ![t] = "popping"] : t \in Readers(q, {"waiting"})}

NotifyAll(q) ==
    [t \in Threads |-> IF t \in Readers(q, {"waiting"}) THEN "popping" ELSE pc[t]]

\* Mutant of push: it wakes nobody.
PushSilently(q) ==
    /\ Unlocked(q)
    /\ data' = [data EXCEPT ![q] = @ + 1]
    /\ UNCHANGED pc

push(q) ==
    /\ Unlocked(q)
    /\ data' = [data EXCEPT ![q] = @ + 1]
    /\ pc' \in NotifyOne(q)

\* pop, first half: take the mutex and evaluate the predicate of the wait.
Evaluate(t) ==
    /\ pc[t] = "popping"
    /\ Unlocked(Source[t])
    /\ pc' = [pc EXCEPT ![t] =
                IF data[Source[t]] > 0 \/ stop_the_threads THEN "ready" ELSE "blocking"]
    /\ UNCHANGED data

\* The predicate was false: sleep, and release the mutex in the same step.
Block(t) ==
    /\ pc[t] = "blocking"
    /\ pc' = [pc EXCEPT ![t] = "waiting"]
    /\ UNCHANGED data

\* The condition variable may wake a thread without a notification.
WakeUp(t) ==
    /\ pc[t] = "waiting"
    /\ pc' = [pc EXCEPT ![t] = "popping"]
    /\ UNCHANGED data

\* pop, second half: the flag is read again, and decides alone.
Take(t) ==
    /\ pc[t] = "ready"
    /\ IF stop_the_threads
         THEN /\ pc' = [pc EXCEPT ![t] = "halting"]
              /\ UNCHANGED data
         ELSE LET q == Source[t]
              IN  /\ data' = [data EXCEPT ![q] = @ - 1]
                  /\ IF data[q] > 1
                       THEN \E woken \in NotifyOne(q) : pc' = [woken EXCEPT ![t] = "busy"]
                       ELSE pc' = [pc EXCEPT ![t] = "busy"]

\* notify_stop: without the mutex.
notify_stop(q) ==
    /\ pc' = NotifyAll(q)
    /\ UNCHANGED data

=============================================================================
