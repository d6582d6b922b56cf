# Verification of PRF

PRF is a C++ library for functional reactive programming that runs the updates
of a dependency graph in transactions, on a pool of threads. This directory
holds TLA+ models of it, the TLC configurations that check them on small
instances, and TLAPS proofs of what matters most. Paths below are those of the
repository; `prf/` stands for `src/prf/` in it.

Run a check with `tlc -config Parallel.cfg MCEngine` and a proof with
`tlapm OrderProofs.tla`. `PROJECT.json` lists the runs, the source lines each
definition models, the hazards the properties are aimed at, the mutants that
show each property can fail, and the findings.

## 1. Inventory

| Component | State | Operations | Talks to |
|---|---|---|---|
| **PlannerManager** and planner thread (`prf/planner.*`) | `transaction_states` (deque, oldest first, consecutive IDs), `running_planners`, `stop_planning_needed` | handle Start, Update, Finish; stop, join and restart the planner thread; `simple_planner`, `rank_based_planner` | reads its queue `PlannerManager::messages`; the planner thread pushes proposals to `Executor::messages` |
| **Executor** (`prf/executor.*`) | `transactions`, `transaction_updatings`, the two lists of before-update hooks | handle Register, Execute, StartUpdate, Finalize; run a task in the pool | reads `Executor::messages`; pushes reports to the manager and tasks to the pool; runs listeners; wakes users |
| **Transactions** (`prf/transaction.*`) | per transaction: ID, targets in and outside the current cluster, cleanups, hooks; thread-local `current_transaction`; the `inner` pointer of every Transaction object and the message of every JoinHandler | create, nest, send, submit, wait, move, join; generate a sub-transaction, execute it, merge its result; finalize; free what was allocated | pushes Register and Execute; used by users, by the Executor and by tasks |
| **Dependency graph** (`prf/node.*`, `cluster.*`, `union_find.*`, `rank.*`, `time_invariant_values.*`) | nodes, edges, loops, cluster IDs and ranks; the cluster counter | declare nodes and clusters; `build`: split by associates, rank clusters, rank nodes in clusters | read by planners (ranks) and transactions (cluster IDs) |
| **Queue, pool, threads** (`prf/concurrent_queue.hpp`, `thread_pool.*`, `thread.*`, `prf.cpp`) | mutex, condition variable and data of each queue; `stop_the_threads`, `wait_threads` | push, pop, try_pop, notify_stop; start and stop of every thread; `initialize` | everything above |
| **Cells and streams** (`prf/cell.hpp`, `prf/stream.hpp`) | values by transaction ID, listeners | map, lift, snapshot, merge, hold, filter, gate, loops, sinks, `GlobalCellLoop` | register updates, cleanups and hooks with a transaction |
| **Waiter** (`prf/utils.*`) | mutex, condition variable and flag `already_done` of each submitted transaction | `wait`, `done` | users wait on it, the Executor ends the wait |
| Helpers (`prf/utils.*`, `logger.hpp`) | | `numbering`, `transpose`; log | |

How an update runs. A user's thread opens a transaction (Register), sends to
sinks, submits it (Execute) and waits. The Executor tells the manager of both.
The manager keeps what it was told in its deque and, after every message that
changes it, joins the planner thread and starts a new one. The planner thread
only proposes: update cluster c of transaction t, or end t. The Executor turns a
proposal into a task of the pool unless it accepted it before. The task reports
that it starts, copies what is to be updated in c out of the transaction,
updates it, merges what that triggered in other clusters back in, and reports
the new clusters together with its end. When nothing is left of the oldest
transaction the planner proposes its end; the Executor runs its listeners, wakes
its user and tells the manager.

What is hard here, and what makes each component correct:

- *Planner*: it works on reports that lag behind the Executor, is interrupted at
  any message, and repeats itself. Correct: parents before children in a
  transaction, older before younger at each cluster, ends in order, no work
  forgotten, and no planner that rests while there is something to propose.
- *Executor and tasks*: reports of several workers interleave with proposals.
  Correct: each cluster is updated once, a transaction ends only when no task
  holds a pointer to it and no update of it is lost, every submitted transaction
  ends.
- *GlobalCellLoop*: updates a value with no edge in the graph, through hooks that
  run later. Correct: a transaction samples the same value throughout, and only
  of older transactions that are over; the looper takes every value of its source.
- *Transactions in a program*: objects nest, are handed to other threads, and are
  opened by listeners on the Executor's own thread; the Executor and a user share
  the message and the `InnerTransaction`, and the user frees both. Correct:
  nothing is used after it is freed or freed twice, what a thread sends goes into
  an open transaction of its own, no wake-up is lost, and who waits for ever has
  a reason outside the library.
- *Dependency graph*: IDs depend on addresses. Correct: whatever they are,
  clusters are the connected parts, sinks are apart, no cluster depends on itself
  through another, parents rank below children.
- *Cells and streams*: several transactions keep versions of one value while
  others erase theirs. Correct: whatever overlaps, listeners hear and cells keep
  what one transaction after the other gives; no update fails for want of a
  value; none runs twice; nothing superfluous is kept.
- *Queue and stop*: a condition variable, two reads of a flag, and a
  notification without the mutex. Correct: no element is taken that is not there,
  none waits while a thread sleeps, stop returns, and leaves no thread behind.

## 2. Modules

| Module | Models | Lines of code |
|---|---|---|
| `Messages` | the constants that describe a built graph, the messages, the two queues | `prf/executor.hpp:19-82`, `prf/planner.hpp:51-92` |
| `Planner` | the manager's handlers and loop, both planners | `prf/planner.cpp` |
| `Executor` | users' threads, the Executor's handlers, the tasks, hooks | `prf/executor.cpp`, `prf/transaction.cpp` |
| `Engine` | the composition of the two, its invariants and fairness | |
| `UserTransactions` | Transaction objects and JoinHandlers on the stacks of threads, listeners on the Executor's, `Waiter`, who frees what | `prf/transaction.*`, `utils.*`, `executor.cpp:127-175` |
| `UserProofs` | theorems about `UserTransactions` | |
| `TransactionOrder` | what users are promised: transactions are created, submitted, and ended in the order of creation | `doc/document.md:186-209` |
| `MCEngine`, `MCValues` | small graphs for TLC | |
| `ValueGraph` | a built graph of cells and streams: what each node reads, listens to and ranks | `prf/time_invariant_values.cpp`, `node.cpp:172-217` |
| `Values` | values by transaction: send, update, sample, finalize, refresh, and the updater of every operation | `prf/cell.hpp`, `stream.hpp`, `transaction.cpp` |
| `Sequential` | what a graph means to users: one transaction after the other, the whole graph at once | |
| `OrderProofs`, `ReportProofs`, `PriorityProofs` | theorems about `Engine`: types, the order of ends and loopers; what is reported and when a transaction ends; which of two transactions or clusters goes first | |
| `ValuesProofs` | theorems about `Values` | |
| `NodeManager` | the description of a graph and `build` | `prf/node.cpp`, `cluster.cpp`, `union_find.cpp`, `rank.cpp` |
| `NodeManagerProofs` | theorems about `NodeManager` | |
| `SetInduction` | lemmas on finite sets for both: induction, minimal elements, folds | |
| `ConcurrentQueue` | push, pop, notify_stop, with mutex and condition variable | `prf/concurrent_queue.hpp` |
| `ThreadControl` | every thread's loop and end, `stop_execution`, a new build after it | `prf/thread.cpp`, `thread_pool.cpp`, `prf.cpp` |
| `ThreadProofs` | theorems about `ThreadControl` | |

### Engine

One action is one step of one thread, and threads meet only where the code
makes them: at the two queues, at the mutex of a transaction, and at the join of
the planner thread. A handler of the Executor reads and writes only what the
Executor's thread owns, besides its pushes, so it is one action. A task is four:
report its start, copy its targets, merge its result, report its end; the update
itself touches only the sub-transaction. The planner thread is not atomic: the
rank-based planner takes one action per transaction state it enters
(`RankVisit`), per cluster it considers (`RankAssign`, `RankSkip`) and per turn
it ends (`RankNext`), because Start messages are handled while it runs and its
flag is polled between. `simple_planner` looks at one state only and is one
action.

Correspondence of state: `transaction_states`, `transactions`,
`transaction_updatings`, `before_update_hooks(_buffers)`, `stop_planning_needed`
are the members of the same names. `targets` is the set of keys of
`targets_outside_current_cluster`; `uncopied` says which of them hold values
that no sub-transaction has copied, which is what a lost update is. `status`
is what the user of a transaction sees: `done` is the Waiter. `manager` is
idle, or joins the planner thread with a message in hand. `task` is the program
point of a task.

Abstractions. Which clusters an update triggers is any subset of those its
cluster has listeners in, and a send makes any subset of `Sources` updatable: the
values that decide it are not modelled. A send sets the value of a sink and
registers its listeners, so cluster 0 is never a target itself. `used` of a
planner keeps only the clusters of rank `target_rank`; the code consults no
other. A looper's hook is its cluster and transaction: hooks run in the order
they were queued in, so the last one per looper decides. The two critical
sections at the end of a task, the merge and the deposit of hooks, are one
action; nothing between them can be seen, since the transaction cannot end
before the report that follows. Ranks and cluster IDs are independent constants,
because `numbering` orders by address.

### NodeManager

The description (clusters entered and left, sinks, nodes with their parents,
loops) is any sequence of legal calls; then `build` runs in the order of the
code. The order of addresses is a choice: of the IDs in
`split_cluster_by_associates`, and of the order in which freed nodes are pushed
in `generate_in_cluster_ranks`. Path compression changes no root and is left
out; so are the names of clusters, which are only logged.

### Values and Sequential

`values[n][t]` is the map of a cell or stream, `targets` the two sets of what is
to be updated, of all clusters together, `cleanups` what it is in the code.
`phase` follows a transaction through its user and the Executor; the
transaction of `build` is 0 and starts with the values its hooks store.
One action updates one node, in any order `MayUpdate` and `OnTop` permit.
`MayUpdate` is what the engine keeps for clusters, `ParentsFirst` and
`NoOvertaking`, taken over all clusters above instead of the next ones; it lets
a cluster start a little earlier than the planner does, since results count as
merged at once. So `Values` rests on what `Engine` guarantees, and like it needs
ranks and IDs that agree with the edges (findings 1 and 2). `OnTop` is the
priority queue, with ties in any order because they are broken by address.
A task takes a cluster once: `begun` are the clusters that were taken, and what
another cluster registers for one of them goes to `left`, where nobody looks, as
does what a user's transaction registers in cluster 0, its own. Listeners run in
one step (younger transactions do not see them); refreshes run
node by node, in one order because refreshes of different nodes commute.
The user is woken before the hooks of a transaction are released, as in the
code, and the hooks run when the next Register message is handled, under the ID
of its transaction; the update of a GlobalCellLoop only makes such a hook. A
transaction may be opened, and send, before its own Register is handled.
`exited` is set where `failure_log` ends the process. What users' functions
compute is `UserFunction`, which TLC gets as a function that tells its arguments
and their order apart.

`Sequential` defines the value of every node in a transaction by recursion over
the graph and performs a transaction in one step. `Taken` is what a node takes from
those it listens to and those it sees. A node that closes a loop, because the source of the
loop is the node or made of it, sees what the looper was in the transaction before,
which is what makes the definition well founded (`Closes`, in `ValueGraph`); so does
every reader of a GlobalCellLoop, which sees what its source was when the
transaction was opened. `Values` implements it: a transaction takes place when its
listeners are called, and is opened when its Register message is handled. `current` is
what the last transaction that is over samples.

### UserTransactions

`scopes[u]` is the stack of Transaction objects of thread u, each as its `inner`
pointer; `handler[t]` the thread that holds the JoinHandler of t; `inner[t]` and
`message[t]` the two heap objects of a transaction, none, alive or deleted (a
second `delete` gives a value outside the type). `handed` is a history variable, read
by no action: the transactions that went through a JoinHandler, of which nobody
deletes the `InnerTransaction`. `pc` is the program's own code
or one of the three places that wait: `join`, the destructor of a JoinHandler and
that of a Transaction. `Runs` lets every thread do, between waits, anything the
interface permits in any order; the Executor's thread is one of them while it
calls listeners. `wait` is cut at the condition variable (sleep and release in one
step, a spurious wake-up at any time); `done` is two steps, the critical section
and its end, because a thread that finds the flag set waits for the mutex and
then frees the Waiter. The planner is what the proof of `EndInOrder` shows it to
be (`FinalizeReady`): it proposes the end of a transaction when all older ones are
over, and may do so again. What a transaction updates is left out.

### ConcurrentQueue and ThreadControl

A queue is the number of its elements. `pop` is cut where another thread can
come in: evaluation of the predicate (the mutex is held from here), sleep and
release of the mutex in one step as the condition variable does it, wake-up
(also a spurious one), the second read of `stop_the_threads`. `notify_stop` runs
without the mutex, as in the code. Threads handle messages by pushing any number
of others to the queues their handlers push to. `Rebuild` is `initialize`,
which empties both queues, followed by `build`, as `test/test_utils.hpp:4-11` does between tests.

## 3. Runs

All bounds are constants of the configurations.

| Run | Shows | Bounds |
|---|---|---|
| `serial` | simple planner: `EndsComplete`, `NoLostUpdate`, `StatesConsistent`, `TypeOK`, and `Completion`: every transaction ends that must | 3 clusters 1->2->3, 1->3; 3 transactions; 4 workers |
| `parallel` | rank-based planner: `OrderInv`, `ParentsFirst`, `NoOvertaking`, `NoWarning`, `PlannerKnows`, `UpdatedOnce`; the engine implements `TransactionOrder` with its liveness (`Completion`) | the same graph, 2 transactions |
| `lost_update` | **violation** of `NoLostUpdate` when IDs run against ranks (finding 1) | |
| `loops` | `InOrder`, `NoOvertaking`, `LoopSampleStable`, `LoopValuesOrdered`, with IDs against ranks | 3->1<-2 with a looper in 1; 3 transactions |
| `build` | `NoClusterCycle`, `SplitByAssociates`, `InClusterRanksExact`, `PlainClustersRanked`, `TypeOK` | every description with at most 4 nodes and cluster IDs up to 3 |
| `ranks` | **violation** of `ParentsRankedBelow` (finding 2) | |
| `stop` | `NoEmptyPop`, `StoppedMeansStopped`, `SleepersNotNeeded`, `TypeOK`, `StopReturnsUnlessMissed` | 2 workers, 3 pushes per build, 2 builds |
| `stop_missed` | **violation** of `StopReturns` (finding 3) | |
| `values` | `Serializable` (refinement of `Sequential`), `NoFailure`, `NoneLeft`, `OneValuePerTransaction`, `SamplesStable`, `Forgotten`, `TypeOK` | 15 nodes, two of them sinks, in 4 clusters, with every operation; the build and 2 transactions; 2 values to send |
| `loop_lift` | **violation** of `OneValuePerTransaction` (finding 4) | the build and 1 transaction |
| `loop_lost` | **violation** of `NoneLeft` (finding 5) | the build and 1 transaction |
| `users` | `NoUseAfterFree`, `CurrentIsOwn`, `NoSelfWait`, `Freed`, `TypeOK`, `WaitEnds` | 2 threads and the Executor's; 2 transactions; 2 nested objects per thread; 2 queued proposals |

Why the bounds are enough. The shape 1->2->3 with 1->3 is the smallest on which
an update can read a graph that is half updated, and on which a cluster is
triggered twice; with both 1 and 2 as sources a transaction starts with a
cluster and its parent pending. Two transactions are enough for every property
that relates two of them; the serial run and the looper run have three because
the deque then holds a state in the middle, and a looper value older than
another. Four workers are `MINIMUM_NUMBER_OF_THREADS_ON_AUTOMATIC`, and more than
there are tasks at a time. The graph of `values` has a cluster that is reached on two ways, a
merge and a lift whose arguments change in the same transaction, and a loop of
each kind, the GlobalCellLoop back to a cluster above; the build and two
overlapping transactions are three versions of a
value. In `users`, two threads and a listener suffice for a handle that is moved
while its opener goes on, for threads that wait for each other's transactions, and
for a listener that waits on its own thread; two transactions for every property
that relates two; two proposals for one that comes after its transaction is over. Four nodes make two clusters with an inner edge each,
a join and a chain of four. Two workers are the fewest of which one may
take the element another was woken for.

Deadlock is checked in the engine's runs: `Rest` is the state in which all
transactions the bound allows are over and every thread waits, the only one
in which the engine may stop; an engine that stops earlier is reported, except
that users may always still open or submit a transaction. The runs of
`NodeManager`, `ThreadControl` and `UserTransactions` do not check it: a build
returns, a stop ends all threads, and users may all be waiting for a listener that
waits itself.

## 4. Fairness

`Engine` assumes weak fairness of the Executor's thread, of the pool, of the
manager's thread and of the planner thread: each is a thread of its own that
blocks only in `pop` or `join`, and the operating system runs it. Weak fairness
of the pool as a whole is enough since the tasks of a behaviour are finitely
many. Nothing is assumed of users: a transaction may stay open for ever, and
then `Completion` promises nothing for younger ones, which is what
`prf/planner.cpp:291` does. `ThreadControl` assumes the same thread by thread,
and nothing of spurious wake-ups, which the standard allows and never promises.

`UserTransactions` assumes that each waiting thread goes on when it can, that the
Executor's thread handles its queue, and that the planner proposes what it may,
which is `Completion` of the engine. Nothing is assumed of the program: a
transaction may stay open and a listener may not return, and `WaitEnds` names
these, and a stop, as the only reasons for which a thread waits for ever.

## 5. Proofs

The theorems hold for every graph, rank assignment, pool size, number of
transactions and of threads, and both planners; they rest only on the named
assumptions on the constants (finite sets, ranks are naturals, ...). In
particular they do not assume that ranks or IDs agree with the graph, which
findings 1, 2 and 5 show a build does not ensure. The three theorems of
`PriorityProofs` and two of `ValuesProofs` are the exceptions, and say so in
their statements: they cannot hold otherwise.

- `TypeCorrect == Spec => []TypeOK` (`OrderProofs`): `TypeOK` is inductive by
  itself. The work is in the handlers of the deque.
- `OrderCorrect == Spec => []OrderInv` and `EndInOrder == Spec => []InOrder`
  (`OrderProofs`). `InOrder` alone is not inductive: a step that ends t says
  nothing of older transactions. `OrderInv` follows the evidence backwards.
  A proposal to end t is only queued when all older ones are over
  (`FinalizeReady`), because it is for the front of the deque, before which all is
  over (`FrontOldest`). The front moves on only by a Finish message, which is
  for an ended transaction (`FinishEnded`), and the next state has the next ID
  (`ConsecutiveIds`). An empty deque is entered by a Start message all of
  whose elders are over, in the deque or ahead of it in the queue
  (`StartsInOrder`); that order comes from the Executor's queue
  (`RegistersInOrder`), and none is skipped (`NoneForgotten`). Nothing is
  finalized before it is submitted (`HeldWhileSubmitted`).
- `Implements == Spec => OrderKept` (`OrderProofs`): the refinement to
  `TransactionOrder`, by the identity on `status` and `next_transaction_id`. It is the
  safety half of `Completion`, which the runs check and which adds the fairness.
- `LoopsCorrect == Spec => []LoopValuesOrdered` and `LoopSamplesStable == Spec =>
  LoopSampleStable` (`OrderProofs`). `LoopInv` adds that what waits in front of a Register
  message is of older transactions (`RegistersAscend`), that who is still to be
  registered is younger than all that is held or over, and no looper has a value under
  its key or a later one (`RegistersFresh`), that keys are of created
  transactions (`KeysTaken`), and that a hook that waits is of a transaction
  that is over and younger than all whose values the looper has (`HooksNewest`).
  The last follows from `OrderInv`: transactions end in order.
- `UpdateOnce`, `EndsAllDone == Spec => []EndsComplete`, `PlannerTold == Spec =>
  []PlannerKnows`, `NothingWarns == Spec => []NoWarning` and `DequeConsistent ==
  Spec => []StatesConsistent` (`ReportProofs`). What the planner knows lags behind what
  the Executor did by the messages between them, so the proof reads the manager's
  queue and the message in its hand as one sequence, `Pipe`, and says in three
  layers what a transaction's life is. `LifeInv`: where a transaction is
  between its Register message and its Finish message; the deque has it from Start to
  Finish, its first report precedes the others, proposals are only of what
  the deque has or had, and the pool gets a cluster once. `ReportInv`: for each
  cluster of it (`Life`), whether a task still has to report it (`Unreported`), the
  pipe announces it, `future` or `now` has it, or it is over, in this order;
  no two messages in the pipe say the same and each follows what it needs
  (`PipeReported`); a proposal to end a transaction is behind all its proposals
  of clusters (`ProposalsFirst`), and is made when every target is over (`ClosedOver`).
  `EndsComplete` is then immediate, and so is each branch of `NoWarning`.
  `CountsExact`: `target_ranks` counts by cardinality; the update of a state is
  shown to keep that for any reports `ReportInv` admits.
- `OlderFirst == Spec => []NoOvertaking`, `ParentsUpdatedFirst == Spec =>
  []ParentsFirst` and `NoneLost == Spec => []NoLostUpdate` (`PriorityProofs`). All
  assume `RankOrder`: a cluster has a smaller rank than those that read it or
  listen to it. The last two assume `IdOrder` as well if `UseParallelExecution`: it
  has a smaller ID. Neither is an assumption of the model. Finding 2 shows a
  build that returns ranks against the edges, finding 5 a listener without an edge, and run
  `lost_update` that without `IdOrder` the last is false, a parent and its child
  having been started together against `ParentsFirst`; run
  `loops`, with IDs against ranks, agrees that the first needs no `IdOrder`. `MCEngine`
  asserts `RankOrder` of every graph, and `IdOrder` of the one `parallel` uses.
  `PriorityInv`: a transaction for which c was chosen has no older one with
  anything left of a rank below c's, or at c (`OlderPassed`). A planner keeps this because
  `target_rank` and `used_clusters` bar what is left of every state it has passed
  (`PlannerBars`), also while Start messages lengthen the deque and reports wait in
  the pipe; what an older transaction still triggers is of a higher rank
  (`ResultsTriggered`), so it cannot come back to c. `ParentsFinished` is the same
  inside a transaction: nothing c depends on, directly or through others, has work left
  when c is chosen. That it is the transitive closure makes it
  inductive, since a cluster two steps above may yet trigger the parent;
  the closure is stated without recursion, as membership in every set that contains
  what d feeds and is closed under it. `UncopiedWaits`: values that no
  sub-transaction copied are those of a cluster whose task has not begun.
- `StopSafe == Spec => []StoppedMeansStopped` and `PopSafe == Spec =>
  []NoEmptyPop` (`ThreadProofs`), for any size of the pool and any number of
  messages and builds. `StopInv` counts the loops that have not
  ended in `wait_threads` and ties the flag to the stopper; `MutexInv` says that
  at most one thread is inside `pop` of a queue. `ThreadTypes == Spec => []TypeOK`
  uses that count: `wait_threads` stays in 0..2. `NoneOversleeps == Spec =>
  []SleepersNotNeeded` compares the number of elements with the number of threads
  that come for them, for any number of threads on a queue; it needs that a thread
  about to sleep still finds its queue empty (`BlockedEmpty`), since it holds the
  mutex, and that the flag falls only when nobody is left to sleep (`StopInv`).
- `MemorySafe == Spec => []NoUseAfterFree`, `OwnTransaction`, `NoSelfWaiting`,
  `AllFreed == Spec => []Freed` and `UserTypes` (`UserProofs`) for any number of threads,
  transactions and nested objects, from one invariant, `UsersCorrect == Spec =>
  []Inv`. None of them is inductive. `ScopesInv`: a stack holds the current
  transaction of its thread once and no other, which is why only one destructor
  submits it. `OwnerInv`: that transaction is its thread's own and not sent, unless
  the thread is closing it. `WaitInv`: who waits holds the JoinHandler or is closing
  its innermost object, so two threads never free the same message. `LifeInv`: what
  the flags of a transaction say of its message, from creation to the `delete`.
  `ExecutorInv`: Execute is queued at most once and not for what is known or
  over, so that the Executor ends a transaction once, and uses message and
  `InnerTransaction` only before it unlocks the mutex for which the user waits.
  `NewestInv`: the transaction a thread has open is the last it created. `HandedInv`:
  an `InnerTransaction` outlives its message only if a JoinHandler had it. The proof
  has one lemma per action.

- `ValuesTypes`, `NothingFails == Spec => []NoFailure`, `NothingPilesUp == Spec =>
  []Forgotten` (the loopers of GlobalCellLoops excepted) and `SamplesStay == Spec => SamplesStable` (`ValuesProofs`), for every
  graph, from `ValuesInv`: a value is owed to the end of its transaction or survived it,
  and then the cell has no older one (`Stored`), so clean-ups erase only what
  younger transactions do not read; what is registered for the end of a transaction has
  a value in it (`Owed`); what is to be updated listens to something that has one
  (`Triggered`); and transactions are registered and end in their order (`Order`). What
  it assumes of a graph is stated in `ValueGraph` as facts of a description and its
  build: nodes are made of nodes that exist, so that only a loop leads back to a node
  (`MadeInOrder`), they have the arguments their operations take (`ArgsTyped`), sinks
  and holds alone have initial values (`InitialHolds`), and `ClustersBuilt`: no cluster is
  above itself, a loop stays in its cluster, the sinks have theirs to themselves, which
  `NodeManagerProofs` proves of `build`.
- `OnlyGlobalLoopersLeft`: what is registered where nobody looks is the updater of the
  looper of a GlobalCellLoop, nothing else, in any graph with a sink, from
  `ClustersInv`: above a cluster that has begun nothing is registered, and what was
  updated is in one that has begun. So finding 5 is the only way to lose an update.
  `NothingIsLeft` is `NoneLeft` under `LoopsApart` and `GlobalLoopsApart`.
  `ValuesComputedOnce == ... => OneValuePerTransaction` holds under `LoopsApart`.
  `LoopsApart(behind)`: `behind[n]` are the loopers without whose update n has
  none, and a node with any listens to nothing in another cluster, nor to a node that is
  not behind the same. `GlobalLoopsApart`: the looper of a GlobalCellLoop is in the
  cluster of its source, below it, or alone in its own. Runs `loop_lift` and
  `loop_lost` show that neither can be dropped. `OnceInv` says that what is registered for
  update has no value yet, that what was updated ranks no higher than what is still to
  be (in one cluster and behind the same loopers), and that nothing behind a looper comes
  before it; `NoneLeftInv` that the source of a looper that is alone has its value when
  the looper's cluster begins.
- `MeaningKept == Spec => Serializable` (`ValuesProofs`): the refinement of `Sequential`
  by `Values`, for every graph that satisfies `LoopsApart`, `GlobalLoopsApart` and
  `LoopsClosed` and any number of transactions. `LoopsClosed(behind)`: every loop is
  closed, by a node that waits for no looper; and a cell that a node reads without
  listening to it waits for none, for the same as the node, is in another cluster, or
  closes over the node (`Closes`), which is then updated before the source of the loop.
  A graph that fails it reads a loop from beside, and see the end of section 6.
  `MCValues` asserts all three of the graph `values` runs (`MainApart`), so that
  theorem and run are about the same. Three things are proved. `OutcomeUnique`:
  `Sequential`'s recursion is the only way in which every node takes what it should
  from the others, because among any nodes there is a first (`FirstToTake`: in
  the topmost cluster, what waits for no looper, of the least rank). `RunInv`, inductive: what
  ran in a transaction took exactly that (`RanRight`), though what it read may have
  been stored by older transactions, by hooks, or not yet; it needs that nothing is
  called before something it listens to (`CalledFirst`), that what ran ranks no higher than
  what is still to run (`RanByRank`) and that older transactions are past a cluster when
  it begins (`BegunAfterOlder`). And the loopers of GlobalCellLoops follow their
  sources: the hooks of a transaction hold what the sources take (`HooksRight`), and
  what a looper has, or waits for it, is what its source had at the last end
  (`LoopersFollow`). At the end of a transaction nothing is left to run, so its values
  are `Outcome`; the step is `Transact`. A Register message that is handled is
  `Open`, and every other step shows nothing: samples of the transactions that are
  registered, and of the last that is over, stay (`OthersMean`).
- `ClustersWithoutCycle == Spec => []NoClusterCycle`, `InClusterRanks`,
  `PlainClusterRanks`, `SplitCorrect == Spec => []SplitByAssociates` and `NodeTypes`
  (`NodeManagerProofs`) for any number of nodes and clusters, from `NodesInv`.
  `Declared`: an edge leads to a node declared in the same cluster or in a later one, and
  a loop stays in its cluster, which is why `build` cannot make two clusters
  depend on each other. The union-find is a forest on the nodes (`Forests`): after the
  pairs of associates taken so far, two nodes have one root exactly if a chain of
  those pairs joins them, by induction over the pairs. A loop that ranks has an
  invariant between turns, `RankingLoop`: a rank is one more than the greatest of
  the parents that are ranked, what is on the stack has all its parents ranked, and
  the parents that a vertex still waits for are those that are not. At its end a
  set of vertices that holds its parents and has no cycle is ranked, because among those
  that are not there would be a first, and it would be on the stack.

Inductions over data are done with sets. The library's induction theorems take
an operator, which the prover cannot instantiate; `SetInduction` states the same
of a set of sets (a set of subsets of S that has the empty one, and with each
proper subset one with one element more, has S), so that a proof names the set for
which its claim holds. Folds over sets are unfolded the same way.

Only model-checked: everything under fairness (`Completion`,
`StopReturnsUnlessMissed`, `WaitEnds`), which the prover does not reach. Every other
property of a run that passes is the statement of a theorem.

## 6. Findings

1. `rank_based_planner` walks `future` by cluster ID, not by rank
   (`prf/planner.cpp:303`). With a child numbered below its parent both are
   started together, and what the parent then triggers in the child is never
   updated (`prf/transaction.cpp:123-125`). Run `lost_update`.
2. `generate_cluster_ranks` takes an edge inside a cluster for a parent
   (`prf/node.cpp:142`): the cluster is never ranked, nor what depends on it.
   Run `ranks`. `PlainClustersRanked` says where ranks are right.
3. `notify_stop` takes no mutex (`prf/concurrent_queue.hpp:61`), so a thread
   about to sleep misses it and `stop_execution` never returns. Run
   `stop_missed`. `StopReturnsUnlessMissed` says that nothing else prevents it.
4. `CellLoop()` does not raise the flag that refuses `map` and `lift`
   (`prf/cell.hpp:358-360` against the comment at `:88-91`). A loop edge gives no
   rank, so a lift of a looper and of a cell that changes in the same transaction
   runs twice, first with the old value of the looper. Run `loop_lift`. The
   values listeners hear at the end are right; what reads the lift in between is
   not, and whether something does may depend on addresses.
5. The looper of a GlobalCellLoop listens to its source without an edge
   (`prf/time_invariant_values.cpp:46-48`), so nothing puts its cluster after the
   source's. If that cluster was updated already when the source changes, the
   looper's update is registered where nobody looks
   (`prf/transaction.cpp:123-125`) and lost, while `doc/document.md:220` and
   `test/cell_test.cpp:85` say that it works across clusters. Run `loop_lost`. With
   the looper in a cluster no transaction updates otherwise, as in the test,
   nothing is lost (`NoneLeft` in `values`).

Seen on the way, without a run: the hook of a GlobalCellLoop stores a value in the
looper (`prf/cell.hpp:392-396`) and nothing registers the looper for cleanup, so its map
grows by one value per transaction that changes the source, for ever, as
`prf/time_invariant_values.hpp:23` warns; what is sampled is not affected, and `Forgotten`
leaves the loopers out and says that everything else is erased.

Also: `doc/document.md:219-226` allows `lift` on a GlobalCellLoop, `prf/cell.hpp:409` refuses it; `:228` says its hooks are there when
the destructor returns, but `done()` at `prf/executor.cpp:159` comes before
`:164-170`, which no later transaction can tell, because its Register message
is handled afterwards; the example at `:133` of the same document takes two
handlers from one transaction, which ends the process; an
`InnerTransaction` behind a JoinHandler is never freed (the exception in `Freed`), nor
is a sub-transaction (`prf/executor.cpp:107`, not in `UserTransactions`); a
snapshot of a CellLoop that neither closes the loop nor follows its looper has an edge
from the looper but not from the source of the loop, so whether it sees the value of its
own transaction or of the one before depends on the ranks of the two
(`prf/stream.hpp:116-265` with `prf/cell.hpp:361-368`).

## 7. Not modelled, and the plan

Not modelled: the names of clusters and logging, which no state depends on; what
users' functions do besides computing. A data race on the deque
(`prf/planner.cpp:280` against `:58,66`) is treated as if reads and pushes were
atomic: what a torn read yields is beyond a model of this kind. `finished()` of a
JoinHandler that was moved from is one call on one object. A graph without sinks
has an ordinary cluster numbered 0, to which a transaction of its user, or that of
the build, would not get through, so that what initial values set off there is not
updated; nothing can be sent in such a graph, and no run has one.

Next, in this order:

1. `Values` on the clusters and tasks of `Engine` itself, in place of `MayUpdate`.
2. A stop in the middle of transactions with the messages that are thrown away:
   `ThreadControl` composed with `Engine`.
