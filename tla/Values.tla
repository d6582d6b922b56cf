-------------------------------- MODULE Values --------------------------------
(***************************************************************************)
(* Cells and streams: the values they keep by transaction, their updates,  *)
(* and what the end of a transaction does with them.  When an update may   *)
(* run is what Engine guarantees of clusters and the priority queue of a   *)
(* sub-transaction of the nodes in one.                                    *)
(***************************************************************************)
EXTENDS ValueGraph

CONSTANT Failure  \* the outcome of failure_log: the process exits

ASSUME FailureDistinct == Failure \notin Value \cup {Absent}

VARIABLES
    phase,       \* of each transaction
    registered,  \* the transactions whose Register message the Executor handled
    values,      \* per node, the value stored under each transaction's ID
    targets,     \* per transaction, the nodes that are to be updated
    begun,       \* per transaction, the clusters whose task took what it has to update
    left,        \* per transaction, the nodes registered where nobody will take them
    cleanups,    \* per transaction, the nodes registered for its end
    heard,       \* per node, what its listeners were told: transaction and value
    before_update_hooks_buffers,  \* per transaction, the values its hooks hold
    before_update_hooks,          \* the values of the hooks to run next
    exited       \* failure_log was reached

updateVars == <<targets, begun, left>>
hookVars == <<before_update_hooks_buffers, before_update_hooks>>
vars == <<phase, registered, values, updateVars, cleanups, heard, hookVars, exited>>

Phases == {"none", "open", "submitted", "refreshing", "woken", "done"}

NoHooks == [g \in GlobalLoopers |-> Absent]

-----------------------------------------------------------------------------
(* Sampling.                                                               *)

\* The last value at or before transaction t.
CellSample(n, t) ==
    LET keys == {k \in 0 .. t : values[n][k] # Absent}
    IN  IF keys = {} THEN Absent ELSE values[n][Max(keys)]

StreamSample(n, t) == values[n][t]

Sample(n, t) == IF n \in Cells THEN CellSample(n, t) ELSE StreamSample(n, t)

unsafeSample(n, t) == IF Sample(n, t) = Absent THEN Failure ELSE Sample(n, t)

-----------------------------------------------------------------------------
(* Updaters: a value to send, Absent for nullopt, or Failure.              *)

Arg(n, i, t) == Sample(Args[n][i], t)
UnsafeArg(n, i, t) == unsafeSample(Args[n][i], t)

\* Cell::map and Stream::map.
MapUpdater(n, t) ==
    IF UnsafeArg(n, 1, t) = Failure THEN Failure ELSE UserFunction(n, <<Arg(n, 1, t)>>)

\* Cell::lift: no value while one of the cells has none.
LiftUpdater(n, t) ==
    LET args == [i \in DOMAIN Args[n] |-> Arg(n, i, t)]
    IN  IF Absent \in Range(args) THEN Absent ELSE UserFunction(n, args)

\* Stream::hold, CellLoop::loop and StreamLoop::loop.
CopyUpdater(n, t) == UnsafeArg(n, 1, t)

\* Stream::snapshot: the stream must have a value, the cells need not.
SnapshotUpdater(n, t) ==
    LET args == [i \in DOMAIN Args[n] |-> Arg(n, i, t)]
    IN  IF args[1] = Absent THEN Failure
        ELSE IF Absent \in Range(args) THEN Absent ELSE UserFunction(n, args)

\* Stream::merge; with neither value it would dereference an empty optional.
MergeUpdater(n, t) ==
    LET v1 == Arg(n, 1, t)
        v2 == Arg(n, 2, t)
    IN  CASE v1 # Absent /\ v2 # Absent -> UserFunction(n, <<v1, v2>>)
          [] v1 # Absent /\ v2 = Absent -> v1
          [] v1 = Absent /\ v2 # Absent -> v2
          [] OTHER -> Failure

FilterUpdater(n, t) ==
    LET res == UnsafeArg(n, 1, t)
    IN  IF res = Failure THEN Failure
        ELSE IF UserFunction(n, <<res>>) \in TrueValues THEN res ELSE Absent

\* Stream::gate: the cell is looked at first, then the stream must have a value.
GateUpdater(n, t) ==
    IF Arg(n, 2, t) \in TrueValues THEN UnsafeArg(n, 1, t) ELSE Absent

updater(n, t) ==
    CASE Operation[n] \in {"cell_map", "stream_map"} -> MapUpdater(n, t)
      [] Operation[n] = "lift" -> LiftUpdater(n, t)
      [] Operation[n] \in {"hold", "cell_loop", "stream_loop"} -> CopyUpdater(n, t)
      [] Operation[n] = "snapshot" -> SnapshotUpdater(n, t)
      [] Operation[n] = "merge" -> MergeUpdater(n, t)
      [] Operation[n] = "filter" -> FilterUpdater(n, t)
      [] Operation[n] = "gate" -> GateUpdater(n, t)
      [] OTHER -> Absent

-----------------------------------------------------------------------------
(* Actions.                                                                *)

\* Mutant of Cleaned: only nodes somebody listens to inside the graph.
CleanedIfListened(t, n) ==
    IF Listeners(n) = {} THEN cleanups[t] ELSE cleanups[t] \cup {n}

\* Mutant of Cleaned: listeners too, when they are registered for update.
CleanedWhenRegistered(t, n) == cleanups[t] \cup {n} \cup Listeners(n)

\* Who is registered for cleanup by a send to n.
Cleaned(t, n) == cleanups[t] \cup {n}

\* Node n takes value v in transaction t.
Store(t, n, v) ==
    /\ values' = [values EXCEPT ![n][t] = v]
    /\ cleanups' = [cleanups EXCEPT ![t] = Cleaned(t, n)]

\* A user's transaction has updating_cluster 0: what it registers for another
\* cluster a task of that cluster will take, the rest stays in its own queue.
UserTakes(m) == Cluster[m] # UNMANAGED_CLUSTER_ID

\* A task of cluster c takes the nodes of c it registers itself; those of
\* another cluster are taken by the task of that cluster when it begins.
TaskTakes(t, c, m) == Cluster[m] = c \/ Cluster[m] \notin begun[t]

\* A user opens the next transaction, never before build returned.
Begin(t) ==
    /\ phase[0] \in {"woken", "done"}
    /\ phase[t] = "none"
    /\ phase[t - 1] # "none"
    /\ phase' = [phase EXCEPT ![t] = "open"]
    /\ UNCHANGED <<registered, values, updateVars, cleanups, heard, hookVars, exited>>

\* The Executor's thread handles one message at a time.
ExecutorFree == \A t \in Transactions : phase[t] \notin {"refreshing", "woken"}

\* Mutant of HandleRegister: not on the Executor's thread.
HandleRegisterAnyTime(t) ==
    /\ phase[t] # "none"
    /\ t \notin registered /\ t - 1 \in registered
    /\ registered' = registered \cup {t}
    /\ values' = [n \in Nodes |->
                     IF n \in GlobalLoopers /\ before_update_hooks[n] # Absent
                       THEN [values[n] EXCEPT ![t] = before_update_hooks[n]]
                       ELSE values[n]]
    /\ before_update_hooks' = NoHooks
    /\ UNCHANGED <<phase, updateVars, cleanups, heard, before_update_hooks_buffers, exited>>

\* The Executor hears of the next transaction: the hooks that wait store their
\* values in the loopers, under its ID.
HandleRegister(t) ==
    /\ ExecutorFree
    /\ phase[t] # "none"
    /\ t \notin registered /\ t - 1 \in registered
    /\ registered' = registered \cup {t}
    /\ values' = [n \in Nodes |->
                     IF n \in GlobalLoopers /\ before_update_hooks[n] # Absent
                       THEN [values[n] EXCEPT ![t] = before_update_hooks[n]]
                       ELSE values[n]]
    /\ before_update_hooks' = NoHooks
    /\ UNCHANGED <<phase, updateVars, cleanups, heard, before_update_hooks_buffers, exited>>

\* A user sends to a sink, once more or for the first time.
Send(t, n, v) ==
    /\ phase[t] = "open"
    /\ n \in Sinks
    /\ Store(t, n, v)
    /\ targets' = [targets EXCEPT ![t] = @ \cup {m \in Listeners(n) : UserTakes(m)}]
    /\ left' = [left EXCEPT ![t] = @ \cup {m \in Listeners(n) : ~UserTakes(m)}]
    /\ UNCHANGED <<phase, registered, begun, heard, hookVars, exited>>

Submit(t) ==
    /\ phase[t] = "open"
    /\ phase' = [phase EXCEPT ![t] = "submitted"]
    /\ UNCHANGED <<registered, values, updateVars, cleanups, heard, hookVars, exited>>

\* Transaction s has updates to make in a cluster above that of n, or in it.
PendingAbove(s, n) == \E m \in targets[s] : <<Cluster[m], Cluster[n]>> \in ClusterFeeds
PendingBeside(s, n) == \E m \in targets[s] : Cluster[m] = Cluster[n]

\* Mutant of MayUpdate: older transactions are not waited for.
MayOvertake(t, n) ==
    /\ phase[t] = "submitted" /\ t \in registered
    /\ ~PendingAbove(t, n)

\* Mutant of MayUpdate: clusters above are not waited for.
MayUpdateEarly(t, n) ==
    /\ phase[t] = "submitted" /\ t \in registered
    /\ \A s \in 0 .. (t - 1) :
         phase[s] \notin {"none", "open"} /\ ~PendingAbove(s, n) /\ ~PendingBeside(s, n)

\* The planner lets t update the cluster of n: no older transaction is open or
\* has updates to make there or above, and neither has t itself above.
MayUpdate(t, n) ==
    /\ phase[t] = "submitted" /\ t \in registered
    /\ ~PendingAbove(t, n)
    /\ \A s \in 0 .. (t - 1) :
         phase[s] \notin {"none", "open"} /\ ~PendingAbove(s, n) /\ ~PendingBeside(s, n)

\* Mutant of OnTop: a queue without priorities.
OnTopOfAny(t, n) == TRUE

\* n is on top of the priority queue; equal ranks are ordered by address.
OnTop(t, n) ==
    \A m \in targets[t] : Cluster[m] = Cluster[n] => in_cluster_rank[n] <= in_cluster_rank[m]

\* A task, the first time with all there is to update in its cluster, updates a
\* node, which sends if its updater has a value.
Update(t, n) ==
    LET res == updater(n, t)
        c == Cluster[n]
        next == IF res \in Value THEN Listeners(n) ELSE {}
    IN  /\ n \in targets[t] \ GlobalLoopers
        /\ MayUpdate(t, n)
        /\ OnTop(t, n)
        /\ exited' = (res = Failure)
        /\ IF res \in Value THEN Store(t, n, res) ELSE UNCHANGED <<values, cleanups>>
        /\ begun' = [begun EXCEPT ![t] = @ \cup {c}]
        /\ targets' = [targets EXCEPT ![t] = (@ \ {n}) \cup {m \in next : TaskTakes(t, c, m)}]
        /\ left' = [left EXCEPT ![t] = @ \cup {m \in next : ~TaskTakes(t, c, m)}]
        /\ UNCHANGED <<phase, registered, heard, hookVars>>

\* The update of the looper of a GlobalCellLoop leaves a hook and sends nothing.
UpdateLooper(t, n) ==
    /\ n \in targets[t] \cap GlobalLoopers
    /\ MayUpdate(t, n)
    /\ OnTop(t, n)
    /\ exited' = (UnsafeArg(n, 1, t) = Failure)
    /\ before_update_hooks_buffers' =
         [before_update_hooks_buffers EXCEPT ![t][n] = Arg(n, 1, t)]
    /\ begun' = [begun EXCEPT ![t] = @ \cup {Cluster[n]}]
    /\ targets' = [targets EXCEPT ![t] = @ \ {n}]
    /\ UNCHANGED <<phase, registered, values, left, cleanups, heard, before_update_hooks>>

\* Mutant of Finalize: listeners of every cell and stream.
FinalizeAll(t) ==
    /\ ExecutorFree
    /\ phase[t] = "submitted" /\ t \in registered
    /\ targets[t] = {}
    /\ \A s \in 0 .. (t - 1) : phase[s] = "done"
    /\ heard' = [n \in Nodes |-> Append(heard[n], <<t, Sample(n, t)>>)]
    /\ phase' = [phase EXCEPT ![t] = "refreshing"]
    /\ UNCHANGED <<registered, values, updateVars, cleanups, hookVars, exited>>

\* The Executor ends the oldest transaction: first the listeners of all that
\* has a value.
Finalize(t) ==
    /\ ExecutorFree
    /\ phase[t] = "submitted" /\ t \in registered
    /\ targets[t] = {}
    /\ \A s \in 0 .. (t - 1) : phase[s] = "done"
    /\ exited' = (\E n \in cleanups[t] : unsafeSample(n, t) = Failure)
    /\ heard' = [n \in Nodes |-> IF n \in cleanups[t]
                                 THEN Append(heard[n], <<t, unsafeSample(n, t)>>) ELSE heard[n]]
    /\ phase' = [phase EXCEPT ![t] = "refreshing"]
    /\ UNCHANGED <<registered, values, updateVars, cleanups, hookVars>>

\* Mutant of Refreshed: a cell gives up the value of t as well.
RefreshedThrough(n, t) ==
    [k \in Transactions |->
        IF (n \in Cells /\ k <= t) \/ (n \notin Cells /\ k = t) THEN Absent ELSE values[n][k]]

\* What is left of the values of node n after its refresh.
Refreshed(n, t) ==
    [k \in Transactions |->
        IF (n \in Cells /\ k < t) \/ (n \notin Cells /\ k = t) THEN Absent ELSE values[n][k]]

\* Then their values are erased, one node at a time in the order of addresses.
Refresh(t) ==
    LET n == CHOOSE m \in cleanups[t] : TRUE
    IN  /\ phase[t] = "refreshing"
        /\ cleanups[t] # {}
        /\ exited' = (n \in Cells /\ values[n][t] = Absent)
        /\ values' = [values EXCEPT ![n] = Refreshed(n, t)]
        /\ cleanups' = [cleanups EXCEPT ![t] = @ \ {n}]
        /\ UNCHANGED <<phase, registered, updateVars, heard, hookVars>>

\* Its user is woken.
Done(t) ==
    /\ phase[t] = "refreshing"
    /\ cleanups[t] = {}
    /\ phase' = [phase EXCEPT ![t] = "woken"]
    /\ UNCHANGED <<registered, values, updateVars, cleanups, heard, hookVars, exited>>

\* Its hooks are put behind those that wait: for every looper the last decides.
ReleaseHooks(t) ==
    /\ phase[t] = "woken"
    /\ phase' = [phase EXCEPT ![t] = "done"]
    /\ before_update_hooks' =
         [g \in GlobalLoopers |-> IF before_update_hooks_buffers[t][g] # Absent
                                  THEN before_update_hooks_buffers[t][g]
                                  ELSE before_update_hooks[g]]
    /\ before_update_hooks_buffers' = [before_update_hooks_buffers EXCEPT ![t] = NoHooks]
    /\ UNCHANGED <<registered, values, updateVars, cleanups, heard, exited>>

\* The transaction of build holds the initial values when it is submitted.
Init ==
    /\ phase = [t \in Transactions |-> IF t = 0 THEN "submitted" ELSE "none"]
    /\ values = [n \in Nodes |-> [t \in Transactions |->
                    IF t = 0 /\ n \in DOMAIN Initial THEN Initial[n] ELSE Absent]]
    /\ registered = {0}
    /\ LET next == UNION {Listeners(n) : n \in DOMAIN Initial}
       IN  /\ targets = [t \in Transactions |->
                           IF t = 0 THEN {m \in next : UserTakes(m)} ELSE {}]
           /\ left = [t \in Transactions |->
                        IF t = 0 THEN {m \in next : ~UserTakes(m)} ELSE {}]
    /\ begun = [t \in Transactions |-> {}]
    /\ cleanups = [t \in Transactions |-> IF t = 0 THEN DOMAIN Initial ELSE {}]
    /\ heard = [n \in Nodes |-> <<>>]
    /\ before_update_hooks_buffers = [t \in Transactions |-> NoHooks]
    /\ before_update_hooks = NoHooks
    /\ exited = FALSE

Rest ==
    /\ exited \/ \A t \in Transactions : phase[t] = "done"
    /\ UNCHANGED vars

Next ==
    \/ /\ ~exited
       /\ \E t \in Transactions :
            \/ t > 0 /\ (Begin(t) \/ HandleRegister(t))
            \/ \E n \in Sinks, v \in Sent : Send(t, n, v)
            \/ Submit(t)
            \/ \E n \in Nodes : Update(t, n) \/ UpdateLooper(t, n)
            \/ Finalize(t)
            \/ Refresh(t)
            \/ Done(t)
            \/ ReleaseHooks(t)
    \/ Rest

Spec == Init /\ [][Next]_vars

-----------------------------------------------------------------------------
(* Properties.                                                             *)

\* The type of every variable (cell.hpp:20-36, stream.hpp:20-36,
\* transaction.hpp:93-116).
TypeOK ==
    /\ phase \in [Transactions -> Phases]
    /\ values \in [Nodes -> [Transactions -> Value \cup {Absent}]]
    /\ registered \subseteq Transactions
    /\ targets \in [Transactions -> SUBSET (Nodes \ Sinks)]
    /\ begun \in [Transactions -> SUBSET Range(Cluster)]
    /\ left \in [Transactions -> SUBSET (Nodes \ Sinks)]
    /\ cleanups \in [Transactions -> SUBSET Nodes]
    /\ heard \in [Nodes -> Seq(Transactions \X Value)]
    /\ before_update_hooks_buffers \in
         [Transactions -> [GlobalLoopers -> Value \cup {Absent}]]
    /\ before_update_hooks \in [GlobalLoopers -> Value \cup {Absent}]
    /\ exited \in BOOLEAN

\* No failure_log is reached: an update runs only when what it must read has a
\* value, and what ends has one to show and to keep (cell.hpp:284-290 and
\* 306-311, stream.hpp:86-92 and 800-806).
NoFailure == ~exited

\* A value a node took in a transaction is its value in that transaction: it
\* is computed once, after all it depends on (cell.hpp:88-92 and the priority
\* queue, transaction.hpp:95-100).
OneValuePerTransaction ==
    [][\A n \in Nodes \ Sinks, t \in Transactions :
          values[n][t] # Absent => values[n][t]' \in {values[n][t], Absent}]_vars

\* Transaction t may update the cluster of n and has nothing to update there.
Settled(t, n) == MayUpdate(t, n) /\ ~PendingBeside(t, n)

\* What an update of a cluster may read of that cluster and of those above does
\* not change any more once nothing is pending there: neither a younger
\* transaction nor the end of an older one touches it (cell.hpp:306-320).
SamplesStable ==
    [][\A t \in Transactions, n \in Nodes :
          Settled(t, n) => Sample(n, t)' = Sample(n, t)]_vars

\* Every node that was registered for update is updated: none is registered for
\* a cluster whose task is past taking its nodes, or with a transaction that
\* updates nothing (transaction.cpp:68-81, 115-134; cell_test.cpp:85 has a
\* GlobalCellLoop work across clusters).
NoneLeft == \A t \in Transactions : left[t] = {}

\* Of transactions that are over nothing is kept but one value per cell: what
\* registered no cleanup would stay for ever (time_invariant_values.hpp:22-26).
\* The looper of a GlobalCellLoop registers none and keeps all its values
\* (cell.hpp:392-396): the one exception.
Forgotten ==
    \A n \in Nodes \ GlobalLoopers, s \in Transactions :
        values[n][s] # Absent /\ phase[s] = "done" =>
            /\ n \in Cells
            /\ \A t \in (s + 1) .. (MaxTransactions - 1) :
                 phase[t] = "done" => values[n][t] = Absent

\* The transactions whose listeners were called.
Finalized == {t \in Transactions : phase[t] \in {"refreshing", "woken", "done"}}

Meaning ==
    INSTANCE Sequential WITH
        count <- Cardinality(Finalized),
        current <- [n \in Nodes |-> IF n \in Cells \ GlobalLoopers /\ Finalized # {}
                                    THEN Sample(n, Max(Finalized)) ELSE Absent],
        views <- [i \in 1 .. Cardinality(registered \ Finalized) |->
                    [g \in GlobalLoopers |-> CellSample(g, Cardinality(Finalized) + i - 1)]]

\* However the updates of several transactions overlap, listeners are told, and
\* cells keep, what updating the graph one transaction after the other gives
\* (document.md:152 and 186-209).  A transaction sees in a GlobalCellLoop what
\* the transactions that were over when it was registered left there
\* (document.md:223-226).
Serializable == Meaning!Spec

=============================================================================
