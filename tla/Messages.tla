------------------------------ MODULE Messages ------------------------------
(***************************************************************************)
(* What the Executor and the PlannerManager share: the constants that      *)
(* describe the built dependency graph, the messages of the two static     *)
(* ConcurrentQueues, and the queues themselves.                            *)
(***************************************************************************)
EXTENDS Integers, Sequences, FiniteSets

CONSTANTS
    Clusters,        \* IDs of the clusters that are updated (a set of naturals)
    Rank,            \* the cluster ranks NodeManager::get_cluster_ranks returned
    Edges,           \* <<p, c>>: some node of c is a child of a node of p
    Listeners,       \* <<p, c>>: some node of c is a listener of a node of p
    LoopClusters,    \* clusters that hold the looper of a GlobalCellLoop
    MaxTransactions  \* bound on the number of transactions of a behaviour

ASSUME ClustersAssumption ==
    /\ Clusters \subseteq Nat
    /\ IsFiniteSet(Clusters)
    /\ LoopClusters \subseteq Clusters

ASSUME RankAssumption == Rank \in [Clusters -> Nat]

ASSUME GraphAssumption ==
    /\ Edges \subseteq Clusters \X Clusters
    /\ Listeners \subseteq Clusters \X Clusters

ASSUME BoundAssumption == MaxTransactions \in Nat

Transactions == 0 .. (MaxTransactions - 1)

\* "No transaction": the absent key of a map from transaction IDs.
NoTransaction == -1

Ranks == {Rank[c] : c \in Clusters}

\* Clusters that an update of cluster p can make updatable.
Triggered(p) == {c \in Clusters \ {p} : <<p, c>> \in Listeners}

\* The clusters that read cluster p or listen to it.
Feeds(p) == {c \in Clusters : <<p, c>> \in Edges} \cup Triggered(p)

\* The graph NodeManager is meant to hand over: a cluster has a smaller rank than
\* what it feeds, and a smaller ID.  They are hypotheses of the results that need
\* them, not assumptions of the module: a build may return other ranks and IDs.
RankOrder == \A p \in Clusters : \A c \in Feeds(p) : Rank[p] < Rank[c]
IdOrder == \A p \in Clusters : \A c \in Feeds(p) : p < c

-----------------------------------------------------------------------------
RegisterMessage == [type : {"Register"}, id : Transactions]
ExecuteMessage == [type : {"Execute"}, id : Transactions]
StartUpdateMessage == [type : {"StartUpdate"}, id : Transactions, cluster : Clusters]
FinalizeMessage == [type : {"Finalize"}, id : Transactions]

ExecutorMessage ==
    RegisterMessage \cup ExecuteMessage \cup StartUpdateMessage \cup FinalizeMessage

Register(t) == [type |-> "Register", id |-> t]
Execute(t) == [type |-> "Execute", id |-> t]
StartUpdate(t, c) == [type |-> "StartUpdate", id |-> t, cluster |-> c]
Finalize(t) == [type |-> "Finalize", id |-> t]

StartMessage == [type : {"Start"}, id : Transactions]
UpdateMessage ==
    [type : {"Update"}, id : Transactions,
     now : SUBSET Clusters, future : SUBSET Clusters, finish : SUBSET Clusters]
FinishMessage == [type : {"Finish"}, id : Transactions]

PlannerMessage == StartMessage \cup UpdateMessage \cup FinishMessage

Start(t) == [type |-> "Start", id |-> t]
Update(t, now, future, finish) ==
    [type |-> "Update", id |-> t, now |-> now, future |-> future, finish |-> finish]
Finish(t) == [type |-> "Finish", id |-> t]

-----------------------------------------------------------------------------
VARIABLES
    executor_messages,  \* Executor::messages
    planner_messages    \* PlannerManager::messages

PushExecutor(m) == executor_messages' = Append(executor_messages, m)
PushPlanner(m) == planner_messages' = Append(planner_messages, m)

=============================================================================
