---------------------------- MODULE NodeManager ----------------------------
(***************************************************************************)
(* The dependency graph: how a program describes it (cluster.cpp, the      *)
(* constructors of the time-invariant values) and how NodeManager::build   *)
(* turns the nodes into clusters with ranks (node.cpp).                    *)
(*                                                                         *)
(* All of it runs on one thread.  What is not determined is the order of   *)
(* the Node pointers, which numbering() sorts by: the IDs of the clusters  *)
(* and the order nodes are taken in are any the build can produce.         *)
(***************************************************************************)
EXTENDS Integers, FiniteSetsExt, SequencesExt

CONSTANTS
    MaxNodes,     \* bound on the number of nodes
    MaxClusterId  \* bound on the cluster IDs a description issues

ASSUME BoundsAssumption == MaxNodes \in Nat \ {0} /\ MaxClusterId \in Nat \ {0}

VARIABLES
    phase,             \* how far build is
    current_id,        \* ClusterManager::global_current_id
    current_clusters,  \* ClusterManager::current_clusters
    cluster_id,        \* NodeManager::nodes: the cluster ID of each, in order of registration
    childs,            \* <<p, c>>: c is in childs of p
    same_clusters,     \* <<a, b>>: b is in same_clusters of a
    cluster_ranks,     \* NodeManager::cluster_ranks
    in_cluster_ranks,  \* in_cluster_rank of each node
    parents,           \* the local cluster_parents, then the local parents
    updates            \* the local stack of the two ranking loops

describing == <<current_id, current_clusters, cluster_id, childs, same_clusters>>
ranking == <<cluster_ranks, in_cluster_ranks, parents, updates>>
vars == <<phase, describing, ranking>>

UNMANAGED_CLUSTER_ID == 0

Nodes == DOMAIN cluster_id
Sinks == {n \in Nodes : cluster_id[n] = UNMANAGED_CLUSTER_ID}

-----------------------------------------------------------------------------
(* The description.                                                        *)

EnterCluster ==
    /\ phase = "describing"
    /\ current_id < MaxClusterId
    /\ current_id' = current_id + 1
    /\ current_clusters' = current_clusters + 1
    /\ UNCHANGED <<phase, cluster_id, childs, same_clusters, ranking>>

\* Mutant of ExitCluster: the ID of the enclosing cluster comes back.
ExitClusterGoesBack ==
    /\ phase = "describing"
    /\ current_clusters > 1
    /\ current_id' = current_id - 1
    /\ current_clusters' = current_clusters - 1
    /\ UNCHANGED <<phase, cluster_id, childs, same_clusters, ranking>>

\* close, or the destructor of a Cluster that is not closed: what follows is in
\* a cluster of its own, not back in the one around.
ExitCluster ==
    /\ phase = "describing"
    /\ current_clusters > 1
    /\ current_id < MaxClusterId
    /\ current_id' = current_id + 1
    /\ current_clusters' = current_clusters - 1
    /\ UNCHANGED <<phase, cluster_id, childs, same_clusters, ranking>>

\* A CellSink or StreamSink.
NewSink ==
    /\ phase = "describing"
    /\ Len(cluster_id) < MaxNodes
    /\ cluster_id' = Append(cluster_id, UNMANAGED_CLUSTER_ID)
    /\ UNCHANGED <<phase, current_id, current_clusters, childs, same_clusters, ranking>>

\* Any other time-invariant value: it belongs to the current cluster, and
\* child_to or listen link it to values that exist.
NewNode ==
    /\ phase = "describing"
    /\ Len(cluster_id) < MaxNodes
    /\ cluster_id' = Append(cluster_id, current_id)
    /\ \E from \in SUBSET Nodes :
         childs' = childs \cup {<<p, Len(cluster_id) + 1>> : p \in from}
    /\ UNCHANGED <<phase, current_id, current_clusters, same_clusters, ranking>>

\* CellLoop::loop or StreamLoop::loop of looper a on b: loop_child_to ends the
\* program unless both were declared in one cluster.
Loop ==
    /\ phase = "describing"
    /\ \E a, b \in Nodes :
         /\ a # b
         /\ cluster_id[a] = cluster_id[b]
         /\ a \notin Sinks
         /\ \A e \in childs : e[2] # a
         /\ \A e \in same_clusters : e[2] # a
         /\ same_clusters' = same_clusters \cup {<<b, a>>}
    /\ UNCHANGED <<phase, current_id, current_clusters, cluster_id, childs, ranking>>

-----------------------------------------------------------------------------
(* UnionFind: a forest, as the parent of every node.                       *)

get_parent(forest, n) ==
    LET root[m \in DOMAIN forest] == IF forest[m] = m THEN m ELSE root[forest[m]]
    IN  root[n]

\* Mutant of merge: hangs the node itself instead of its root.
MergeWithoutRoot(forest, p, q) == [forest EXCEPT ![p] = get_parent(forest, q)]

merge(forest, p, q) ==
    [forest EXCEPT ![get_parent(forest, p)] = get_parent(forest, q)]

\* What split_cluster_by_associates merges: parent and child that were declared
\* in one cluster, the two ends of a loop, and all sinks.
Associates ==
    {e \in childs : cluster_id[e[1]] = cluster_id[e[2]]}
      \cup same_clusters
      \cup Sinks \X Sinks

Components ==
    FoldSet(LAMBDA e, forest : merge(forest, e[1], e[2]), [n \in Nodes |-> n], Associates)

\* The swap that gives the cluster of the sinks its ID back.
Unmanaged(ids) ==
    IF Sinks = {}
      THEN ids
      ELSE LET sink_id == ids[CHOOSE n \in Sinks : TRUE]
           IN  [n \in Nodes |-> CASE ids[n] = sink_id -> UNMANAGED_CLUSTER_ID
                                  [] ids[n] = UNMANAGED_CLUSTER_ID /\ ids[n] # sink_id -> sink_id
                                  [] OTHER -> ids[n]]

split_cluster_by_associates ==
    /\ phase = "describing"
    /\ cluster_id # <<>>
    /\ LET forest == Components
           roots == {get_parent(forest, n) : n \in Nodes}
       IN  \E order \in SetToSeqs(roots) :
             LET number(r) == CHOOSE k \in 1 .. Len(order) : order[k] = r
             IN  cluster_id' = Unmanaged([n \in Nodes |-> number(get_parent(forest, n)) - 1])
    /\ phase' = "split"
    /\ UNCHANGED <<current_id, current_clusters, childs, same_clusters, ranking>>

-----------------------------------------------------------------------------
(* The two ranking loops: the one popped from the stack lifts its children *)
(* over itself, and frees those it was the last parent of.                 *)

\* Mutants of ensure_after: no rank in between, and a rank that may fall.
EnsureSame(rank, other) == IF rank < other THEN other ELSE rank
EnsureNext(rank, other) == rank + 1

ensure_after(rank, other) == IF rank < other THEN other ELSE rank + 1

Lifted(ranks, edges, u) ==
    [v \in DOMAIN ranks |->
       IF <<u, v>> \in edges THEN ensure_after(ranks[u], ranks[v]) ELSE ranks[v]]

Without(edges, u) ==
    [v \in DOMAIN parents |-> IF <<u, v>> \in edges THEN parents[v] \ {u} ELSE parents[v]]

\* Mutant of Freed: one parent is enough.
FreedAtOnce(edges, u) == {v \in DOMAIN parents : <<u, v>> \in edges}

Freed(edges, u) == {v \in DOMAIN parents : <<u, v>> \in edges /\ parents[v] \ {u} = {}}

ClusterIds == {cluster_id[n] : n \in Nodes}
ClusterEdges == {<<cluster_id[e[1]], cluster_id[e[2]]>> : e \in childs}
InnerEdges == {e \in childs : cluster_id[e[1]] = cluster_id[e[2]]}

\* The order in which a std::set and a loop over the IDs take them.
Ascending(ids) ==
    CHOOSE order \in SetToSeqs(ids) :
        \A i, j \in DOMAIN order : i < j => order[i] < order[j]

\* Before the loop of generate_cluster_ranks.
StartClusterRanks ==
    /\ phase = "split"
    /\ cluster_ranks' = [c \in ClusterIds |-> 0]
    /\ parents' = [c \in ClusterIds |-> {p \in ClusterIds : <<p, c>> \in ClusterEdges}]
    /\ updates' = Ascending({c \in ClusterIds : \A e \in ClusterEdges : e[2] # c})
    /\ phase' = "cluster_ranks"
    /\ UNCHANGED <<describing, in_cluster_ranks>>

RankCluster ==
    /\ phase = "cluster_ranks"
    /\ updates # <<>>
    /\ LET u == Last(updates)
       IN  /\ cluster_ranks' = Lifted(cluster_ranks, ClusterEdges, u)
           /\ parents' = Without(ClusterEdges, u)
           /\ updates' = Front(updates) \o Ascending(Freed(ClusterEdges, u))
    /\ UNCHANGED <<phase, describing, in_cluster_ranks>>

\* Before the loop of generate_in_cluster_ranks: edges between clusters are
\* left out.
StartInClusterRanks ==
    /\ phase = "cluster_ranks"
    /\ updates = <<>>
    /\ in_cluster_ranks' = [n \in Nodes |-> 0]
    /\ parents' = [n \in Nodes |-> {p \in Nodes : <<p, n>> \in InnerEdges}]
    /\ updates' = Ascending({n \in Nodes : \A e \in InnerEdges : e[2] # n})
    /\ phase' = "in_cluster_ranks"
    /\ UNCHANGED <<describing, cluster_ranks>>

RankNode ==
    /\ phase = "in_cluster_ranks"
    /\ updates # <<>>
    /\ LET u == Last(updates)
       IN  /\ in_cluster_ranks' = Lifted(in_cluster_ranks, InnerEdges, u)
           /\ parents' = Without(InnerEdges, u)
           /\ \E freed \in SetToSeqs(Freed(InnerEdges, u)) :
                updates' = Front(updates) \o freed
    /\ UNCHANGED <<phase, describing, cluster_ranks>>

Return ==
    /\ phase = "in_cluster_ranks"
    /\ updates = <<>>
    /\ phase' = "built"
    /\ UNCHANGED <<describing, ranking>>

-----------------------------------------------------------------------------
Init ==
    /\ phase = "describing"
    /\ current_id = 1
    /\ current_clusters = 1
    /\ cluster_id = <<>>
    /\ childs = {}
    /\ same_clusters = {}
    /\ cluster_ranks = <<>>
    /\ in_cluster_ranks = <<>>
    /\ parents = <<>>
    /\ updates = <<>>

Next ==
    \/ EnterCluster \/ ExitCluster \/ NewSink \/ NewNode \/ Loop
    \/ split_cluster_by_associates
    \/ StartClusterRanks \/ RankCluster
    \/ StartInClusterRanks \/ RankNode
    \/ Return

Spec == Init /\ [][Next]_vars

-----------------------------------------------------------------------------
\* The type of every variable (node.hpp, cluster.hpp); the stack of a ranking
\* loop never holds a vertex twice.
TypeOK ==
    /\ phase \in {"describing", "split", "cluster_ranks", "in_cluster_ranks", "built"}
    /\ current_id \in 1 .. MaxClusterId
    /\ current_clusters \in 1 .. MaxClusterId
    /\ Len(cluster_id) <= MaxNodes
    /\ \A n \in Nodes :
         cluster_id[n] \in IF phase = "describing" THEN 0 .. MaxClusterId
                                                  ELSE 0 .. Len(cluster_id)
    /\ childs \subseteq {e \in Nodes \X Nodes : e[1] < e[2]}
    /\ same_clusters \subseteq Nodes \X Nodes
    /\ \A c \in DOMAIN cluster_ranks : cluster_ranks[c] \in 0 .. MaxNodes
    /\ \A n \in DOMAIN in_cluster_ranks : in_cluster_ranks[n] \in 0 .. MaxNodes
    /\ \A v \in DOMAIN parents : parents[v] \subseteq DOMAIN parents
    /\ IsInjective(updates)
    /\ ToSet(updates) \subseteq DOMAIN parents

\* A node declared in cluster a and one declared in cluster b are together
\* after build exactly if a chain of associates joins them, whatever order they
\* were merged in: no set of nodes that is closed under association holds one
\* without the other (node_test.cpp:6-19, 66-114, 225-254).  When there is a sink,
\* the sinks, and nothing else, are in the cluster that is never updated
\* (node.hpp:14-17, node.cpp:108-123).
Together(a, b) ==
    \A S \in SUBSET Nodes :
        a \in S /\ (\A e \in Associates : e[1] \in S <=> e[2] \in S) => b \in S

SplitByAssociates ==
    [][phase = "describing" /\ phase' = "split" =>
         /\ \A a, b \in Nodes : cluster_id'[a] = cluster_id'[b] <=> Together(a, b)
         /\ Sinks # {} =>
              \A n \in Nodes : cluster_id'[n] = UNMANAGED_CLUSTER_ID <=> n \in Sinks]_vars

\* No cluster depends on itself through another one: the IDs a description
\* issues never come back, and a loop stays in one cluster (cluster.cpp:17-35,
\* node.cpp:29-36).  Else no order of updates would be right.
NoClusterCycle ==
    phase # "describing" =>
        \A S \in SUBSET ClusterIds : S # {} =>
            \E c \in S : \A p \in S \ {c} : <<p, c>> \notin ClusterEdges

\* The rank of a node in its cluster is the length of the longest chain of
\* parents it has there, so the queue of an update takes a node after all its
\* parents (node_test.cpp:116-223, transaction.cpp:68-81).
InClusterRanksExact ==
    phase = "built" =>
        \A n \in Nodes :
            LET above == {in_cluster_ranks[p] + 1 : p \in {m \in Nodes : <<m, n>> \in InnerEdges}}
            IN  /\ in_cluster_ranks[n] \in above \cup {0}
                /\ \A r \in above : r <= in_cluster_ranks[n]

\* A cluster none of whose ancestors has an edge inside has a rank below its
\* children's.
Ancestry(S) == \A e \in ClusterEdges : e[2] \in S => e[1] \in S

PlainClustersRanked ==
    phase = "built" =>
        \A e \in ClusterEdges :
            (\E S \in SUBSET ClusterIds :
               /\ e[1] \in S
               /\ Ancestry(S)
               /\ \A c \in S : <<c, c>> \notin ClusterEdges)
            => cluster_ranks[e[1]] < cluster_ranks[e[2]]

\* Every parent cluster has a smaller rank than its children, as the tests
\* state it: "the rank of a parent cluster is smaller than that of its child"
\* (node_test.cpp:60-63).  A cluster with an edge inside is a parent of itself
\* for generate_cluster_ranks, and it and what depends on it get no rank.
ParentsRankedBelow ==
    phase = "built" =>
        \A e \in ClusterEdges : e[1] # e[2] => cluster_ranks[e[1]] < cluster_ranks[e[2]]

=============================================================================
