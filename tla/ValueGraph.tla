------------------------------ MODULE ValueGraph ------------------------------
(***************************************************************************)
(* A built graph of cells and streams: which operation made each node, what *)
(* it reads, what it listens to, and where it is in the order of updates.  *)
(***************************************************************************)
EXTENDS Integers, Sequences, Functions, FiniteSetsExt

CONSTANTS
    Nodes,              \* the time-varying values
    Operation,          \* per node, what made it
    Args,               \* per node, the nodes it reads, in order
    Cluster,            \* per node, its cluster after build
    ClusterFeeds,       \* which clusters are above which
    Closes,             \* who closes a loop, and the cells called by it: see below
    Initial,            \* the initial values of those cells that have one
    Value,              \* what cells and streams carry
    TrueValues,         \* the values that are true, for gate and filter
    Sent,               \* the values users send to sinks
    UserFunction(_, _), \* the function given to an operation, on its arguments
    Absent,             \* no value
    MaxTransactions     \* bound on the number of transactions

Transactions == 0 .. (MaxTransactions - 1)

\* The cluster of the sinks.
UNMANAGED_CLUSTER_ID == 0

CellOperations == {"cell_sink", "cell_map", "lift", "hold", "cell_loop", "global_cell_loop"}
StreamOperations ==
    {"stream_sink", "stream_map", "snapshot", "merge", "filter", "gate", "stream_loop"}

Cells == {n \in Nodes : Operation[n] \in CellOperations}
Sinks == {n \in Nodes : Operation[n] \in {"cell_sink", "stream_sink"}}
Loopers == {n \in Nodes : Operation[n] \in {"cell_loop", "stream_loop"}}
GlobalLoopers == {n \in Nodes : Operation[n] = "global_cell_loop"}

ASSUME GraphTyped ==
    /\ IsFiniteSet(Nodes)
    /\ Operation \in [Nodes -> CellOperations \cup StreamOperations]
    /\ Args \in [Nodes -> Seq(Nodes)]
    /\ DOMAIN Cluster = Nodes
    /\ DOMAIN Initial \subseteq Cells
    /\ \A n \in DOMAIN Initial : Initial[n] \in Value
    /\ TrueValues \subseteq Value
    /\ Sent \subseteq Value
    /\ Absent \notin Value
    /\ MaxTransactions \in Nat \ {0}

\* map and lift refuse a GlobalCellLoop.
ASSUME GlobalLoopersRead ==
    \A n \in Nodes : Range(Args[n]) \cap GlobalLoopers # {} =>
        Operation[n] \notin {"cell_map", "lift"}

ASSUME FunctionTyped ==
    \A n \in Nodes : \A args \in [DOMAIN Args[n] -> Value] : UserFunction(n, args) \in Value

\* The parameters of an operation and their types: a cell is made from cells and
\* a stream from streams, but for hold, snapshot and gate.  A loop is closed once.
ASSUME ArgsTyped ==
    \A n \in Nodes :
        /\ n \in Sinks => Args[n] = <<>>
        /\ n \in Loopers \cup GlobalLoopers => Len(Args[n]) <= 1
        /\ Operation[n] \in {"cell_map", "stream_map", "hold", "filter"} => Len(Args[n]) = 1
        /\ Operation[n] \in {"merge", "gate"} => Len(Args[n]) = 2
        /\ Operation[n] \in {"lift", "snapshot"} => Len(Args[n]) >= 2
        /\ \A i \in DOMAIN Args[n] :
             Args[n][i] \in Cells <=>
                 \/ Operation[n] \in {"cell_map", "lift", "cell_loop", "global_cell_loop"}
                 \/ Operation[n] \in {"snapshot", "gate"} /\ i > 1

\* Sinks and holds are given an initial value.
ASSUME InitialHolds == \A n \in DOMAIN Initial : Operation[n] \in {"cell_sink", "hold"}

\* What a node listens to: a snapshot and a gate are children of their cell
\* without listening to it.
Listened(n) ==
    IF Operation[n] \in {"snapshot", "gate"} THEN {Args[n][1]} ELSE Range(Args[n])

Listeners(n) == {m \in Nodes : n \in Listened(m)}

\* The edges that order updates, and with those of loops.  A GlobalCellLoop
\* listens without an edge.
AllEdges == {e \in Nodes \X Nodes : e[1] \in Range(Args[e[2]]) /\ e[2] \notin GlobalLoopers}
Edges == {e \in AllEdges : e[2] \notin Loopers}

\* Transitive closure, one node to pass through at a time.
Closure(edges, points) ==
    FoldSet(LAMBDA k, E : E \cup {e \in points \X points : <<e[1], k>> \in E /\ <<k, e[2]>> \in E},
            edges, points)

ASSUME ClusterFeedsClosed ==
    ClusterFeeds =
      Closure({e \in Range(Cluster) \X Range(Cluster) :
                  /\ e[1] # e[2]
                  /\ \E f \in AllEdges : e = <<Cluster[f[1]], Cluster[f[2]]>>},
              Range(Cluster))

\* <<n, c>>: c changes with a looper, and its source is n or made of n.
ASSUME ClosesLoops ==
    /\ Closes \subseteq Nodes \X Nodes
    /\ \A n, c \in Nodes :
         <<n, c>> \in Closes <=>
             IF c \in Loopers
               THEN n \in Range(Args[c]) \/ \E m \in Nodes : <<n, m>> \in Edges /\ <<m, c>> \in Closes
               ELSE c \notin GlobalLoopers /\ \E m \in Listened(c) : <<n, m>> \in Closes

\* A node is made of nodes that exist, so only a loop leads back.
ASSUME MadeInOrder == \A n \in Nodes : <<n, n>> \notin Closure(Edges, Nodes)

\* What build sees to: no cluster is above itself, a loop stays in its cluster, and
\* the sinks have theirs to themselves.
ASSUME ClustersBuilt ==
    /\ \A c \in Range(Cluster) : <<c, c>> \notin ClusterFeeds
    /\ \A n \in Loopers : \A m \in Range(Args[n]) : Cluster[m] = Cluster[n]
    /\ Sinks # {} => \A n \in Nodes : Cluster[n] = UNMANAGED_CLUSTER_ID <=> n \in Sinks

\* The place of a node in the priority queue of its cluster.
in_cluster_rank[n \in Nodes] ==
    LET parents == {m \in Nodes : <<m, n>> \in Edges /\ Cluster[m] = Cluster[n]}
    IN  IF parents = {} THEN 0 ELSE 1 + Max({in_cluster_rank[m] : m \in parents})

\* behind[n] are the loopers without whose update n has none: such a node listens to
\* nothing in another cluster, nor to a node that is not behind the same.
LoopsApart(behind) ==
    /\ behind \in [Nodes -> SUBSET Loopers]
    /\ \A l \in Loopers : behind[l] = {l}
    /\ \A n \in Sinks \cup GlobalLoopers : behind[n] = {}
    /\ \A n \in Nodes \ (Loopers \cup GlobalLoopers) : \A m \in Listened(n) :
         IF Cluster[m] = Cluster[n] THEN behind[m] = behind[n] ELSE behind[n] = {}
    /\ \A n \in DOMAIN Initial : behind[n] \cap Cells = {}

\* The looper of a GlobalCellLoop is in the cluster of its source, below it, or alone.
GlobalLoopsApart ==
    \A g \in GlobalLoopers, m \in Nodes : m \in Listened(g) =>
        \/ Cluster[m] = Cluster[g]
        \/ <<Cluster[m], Cluster[g]>> \in ClusterFeeds
        \/ \A n \in Nodes : Cluster[n] = Cluster[g] => n = g

\* Every loop is closed, by what waits for no looper itself.  What a node n reads and
\* does not listen to waits for none, for the same as n, or for one that n is ready
\* before, because it closes the loop.
LoopsClosed(behind) ==
    /\ \A l \in Loopers \cup GlobalLoopers : Args[l] # <<>>
    /\ \A l \in Loopers : behind[Args[l][1]] = {}
    /\ \A n \in Nodes : \A c \in Range(Args[n]) \ (Listened(n) \cup GlobalLoopers) :
         IF Cluster[c] # Cluster[n] \/ behind[c] = {} \/ behind[c] = behind[n]
           THEN <<n, c>> \notin Closes
           ELSE /\ <<n, c>> \in Closes
                /\ behind[n] = {}
                /\ \E l \in behind[c] :
                     n = Args[l][1] \/ in_cluster_rank[n] < in_cluster_rank[Args[l][1]]

=============================================================================
