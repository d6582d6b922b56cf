SPECIFICATION Spec
CONSTANTS
    Clusters <- GlitchClusters
    Rank <- LoopRank
    Edges <- LoopEdges
    Listeners <- LoopEdges
    LoopClusters = {1}
    Sources = {3}
    MaxTransactions = 3
    Workers = 4
    UseParallelExecution = TRUE
    NoRank = 9
PROPERTIES LoopSampleStable
INVARIANTS LoopValuesOrdered InOrder NoOvertaking
