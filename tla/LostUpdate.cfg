SPECIFICATION Spec
CONSTANTS
    Clusters <- GlitchClusters
    Rank <- ReversedRank
    Edges <- ReversedEdges
    Listeners <- ReversedEdges
    LoopClusters = {}
    Sources = {3}
    MaxTransactions = 2
    Workers = 4
    UseParallelExecution = TRUE
    NoRank = 9
INVARIANTS NoLostUpdate
