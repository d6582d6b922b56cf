SPECIFICATION FairSpec
CONSTANTS
    Clusters <- GlitchClusters
    Rank <- GlitchRank
    Edges <- GlitchEdges
    Listeners <- GlitchEdges
    LoopClusters = {}
    Sources = {1, 2}
    MaxTransactions = 3
    Workers = 4
    UseParallelExecution = FALSE
    NoRank = 9
INVARIANTS TypeOK EndsComplete NoLostUpdate StatesConsistent
PROPERTIES Completion
