SPECIFICATION FairSpec
CONSTANTS
    Clusters <- GlitchClusters
    Rank <- GlitchRank
    Edges <- GlitchEdges
    Listeners <- GlitchEdges
    LoopClusters = {}
    Sources = {1, 2}
    MaxTransactions = 2
    Workers = 4
    UseParallelExecution = TRUE
    NoRank = 9
INVARIANTS OrderInv ParentsFirst NoOvertaking NoWarning PlannerKnows
PROPERTIES UpdatedOnce Completion
