SPECIFICATION Spec
CONSTANTS
    Nodes <- MainNodes
    Operation <- MainOperation
    Args <- MainArgs
    Cluster <- MainCluster
    ClusterFeeds <- MainClusterFeeds
    Closes <- MainCloses
    Initial <- MainInitial
    Value <- Small
    TrueValues <- Odd
    Sent = {1, 2}
    UserFunction <- Mix
    Absent = Absent
    Failure = Failure
    MaxTransactions = 3
INVARIANTS TypeOK NoFailure NoneLeft Forgotten
PROPERTIES Serializable OneValuePerTransaction SamplesStable
