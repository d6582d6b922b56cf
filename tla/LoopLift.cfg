SPECIFICATION Spec
CONSTANTS
    Nodes <- LiftNodes
    Operation <- LiftOperation
    Args <- LiftArgs
    Cluster <- LiftCluster
    ClusterFeeds <- LiftClusterFeeds
    Closes <- LiftCloses
    Initial <- LiftInitial
    Value <- Small
    TrueValues <- Odd
    Sent = {1, 2}
    UserFunction <- Mix
    Absent = Absent
    Failure = Failure
    MaxTransactions = 2
PROPERTIES OneValuePerTransaction
