SPECIFICATION Spec
CONSTANTS
    Nodes <- AcrossNodes
    Operation <- AcrossOperation
    Args <- AcrossArgs
    Cluster <- AcrossCluster
    ClusterFeeds <- AcrossClusterFeeds
    Closes <- AcrossCloses
    Initial <- AcrossInitial
    Value <- Small
    TrueValues <- Odd
    Sent = {1, 2}
    UserFunction <- Mix
    Absent = Absent
    Failure = Failure
    MaxTransactions = 2
INVARIANTS NoneLeft
