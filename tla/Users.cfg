SPECIFICATION FairSpec
CONSTANTS
    Users = {u1, u2}
    ExecutorThread = executor
    Nobody = nobody
    MaxTransactions = 2
    MaxDepth = 2
    MaxProposals = 2
INVARIANTS TypeOK NoUseAfterFree CurrentIsOwn NoSelfWait Freed
PROPERTIES WaitEnds
CHECK_DEADLOCK FALSE
