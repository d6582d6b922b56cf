SPECIFICATION FairSpec
CONSTANTS
    Pool = {w1, w2}
    MaxPushes = 2
    MaxBuilds = 2
PROPERTIES StopReturns
CHECK_DEADLOCK FALSE
