SPECIFICATION FairSpec
CONSTANTS
    Pool = {w1, w2}
    MaxPushes = 3
    MaxBuilds = 2
INVARIANTS TypeOK NoEmptyPop StoppedMeansStopped SleepersNotNeeded
CHECK_DEADLOCK FALSE
PROPERTIES StopReturnsUnlessMissed
