SPECIFICATION Spec
CONSTANTS
    MaxNodes = 4
    MaxClusterId = 3
INVARIANTS TypeOK NoClusterCycle InClusterRanksExact PlainClustersRanked
PROPERTIES SplitByAssociates
CHECK_DEADLOCK FALSE
