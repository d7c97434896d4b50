SPECIFICATION FairSpec
CONSTANTS
    MaxTakes = 1
    MaxFaults = 0
    MaxPosts = 1
    MaxRefreshes = 0
PROPERTIES
    FinishesByAnalysing
CHECK_DEADLOCK FALSE
