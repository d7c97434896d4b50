SPECIFICATION FairSpec
CONSTANTS
    MaxTakes = 2
    MaxFaults = 2
    MaxPosts = 2
    MaxRefreshes = 1
INVARIANTS
    OwnSession
    NothingLeftRunning
PROPERTIES
    LiveNeverStopsRecording
    PanelAnswers
    PageCatchesUp
CHECK_DEADLOCK FALSE
