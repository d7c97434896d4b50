SPECIFICATION FairSpec
CONSTANTS
    MaxSteps = 6
    MaxProviderFaults = 2
    MaxCuts = 0
    CutsWhileHandled = FALSE
PROPERTY SkipContinues
CHECK_DEADLOCK FALSE
