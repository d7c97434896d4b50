SPECIFICATION FairSpec
CONSTANTS
    MaxSteps = 6
    MaxProviderFaults = 2
    MaxCuts = 3
    CutsWhileHandled = FALSE
INVARIANTS
    AppliedInOrder
PROPERTIES
    TrackerProgresses
    LostResponseHeals
CHECK_DEADLOCK FALSE
