SPECIFICATION FairSpec
CONSTANTS
    Rows = 3
    MaxFaults = 2
INVARIANTS
    TypeOK
    LeftoversAreMarked
    CulpritUnmarked
    PassedMeansLoaded
PROPERTIES
    Supervision
    RunnerReturns
