CONSTANTS
    MaxOffset = 3
    MaxMessages = 2
    MaxFaults = 2
    MaxRuns = 2

SPECIFICATION FairSpec

INVARIANTS
    TypeOK
    SilentLossBounded
    CopiesBounded
    ExitZeroRelayed
    FaultFreeExactlyOnce

PROPERTIES
    OffsetNeverRetreats
    RunEnds

CHECK_DEADLOCK FALSE
