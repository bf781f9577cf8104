CONSTANTS
    MaxOffset = 2
    BatchSize = 2
    MaxMessages = 0
    MaxFaults = 2
    MaxRuns = 2

SPECIFICATION Spec

INVARIANTS
    TypeOK
    CommittedAccounted
    DuplicatesBounded
    ExitZeroLoaded
    PoisonIsolated
    NoOpenTransactionAtPoll

PROPERTIES
    ImplementsAtLeastOnce
    OffsetsRetreatOnlyInFinalFlush

CHECK_DEADLOCK FALSE
