CONSTANTS
    MaxOffset = 2
    BatchSize = 3
    MaxMessages = 2
    MaxFaults = 1
    MaxRuns = 2

SPECIFICATION FairSpec

PROPERTY RunEnds

CHECK_DEADLOCK FALSE
