CONSTANTS
    Writer = {publishing, quiet}
    Publisher = {publishing}
    MinProcessed = 1
    Scale = 1
    Threshold = 0
    MaxRows = 1
    MaxAttempts = 2
    MaxFaults = 0

SPECIFICATION Spec

INVARIANT FlagMeansDelivered

CHECK_DEADLOCK FALSE
