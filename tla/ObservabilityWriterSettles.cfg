CONSTANTS
    Writer = {publishing, quiet}
    Publisher = {publishing}
    MinProcessed = 1
    Scale = 1
    Threshold = 0
    MaxRows = 0
    MaxAttempts = 3
    MaxFaults = 1

SPECIFICATION FairSpec

PROPERTIES
    AuditRowKept
    AttemptEnds

CHECK_DEADLOCK FALSE
