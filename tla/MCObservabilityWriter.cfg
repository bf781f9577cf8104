CONSTANTS
    Writer = {publishing, quiet}
    Publisher = {publishing}
    MinProcessed = 1
    Scale = 1
    Threshold = 0
    MaxRows = 1
    MaxAttempts = 3
    MaxFaults = 1

SPECIFICATION Spec

INVARIANTS
    TypeOK
    TablesAgree
    FlaggedAfterDelivery

PROPERTY NoAlarmMissed

CHECK_DEADLOCK FALSE
