CONSTANTS
    Writer = {w1, w2, w3}
    Publisher = {}
    MinProcessed = 0
    Scale = 1
    Threshold = 0
    MaxRows = 0
    MaxAttempts = 5
    MaxFaults = 0

SPECIFICATION Spec

SYMMETRY AlikeWriters

INVARIANT NoStandstill

CHECK_DEADLOCK FALSE
