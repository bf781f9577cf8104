SPECIFICATION Spec
CONSTANTS
    r1 = r1
    r2 = r2
    Run <- MCRun
    DataSets <- MCDataSets
    MaxRows = 3
    MaxMessages <- MCMaxMessages
    MaxDisturbances = 0
INVARIANT FreshKafka
CHECK_DEADLOCK FALSE
