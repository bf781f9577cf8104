SPECIFICATION FairSpec
CONSTANTS
    r1 = r1
    r2 = r2
    Run <- MCRun
    DataSets <- MCDataSets
    MaxRows = 3
    MaxMessages <- MCMaxMessages
    MaxDisturbances = 1
INVARIANTS
    TypeOK
    
    CopiesPaid
    ContractStopsRun
PROPERTIES
    RunFinishes
CHECK_DEADLOCK FALSE
