SPECIFICATION Spec
CONSTANTS
    IntegerMax = 20000
    GoIntMax = 40000
    CsvRow <- MCCsvRow
    Payload <- MCPayload
    MaxErrors = 2
    MaxRows = 2
INVARIANTS
    ExitZeroConforms
    SummaryExact
    
    
    RejectedKept
    UnexpectedProtocolUnreachable
