SPECIFICATION FairSpec
CONSTANTS
    none = none
    Thread = {1, 2}
    MaxRecords <- Uneven
    Blocks <- BlockOnWarnPlus
    Capacity = 2
    MaxBatch = 2
INVARIANTS
    EachRecordOnce
    FlushCoversAccepted
    NothingStranded
    InOrderWhileRunning
PROPERTIES
    CallsReturn
    StopReturns
