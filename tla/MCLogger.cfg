SPECIFICATION FairSpec
CONSTANTS
    Thread = {1, 2, 3}
    main = 1
    worker = 3
    MaxRecords <- Records
    Record <- LogRecords
    Size <- Words
    slots_cap = 2
    slot_words = 2
    kDumpCopyMax = 2
    kWritingFlag = 8
    MaxSeq = 3
    FatalRecord <- Fatals
    Faulty = {2}
    queue_capacity = 1
    none = none
CHECK_DEADLOCK FALSE
INVARIANTS
    OneWriterPerSlot
    NoTornRecord
    DumpMissesNothingSettled
    FatalRecordDumped
PROPERTY
    FatalEnds
