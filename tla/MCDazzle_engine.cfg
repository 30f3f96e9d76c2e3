SPECIFICATION Spec
CONSTANTS
    nullopt = nullopt
    Key = {1, 2}
    Value = {"a", "b"}
    Pick <- FullPick
    SizeBytes <- NoSize
    ApproximateSize <- MemtableBytes
    MemtableSize = 4
    Faults = {"sync", "sst_write"}
    MaxSst = 5
    MaxWal = 4
    MaxLsn = 3
INVARIANTS
    VersionIsDisk
    ReadsMatchModel
    IdsFollowSequences
    OneWalHoldsRecords
CHECK_DEADLOCK FALSE
