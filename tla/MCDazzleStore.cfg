SPECIFICATION FairSpec
CONSTANTS
    nullopt = nullopt
    Key = {1, 2}
    Value = {"a", "b"}
    Pick <- FullPick
    SizeBytes <- NoSize
    ApproximateSize <- MemtableBytes
    MemtableSize = 4
    Faults = {}
    MaxSst = 5
    MaxWal = 4
    MaxLsn = 3
PROPERTIES
    ImplementsKVStore
    CallsReturn
CHECK_DEADLOCK FALSE
