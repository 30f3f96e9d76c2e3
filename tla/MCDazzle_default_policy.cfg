SPECIFICATION Spec
CONSTANTS
    nullopt = nullopt
    Key = {1, 2}
    Value = {"a", "b"}
    Pick <- DefaultPick
    SizeBytes <- FileBytes
    ApproximateSize <- MemtableBytes
    MemtableSize = 1
    Faults = {}
    MaxSst = 6
    MaxWal = 3
    MaxLsn = 5
INVARIANT
    ReadsMatchModel
CHECK_DEADLOCK FALSE
